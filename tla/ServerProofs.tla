---------------------------- MODULE ServerProofs ----------------------------
(***************************************************************************)
(* Proofs about the servers: the Entropy benchmark (EntropyServer.tla),    *)
(* the replication benchmark (ReplicationServer.tla) and the connections   *)
(* of a session (Dispatch.tla), for any number of peers, operations,       *)
(* chunks, rounds, replicas, messages and connections.                     *)
(***************************************************************************)
EXTENDS EntropyServer, ReplicationServer, Dispatch, FiniteSetTheorems, SequenceTheorems, TLAPS

-----------------------------------------------------------------------------
(***************************************************************************)
(* EntropyServer.                                                          *)
(***************************************************************************)

(* What a task may fail for: a peer that ended, a request or decoder that  *)
(* failed, a call ahead of start-peers, or a decoder without enough; and a *)
(* benchmark, also for a result whose answer was lost to a timeout.        *)
TaskCause == mishaps > 0 \/ "peer" \in broken \/ "recover" \in broken
Cause == TaskCause \/ ("key" \in broken /\ timeouts > 0)

ChunkEntries == [index : 1..N, chunk : (1..NumTotal) \X (1..N)]

ControlPhases == {"starting", "put", "poll-put", "get", "poll-get", "stopping", "done", "failed"}

(* What the state looks like. *)
ServerTypes ==
  /\ control \in [phase : ControlPhases, op : 1..NumTotal]
  /\ polling \in {"none", "asked", "pending", "result", "error"}
  /\ timeouts \in Nat /\ mishaps \in Nat
  /\ sessions \in [Servers -> {"none", "running", "ended"}]
  /\ senders \in [Servers -> BOOLEAN]
  /\ bench \in [Benchmarks -> {"none", "running", "ok", "err", "removed"}]
  /\ chunks \in [1..NumTotal -> Seq(ChunkEntries)]
  /\ DOMAIN fed = 1..NumTotal
  /\ DOMAIN call = Calls

(* A peer's session is there as long as its sender is, unless a peer has   *)
(* ended, or a request to stop the peers has failed halfway.               *)
PeerRight(s) ==
  /\ ~senders[s] => sessions[s] = "none"
  /\ senders[s] => sessions[s] = "running" \/ mishaps > 0

(* A call goes from its handler to the store and back: it is in one place  *)
(* at a time, and while somebody will answer it, it is pending and         *)
(* somebody waits for the answer.                                          *)
CallRight(x) ==
  /\ bench[<<x[1], x[2]>>] = "none" => call[x] = "none" /\ x \notin pending
  /\ call[x] = "called" => x \notin pending
  /\ call[x] \in {"called", "inserted"} => x \notin working \cup upcalls
  /\ call[x] = "inserted" => x \in pending \cap receivers
  /\ x \in working \cup upcalls => x \in pending \cap receivers
  /\ x \notin working \cap upcalls
  /\ call[x] = "failed" => mishaps > 0 \/ "peer" \in broken

(* A put has gathered all chunks once it is done, and a get begins with    *)
(* all; the chunk at an index is the one that was made for it.             *)
ObjectRight(o) ==
  /\ bench[<<"put", o>>] = "none" => Len(chunks[o]) = 0
  /\ bench[<<"put", o>>] = "running" => Len(chunks[o]) < N
  /\ bench[<<"put", o>>] = "ok" => Len(chunks[o]) = N
  /\ bench[<<"get", o>>] # "none" => Len(chunks[o]) = N
  /\ \A i \in 1..Len(chunks[o]) : chunks[o][i].chunk = <<o, chunks[o][i].index>>
  /\ \A e \in fed[o] : e.chunk = <<o, e.index>>

(* The benchmark that the controller asks for was begun and, as long as no *)
(* request gave up, its result was not taken by anybody else.              *)
PollRight(kind) ==
  control.phase = PollPhase[kind] =>
    /\ bench[Current(kind)] # "none"
    /\ bench[Current(kind)] = "removed" => timeouts > 0 \/ polling \in {"result", "error"}

(* Where the controller is tells which benchmarks were begun. *)
ControlRight ==
  /\ \A o \in 1..NumTotal : o > control.op => bench[<<"put", o>>] = "none" /\ bench[<<"get", o>>] = "none"
  /\ control.phase \in {"starting", "put"} => bench[<<"put", control.op>>] = "none"
  /\ control.phase \in {"starting", "put", "poll-put", "get"} => bench[<<"get", control.op>>] = "none"
  /\ control.phase \in {"get", "poll-get"} \/ (control.phase = "poll-put" /\ polling = "result") =>
       Len(chunks[control.op]) = N
  /\ control.phase \in {"starting", "put", "get"} => polling = "none"
  /\ PollRight("put") /\ PollRight("get")

(* What fails has a cause. *)
CausesRight ==
  /\ control.phase = "failed" \/ polling = "error" => Cause
  /\ \A b \in Benchmarks : bench[b] = "err" => TaskCause

(* The inductive invariant. *)
ServerInv ==
  /\ ServerTypes
  /\ \A s \in Servers : PeerRight(s)
  /\ \A x \in Calls : CallRight(x)
  /\ \A o \in 1..NumTotal : ObjectRight(o)
  /\ ControlRight
  /\ CausesRight
  /\ UpcallsServed

LEMMA CallsAre ==
  ASSUME NEW x \in Calls
  PROVE  /\ x = <<x[1], x[2], x[3]>> /\ x[1] \in {"put", "get"} /\ x[2] \in 1..NumTotal /\ x[3] \in 1..N
         /\ <<x[1], x[2]>> \in Benchmarks
         /\ Server(x) \in Servers
  BY UrlAssumption DEF Calls, Benchmarks, Server

LEMMA BenchmarksAre ==
  ASSUME NEW o \in 1..NumTotal
  PROVE  <<"put", o>> \in Benchmarks /\ <<"get", o>> \in Benchmarks /\ <<"put", o>> # <<"get", o>>
  BY DEF Benchmarks

LEMMA ServerInitRight == ASSUME ServerInit PROVE ServerInv
<1>1. ServerTypes
  BY EntropyServerAssumption DEF ServerInit, ServerTypes, ControlPhases
<1>2. \A s \in Servers : PeerRight(s)
  BY DEF ServerInit, PeerRight
<1>3. ASSUME NEW x \in Calls PROVE CallRight(x)
  BY CallsAre DEF ServerInit, CallRight
<1>4. ASSUME NEW o \in 1..NumTotal PROVE ObjectRight(o)
  BY BenchmarksAre, EntropyServerAssumption DEF ServerInit, ObjectRight
<1>5. ControlRight
  BY BenchmarksAre, EntropyServerAssumption DEF ServerInit, ControlRight, PollRight, PollPhase, Current
<1>6. CausesRight /\ UpcallsServed
  BY DEF ServerInit, CausesRight, UpcallsServed
<1> QED
  BY <1>1, <1>2, <1>3, <1>4, <1>5, <1>6 DEF ServerInv

(* Steps that leave the benchmarks and the controller alone. *)
LEMMA SameBenchmarks ==
  ASSUME ServerInv, UNCHANGED <<control, polling, timeouts, benchVars>>,
         mishaps' = mishaps \/ mishaps' > 0, broken \subseteq broken'
  PROVE  (\A o \in 1..NumTotal : ObjectRight(o)') /\ ControlRight' /\ CausesRight'
<1>1. ASSUME NEW o \in 1..NumTotal PROVE ObjectRight(o)'
  BY DEF ServerInv, ObjectRight, benchVars
<1>2. ControlRight'
  BY DEF ServerInv, ControlRight, PollRight, Current, benchVars
<1>3. (Cause => Cause') /\ (TaskCause => TaskCause')
  BY DEF Cause, TaskCause
<1>4. CausesRight'
  BY <1>3 DEF ServerInv, CausesRight, benchVars
<1> QED
  BY <1>1, <1>2, <1>4

(* Steps that leave the calls alone. *)
LEMMA SameCalls ==
  ASSUME ServerInv, UNCHANGED <<handlerVars, broken>>, mishaps' = mishaps \/ mishaps' > 0,
         \A b \in Benchmarks : bench'[b] = "none" => bench[b] = "none"
  PROVE  (\A x \in Calls : CallRight(x)') /\ UpcallsServed'
<1>1. ASSUME NEW x \in Calls PROVE CallRight(x)'
  BY CallsAre DEF ServerInv, CallRight, handlerVars
<1> QED
  BY <1>1 DEF ServerInv, UpcallsServed

(* A mishap is counted, and a cause. *)
LEMMA MishapCounts == ASSUME ServerInv, Mishap PROVE mishaps' \in Nat /\ mishaps' > 0 /\ TaskCause' /\ Cause'
<1>1. mishaps \in Nat /\ mishaps' = mishaps + 1
  BY DEF ServerInv, ServerTypes, Mishap
<1>2. mishaps' \in Nat /\ mishaps' > 0
  BY <1>1
<1> QED
  BY <1>2 DEF TaskCause, Cause

LEMMA StartPeersRight == ASSUME ServerInv, NEW s \in Servers, StartPeers(s) PROVE ServerInv'
<1>1. ~senders[s] /\ PeerRight(s) /\ sessions[s] = "none"
  BY DEF StartPeers, ServerInv, PeerRight
<1>2. senders' = [senders EXCEPT ![s] = TRUE] /\ sessions' = [sessions EXCEPT ![s] = "running"]
      /\ UNCHANGED <<broken, control, polling, timeouts, mishaps, benchVars, handlerVars>>
  BY <1>1 DEF StartPeers, controlVars
<1>3. ServerTypes'
  BY <1>2 DEF ServerInv, ServerTypes, benchVars, handlerVars
<1>4. \A p \in Servers : PeerRight(p)'
  BY <1>2 DEF ServerInv, ServerTypes, PeerRight
<1>5. (\A x \in Calls : CallRight(x)') /\ UpcallsServed'
  BY <1>2, SameCalls DEF benchVars
<1>6. (\A o \in 1..NumTotal : ObjectRight(o)') /\ ControlRight' /\ CausesRight'
  BY <1>2, SameBenchmarks
<1> QED
  BY <1>3, <1>4, <1>5, <1>6 DEF ServerInv

LEMMA PeerDiesRight == ASSUME ServerInv, NEW s \in Servers, PeerDies(s) PROVE ServerInv'
<1>2. mishaps' \in Nat /\ mishaps' > 0
  BY MishapCounts DEF PeerDies
<1>3. sessions[s] = "running" /\ sessions' = [sessions EXCEPT ![s] = "ended"]
      /\ UNCHANGED <<broken, control, polling, timeouts, senders, benchVars, handlerVars>>
  BY DEF PeerDies, controlVars
<1>4. ServerTypes'
  BY <1>2, <1>3 DEF ServerInv, ServerTypes, benchVars, handlerVars
<1>5. \A p \in Servers : PeerRight(p)'
  BY <1>2, <1>3 DEF ServerInv, ServerTypes, PeerRight
<1>6. (\A x \in Calls : CallRight(x)') /\ UpcallsServed'
  BY <1>2, <1>3, SameCalls DEF benchVars
<1>7. (\A o \in 1..NumTotal : ObjectRight(o)') /\ ControlRight' /\ CausesRight'
  BY <1>2, <1>3, SameBenchmarks
<1> QED
  BY <1>4, <1>5, <1>6, <1>7 DEF ServerInv

LEMMA OkRight == ASSUME ServerInv, NEW s \in Servers, Ok(s) PROVE ServerInv'
<1>1. sessions[s] = "ended" /\ PeerRight(s) /\ mishaps > 0
  BY DEF Ok, ServerInv, PeerRight, ServerTypes
<1>2. sessions' = [sessions EXCEPT ![s] = "none"]
      /\ UNCHANGED <<polling, timeouts, senders, mishaps, benchVars, handlerVars, broken>>
  BY DEF Ok
<1>3. control' = [control EXCEPT !.phase = "failed"] \/ control' = control
  BY DEF Ok, Fail
<1>4. ServerTypes'
  BY <1>2, <1>3 DEF ServerInv, ServerTypes, benchVars, handlerVars, ControlPhases
<1>5. \A p \in Servers : PeerRight(p)'
  BY <1>1, <1>2 DEF ServerInv, ServerTypes, PeerRight
<1>6. (\A x \in Calls : CallRight(x)') /\ UpcallsServed'
  BY <1>2, SameCalls DEF benchVars
<1>7. CASE control' = control
  <2>1. (\A o \in 1..NumTotal : ObjectRight(o)') /\ ControlRight' /\ CausesRight'
    BY <1>2, <1>7, SameBenchmarks
  <2> QED
    BY <2>1, <1>4, <1>5, <1>6 DEF ServerInv
<1>8. CASE control' = [control EXCEPT !.phase = "failed"]
  <2>1. control'.phase = "failed" /\ control'.op = control.op
    BY <1>8 DEF ServerInv, ServerTypes
  <2>2. ASSUME NEW o \in 1..NumTotal PROVE ObjectRight(o)'
    BY <1>2 DEF ServerInv, ObjectRight, benchVars
  <2>3. ControlRight'
    BY <1>2, <2>1 DEF ServerInv, ControlRight, PollRight, PollPhase, benchVars
  <2>4. CausesRight'
    BY <1>1, <1>2 DEF ServerInv, CausesRight, Cause, TaskCause, benchVars
  <2> QED
    BY <2>2, <2>3, <2>4, <1>4, <1>5, <1>6 DEF ServerInv
<1> QED
  BY <1>3, <1>7, <1>8

LEMMA StopPeersRight == ASSUME ServerInv, NEW s \in Servers, StopPeers(s) PROVE ServerInv'
<1>1. sessions' = [sessions EXCEPT ![s] = "none"] /\ senders' = [senders EXCEPT ![s] = FALSE]
      /\ UNCHANGED <<control, polling, timeouts, mishaps, benchVars, handlerVars, broken>>
  BY DEF StopPeers, controlVars
<1>2. ServerTypes'
  BY <1>1 DEF ServerInv, ServerTypes, benchVars, handlerVars
<1>3. \A p \in Servers : PeerRight(p)'
  BY <1>1 DEF ServerInv, ServerTypes, PeerRight
<1>4. (\A x \in Calls : CallRight(x)') /\ UpcallsServed'
  BY <1>1, SameCalls DEF benchVars
<1>5. (\A o \in 1..NumTotal : ObjectRight(o)') /\ ControlRight' /\ CausesRight'
  BY <1>1, SameBenchmarks
<1> QED
  BY <1>2, <1>3, <1>4, <1>5 DEF ServerInv

(* What a step of the handler of x may change. *)
LEMMA HandlerStepRight ==
  ASSUME ServerInv, NEW x \in Calls, UNCHANGED <<controlVars, peersVars, benchVars>>,
         DOMAIN call' = Calls, \A y \in Calls : y # x => call'[y] = call[y],
         \A y \in Calls : y # x => /\ y \in pending' <=> y \in pending
                                   /\ y \in receivers' <=> y \in receivers
                                   /\ y \in working' <=> y \in working
                                   /\ y \in upcalls' <=> y \in upcalls,
         broken \subseteq broken', UpcallsServed', CallRight(x)'
  PROVE  ServerInv'
<1>1. ServerTypes'
  BY DEF ServerInv, ServerTypes, controlVars, peersVars, benchVars
<1>2. \A s \in Servers : PeerRight(s)'
  BY DEF ServerInv, PeerRight, peersVars
<1>3. ASSUME NEW y \in Calls PROVE CallRight(y)'
  <2>1. CASE y = x
    BY <2>1
  <2>2. CASE y # x
    BY <2>2 DEF ServerInv, CallRight, peersVars, benchVars
  <2> QED
    BY <2>1, <2>2
<1>4. (\A o \in 1..NumTotal : ObjectRight(o)') /\ ControlRight' /\ CausesRight'
  BY SameBenchmarks DEF controlVars, peersVars
<1> QED
  BY <1>1, <1>2, <1>3, <1>4 DEF ServerInv

LEMMA HandlerInsertRight == ASSUME ServerInv, NEW x \in Calls, HandlerInsert(x) PROVE ServerInv'
<1>1. CallRight(x) /\ UpcallsServed /\ DOMAIN call = Calls
  BY DEF ServerInv, ServerTypes
<1>2. call[x] = "called" /\ x \notin pending
  BY <1>1 DEF HandlerInsert, CallRight
<1>3. broken' = broken /\ UNCHANGED <<controlVars, peersVars, benchVars, working, upcalls>>
      /\ call' = [call EXCEPT ![x] = "inserted"] /\ pending' = pending \cup {x} /\ receivers' = receivers \cup {x}
  BY <1>2 DEF HandlerInsert
<1>4. CallRight(x)' /\ UpcallsServed'
  BY <1>1, <1>2, <1>3 DEF CallRight, UpcallsServed, benchVars, peersVars
<1> QED
  BY <1>1, <1>3, <1>4, HandlerStepRight

LEMMA HandlerSendRight == ASSUME ServerInv, NEW x \in Calls, HandlerSend(x) PROVE ServerInv'
<1>1. CallRight(x) /\ UpcallsServed /\ DOMAIN call = Calls /\ PeerRight(Server(x))
  BY CallsAre DEF ServerInv, ServerTypes
<1>2. call[x] = "inserted" /\ UNCHANGED <<controlVars, peersVars, benchVars, pending, upcalls>>
  BY DEF HandlerSend
<1>3. CASE senders[Server(x)] /\ sessions[Server(x)] = "running"
  <2>1. call' = [call EXCEPT ![x] = "sent"] /\ working' = working \cup {x} /\ UNCHANGED <<receivers, broken>>
    BY <1>3 DEF HandlerSend
  <2>2. CallRight(x)' /\ UpcallsServed'
    BY <1>1, <1>2, <2>1 DEF CallRight, UpcallsServed, benchVars, peersVars
  <2> QED
    BY <1>1, <1>2, <2>1, <2>2, HandlerStepRight
<1>4. CASE ~(senders[Server(x)] /\ sessions[Server(x)] = "running")
  <2>1. /\ call' = [call EXCEPT ![x] = "failed"] /\ receivers' = receivers \ {x} /\ working' = working
        /\ broken' = IF senders[Server(x)] THEN broken ELSE broken \cup {"peer"}
    BY <1>4 DEF HandlerSend
  <2>2. mishaps > 0 \/ "peer" \in broken'
    BY <1>1, <1>4, <2>1 DEF PeerRight
  <2>3. CallRight(x)' /\ UpcallsServed' /\ broken \subseteq broken'
    BY <1>1, <1>2, <2>1, <2>2 DEF CallRight, UpcallsServed, benchVars, peersVars
  <2> QED
    BY <1>1, <1>2, <2>1, <2>3, HandlerStepRight
<1> QED
  BY <1>3, <1>4

LEMMA HandlerDroppedRight == ASSUME ServerInv, NEW x \in Calls, HandlerDropped(x) PROVE ServerInv'
<1>1. CallRight(x) /\ UpcallsServed /\ DOMAIN call = Calls
  BY DEF ServerInv, ServerTypes
<1>2. /\ UNCHANGED <<controlVars, peersVars, benchVars, pending, working, upcalls, broken>>
      /\ call' = [call EXCEPT ![x] = "none"]
      /\ receivers' = IF call[x] = "inserted" THEN receivers \ {x} ELSE receivers
      /\ call[x] \in {"called", "inserted", "sent", "answered"}
  BY DEF HandlerDropped, GivenUp
<1>3. CallRight(x)' /\ UpcallsServed'
  BY <1>1, <1>2 DEF CallRight, UpcallsServed, benchVars, peersVars
<1> QED
  BY <1>1, <1>2, <1>3, HandlerStepRight

LEMMA StoreAnswersRight == ASSUME ServerInv, NEW x \in Calls, StoreAnswers(x) PROVE ServerInv'
<1>1. CallRight(x) /\ UpcallsServed /\ DOMAIN call = Calls
  BY DEF ServerInv, ServerTypes
<1>2. /\ UNCHANGED <<controlVars, peersVars, benchVars, call, pending, receivers, broken>>
      /\ x \in working /\ working' = working \ {x} /\ upcalls' = upcalls \cup {x}
  BY DEF StoreAnswers
<1>3. CallRight(x)' /\ UpcallsServed'
  BY <1>1, <1>2 DEF CallRight, UpcallsServed, benchVars, peersVars
<1> QED
  BY <1>1, <1>2, <1>3, HandlerStepRight

LEMMA UpcallSessionRight == ASSUME ServerInv, NEW x \in Calls, UpcallSession(x) PROVE ServerInv'
<1>1. CallRight(x) /\ UpcallsServed /\ DOMAIN call = Calls
  BY DEF ServerInv, ServerTypes
<1>2. x \in upcalls /\ x \in pending \cap receivers /\ x \notin working
  BY <1>1 DEF CallRight, UpcallSession
<1>3. /\ UNCHANGED <<controlVars, peersVars, benchVars, working, broken>>
      /\ upcalls' = upcalls \ {x} /\ pending' = pending \ {x} /\ receivers' = receivers \ {x}
      /\ call' = IF call[x] = "sent" THEN [call EXCEPT ![x] = "answered"] ELSE call
  BY <1>2 DEF UpcallSession
<1>4. DOMAIN call' = Calls /\ (\A y \in Calls : y # x => call'[y] = call[y])
      /\ call'[x] = IF call[x] = "sent" THEN "answered" ELSE call[x]
  BY <1>1, <1>3
<1>5. CallRight(x)' /\ UpcallsServed'
  BY <1>1, <1>2, <1>3, <1>4 DEF CallRight, UpcallsServed, benchVars, peersVars
<1> QED
  BY <1>1, <1>3, <1>4, <1>5, HandlerStepRight

(* The task of a benchmark ends with an error. *)
LEMMA TaskFailsRight ==
  ASSUME ServerInv, NEW b \in Benchmarks, bench[b] = "running", bench' = [bench EXCEPT ![b] = "err"],
         UNCHANGED <<controlVars, sessions, senders, chunks, fed, handlerVars, broken>>,
         mishaps' \in Nat, mishaps' = mishaps \/ mishaps' > 0, TaskCause'
  PROVE  ServerInv'
<1>1. ServerTypes
  BY DEF ServerInv
<1>2. ServerTypes'
  BY <1>1 DEF ServerTypes, controlVars, handlerVars
<1>3. \A s \in Servers : PeerRight(s)'
  BY DEF ServerInv, PeerRight
<1>4. bench'[b] = "err" /\ \A c \in Benchmarks : c # b => bench'[c] = bench[c]
  BY <1>1 DEF ServerTypes
<1>5. (\A y \in Calls : CallRight(y)') /\ UpcallsServed'
  BY <1>4, SameCalls
<1>6. ASSUME NEW o \in 1..NumTotal PROVE ObjectRight(o)'
  <2>1. ObjectRight(o) /\ <<"put", o>> \in Benchmarks /\ <<"get", o>> \in Benchmarks
    BY BenchmarksAre DEF ServerInv
  <2> QED
    BY <2>1, <1>4 DEF ObjectRight
<1>7. ControlRight'
  <2>1. \A o \in 1..NumTotal : <<"put", o>> \in Benchmarks /\ <<"get", o>> \in Benchmarks
    BY BenchmarksAre
  <2>2. ControlRight /\ control.op \in 1..NumTotal
    BY <1>1 DEF ServerInv, ServerTypes
  <2> QED
    BY <2>1, <2>2, <1>4 DEF ControlRight, PollRight, Current, controlVars
<1>8. CausesRight'
  BY <1>4 DEF ServerInv, CausesRight, Cause, controlVars
<1> QED
  BY <1>2, <1>3, <1>5, <1>6, <1>7, <1>8 DEF ServerInv

LEMMA JoinErrorRight == ASSUME ServerInv, NEW x \in Calls, JoinError(x) PROVE ServerInv'
<1>1. CallRight(x) /\ ServerTypes /\ <<x[1], x[2]>> \in Benchmarks
  BY CallsAre DEF ServerInv
<1>2. bench[<<x[1], x[2]>>] = "running" /\ call[x] = "failed" /\ TaskCause
  BY <1>1 DEF JoinError, CallRight, TaskCause
<1>3. bench' = [bench EXCEPT ![<<x[1], x[2]>>] = "err"]
      /\ UNCHANGED <<controlVars, peersVars, chunks, fed, handlerVars, broken>>
  BY DEF JoinError
<1>4. mishaps' \in Nat /\ mishaps' = mishaps /\ TaskCause' /\ UNCHANGED <<sessions, senders>>
  BY <1>1, <1>2, <1>3 DEF ServerTypes, TaskCause, peersVars
<1> QED
  BY <1>1, <1>2, <1>3, <1>4, TaskFailsRight

LEMMA CallFailsRight == ASSUME ServerInv, NEW x \in Calls, CallFails(x) PROVE ServerInv'
<1>1. <<x[1], x[2]>> \in Benchmarks /\ bench[<<x[1], x[2]>>] = "running"
      /\ bench' = [bench EXCEPT ![<<x[1], x[2]>>] = "err"]
      /\ UNCHANGED <<controlVars, sessions, senders, chunks, fed, handlerVars, broken>>
  BY CallsAre DEF CallFails
<1>2. mishaps' \in Nat /\ mishaps' > 0 /\ TaskCause'
  BY MishapCounts DEF CallFails
<1> QED
  BY <1>1, <1>2, TaskFailsRight

(* A call that is joined: its operation goes on, is done, or fails. *)
LEMMA JoinedRight ==
  ASSUME ServerInv, NEW x \in Calls, bench[<<x[1], x[2]>>] = "running", call[x] = "answered",
         call' = [call EXCEPT ![x] = "joined"],
         UNCHANGED <<controlVars, sessions, senders, pending, receivers, working, upcalls>>,
         mishaps' \in Nat, mishaps' = mishaps \/ mishaps' > 0,
         broken \subseteq broken', broken' \cap {"upcall", "assert"} = {},
         NEW v \in {"running", "ok", "err"}, bench' = [bench EXCEPT ![<<x[1], x[2]>>] = v],
         v = "err" => TaskCause',
         chunks' \in [1..NumTotal -> Seq(ChunkEntries)], DOMAIN fed' = 1..NumTotal,
         \A o \in 1..NumTotal : ObjectRight(o)' /\ (Len(chunks[o]) = N => Len(chunks'[o]) = N)
  PROVE  ServerInv'
<1> DEFINE b == <<x[1], x[2]>>
<1>1. CallRight(x) /\ ServerTypes /\ b \in Benchmarks
  BY CallsAre DEF ServerInv
<1>2. bench[b] = "running" /\ bench' = [bench EXCEPT ![b] = v]
  OBVIOUS
<1>3. \A y \in Calls : <<y[1], y[2]>> \in Benchmarks
  BY CallsAre
<1> HIDE DEF b
<1>4. ServerTypes'
  <2>1. bench' \in [Benchmarks -> {"none", "running", "ok", "err", "removed"}]
    BY <1>1, <1>2 DEF ServerTypes
  <2>2. DOMAIN call' = Calls
    BY <1>1 DEF ServerTypes
  <2> QED
    BY <1>1, <2>1, <2>2 DEF ServerTypes, controlVars
<1>5. \A s \in Servers : PeerRight(s)'
  BY DEF ServerInv, PeerRight
<1>6. bench'[b] = v /\ \A c \in Benchmarks : c # b => bench'[c] = bench[c]
  BY <1>1, <1>2 DEF ServerTypes
<1>7. ASSUME NEW y \in Calls PROVE CallRight(y)'
  <2>1. CallRight(y) /\ <<y[1], y[2]>> \in Benchmarks
    BY <1>3 DEF ServerInv
  <2>2. bench'[<<y[1], y[2]>>] = "none" => bench[<<y[1], y[2]>>] = "none"
    BY <1>2, <1>6, <2>1
  <2>3. call'[y] = call[y] \/ (y = x /\ call'[y] = "joined" /\ call[y] = "answered")
    BY <1>1 DEF ServerTypes
  <2> QED
    BY <2>1, <2>2, <2>3 DEF CallRight
<1>8. ControlRight'
  <2>1. \A o \in 1..NumTotal : <<"put", o>> \in Benchmarks /\ <<"get", o>> \in Benchmarks
    BY BenchmarksAre
  <2>2. ControlRight /\ control.op \in 1..NumTotal
    BY <1>1 DEF ServerInv, ServerTypes
  <2> QED
    BY <2>1, <2>2, <1>2, <1>6 DEF ControlRight, PollRight, Current, controlVars
<1>9. CausesRight' /\ UpcallsServed'
  <2>1. (TaskCause => TaskCause') /\ (Cause => Cause')
    BY DEF TaskCause, Cause, controlVars
  <2> QED
    BY <2>1, <1>2, <1>6 DEF ServerInv, CausesRight, UpcallsServed, controlVars
<1> QED
  BY <1>4, <1>5, <1>7, <1>8, <1>9 DEF ServerInv

LEMMA Appended ==
  ASSUME NEW c \in Seq(ChunkEntries), NEW e \in ChunkEntries
  PROVE  /\ Append(c, e) \in Seq(ChunkEntries) /\ Len(Append(c, e)) = Len(c) + 1
         /\ \A i \in 1..Len(Append(c, e)) : Append(c, e)[i] = IF i <= Len(c) THEN c[i] ELSE e
  OBVIOUS

LEMMA JoinPutRight ==
  ASSUME ServerInv, NEW x \in Calls, Join(x), JoinPut(x)
  PROVE  ServerInv'
<1> DEFINE o == x[2]
           e == [index |-> x[3], chunk |-> <<x[2], x[3]>>]
           v == IF Len(chunks[o]) + 1 = N THEN "ok" ELSE "running"
<1>1. ServerTypes /\ x[1] = "put" /\ o \in 1..NumTotal /\ x[3] \in 1..N /\ <<"put", o>> \in Benchmarks
  BY CallsAre DEF ServerInv, JoinPut
<1>2. bench[<<"put", o>>] = "running"
  BY <1>1 DEF Join
<1>3. chunks' = [chunks EXCEPT ![o] = Append(chunks[o], e)] /\ fed' = fed
  BY <1>1 DEF JoinPut, IndexOf, ChunkOf, ServerTypes
<1>4. bench' = [bench EXCEPT ![<<x[1], x[2]>>] = v] /\ v \in {"running", "ok"}
  BY <1>1, <1>2 DEF JoinPut, ServerTypes
<1>5. e \in ChunkEntries /\ chunks[o] \in Seq(ChunkEntries) /\ e.chunk = <<o, e.index>>
  BY <1>1 DEF ServerTypes, ChunkEntries
<1> DEFINE c == Append(chunks[o], e)
<1>6. c \in Seq(ChunkEntries) /\ Len(c) = Len(chunks[o]) + 1
      /\ \A i \in 1..Len(c) : c[i] = IF i <= Len(chunks[o]) THEN chunks[o][i] ELSE e
  BY <1>5, Appended
<1>7. chunks' = [chunks EXCEPT ![o] = c]
  BY <1>3
<1> HIDE DEF c
<1>8. chunks' \in [1..NumTotal -> Seq(ChunkEntries)] /\ chunks'[o] = c
      /\ \A p \in 1..NumTotal : p # o => chunks'[p] = chunks[p]
  BY <1>1, <1>6, <1>7 DEF ServerTypes
<1>9. ObjectRight(o) /\ Len(chunks[o]) \in Nat
  BY <1>1, <1>5 DEF ServerInv
<1>10. Len(chunks[o]) < N
  BY <1>2, <1>9 DEF ObjectRight
<1>11. bench'[<<"put", o>>] = v /\ \A d \in Benchmarks : d # <<"put", o>> => bench'[d] = bench[d]
  BY <1>1, <1>4 DEF ServerTypes
<1>12. ASSUME NEW p \in 1..NumTotal
       PROVE  ObjectRight(p)' /\ (Len(chunks[p]) = N => Len(chunks'[p]) = N)
  <2>1. <<"put", p>> \in Benchmarks /\ <<"get", p>> \in Benchmarks /\ ObjectRight(p)
    BY BenchmarksAre DEF ServerInv
  <2>2. CASE p # o
    <3>1. <<"put", p>> # <<"put", o>> /\ <<"get", p>> # <<"put", o>>
      BY <2>2
    <3> QED
      BY <2>1, <2>2, <3>1, <1>3, <1>8, <1>11 DEF ObjectRight
  <2>3. CASE p = o
    <3>1. bench'[<<"put", o>>] = v /\ bench'[<<"get", o>>] = bench[<<"get", o>>]
      BY <1>11, <2>1, <2>3
    <3>2. bench[<<"get", o>>] = "none" /\ N \in Nat
      BY <1>9, <1>10, EntropyServerAssumption DEF ObjectRight
    <3>3. /\ v # "none" /\ (v = "running" => Len(c) < N) /\ (v = "ok" => Len(c) = N)
      BY <1>6, <1>9, <1>10, <3>2
    <3>4. ASSUME NEW i \in 1..Len(c) PROVE c[i].chunk = <<o, c[i].index>>
      <4> HIDE DEF e, o
      <4>1. CASE i <= Len(chunks[o])
        <5>1. c[i] = chunks[o][i] /\ i \in 1..Len(chunks[o])
          BY <4>1, <1>6, <1>9
        <5> QED
          BY <5>1, <1>9 DEF ObjectRight
      <4>2. CASE ~(i <= Len(chunks[o]))
        BY <4>2, <1>5, <1>6
      <4> QED
        BY <4>1, <4>2
    <3>5. \A f \in fed[o] : f.chunk = <<o, f.index>>
      BY <1>9 DEF ObjectRight
    <3>6. chunks'[o] = c /\ fed'[o] = fed[o] /\ Len(chunks[o]) # N
      BY <1>3, <1>8, <1>9, <1>10, <3>2
    <3> HIDE DEF v, o, e
    <3>7. ObjectRight(o)'
      BY <3>1, <3>2, <3>3, <3>4, <3>5, <3>6 DEF ObjectRight
    <3> QED
      BY <2>3, <3>6, <3>7
  <2> QED
    BY <2>2, <2>3
<1>13. call[x] = "answered" /\ call' = [call EXCEPT ![x] = "joined"]
       /\ UNCHANGED <<controlVars, sessions, senders, pending, receivers, working, upcalls>>
       /\ bench[<<x[1], x[2]>>] = "running"
  BY DEF Join
<1>14. DOMAIN fed' = 1..NumTotal
  BY <1>1, <1>3 DEF ServerTypes
<1>15. mishaps' \in Nat /\ mishaps' = mishaps /\ broken' = broken /\ broken' \cap {"upcall", "assert"} = {}
  BY DEF JoinPut, ServerInv, ServerTypes, UpcallsServed
<1>16. v \in {"running", "ok", "err"} /\ v # "err"
  BY <1>4
<1> HIDE DEF v
<1> QED
  BY <1>4, <1>8, <1>12, <1>13, <1>14, <1>15, <1>16, JoinedRight

(* The decoder leaves a task running, or ends it well or for a cause. *)
LEMMA DecoderRight ==
  ASSUME ServerInv, NEW x \in Calls, Join(x), JoinGet(x)
  PROVE  \E v \in {"running", "ok", "err"} :
           /\ bench' = [bench EXCEPT ![<<x[1], x[2]>>] = v]
           /\ mishaps' \in Nat /\ (mishaps' = mishaps \/ mishaps' > 0)
           /\ broken \subseteq broken' /\ broken' \cap {"upcall", "assert"} = {}
           /\ v = "err" => TaskCause'
<1> DEFINE b == <<x[1], x[2]>>
<1>1. b \in Benchmarks /\ bench[b] = "running" /\ mishaps \in Nat /\ broken \cap {"upcall", "assert"} = {}
      /\ bench = [bench EXCEPT ![b] = "running"]
  BY CallsAre DEF Join, ServerInv, ServerTypes, UpcallsServed
<1>2. Decoded(b) \/ DecodeFails(b) \/ WantsMore(b)
  BY DEF JoinGet
<1> HIDE DEF b
<1>3. CASE Decoded(b)
  BY <1>1, <1>3 DEF Decoded, b
<1>4. CASE DecodeFails(b)
  <2>1. mishaps' \in Nat /\ mishaps' > 0 /\ TaskCause'
    BY <1>4, MishapCounts DEF DecodeFails
  <2> QED
    BY <1>1, <1>4, <2>1 DEF DecodeFails, b
<1>5. CASE WantsMore(b)
  <2>1. mishaps' = mishaps
    BY <1>5 DEF WantsMore
  <2>2. CASE bench' = [bench EXCEPT ![b] = "err"] /\ broken' = broken \cup {"recover"}
    <3>1. TaskCause' /\ broken \subseteq broken' /\ broken' \cap {"upcall", "assert"} = {}
      BY <1>1, <2>2 DEF TaskCause
    <3> QED
      BY <1>1, <2>1, <2>2, <3>1 DEF b
  <2>3. CASE UNCHANGED <<bench, broken>>
    BY <1>1, <2>1, <2>3 DEF b
  <2> QED
    BY <1>5, <2>2, <2>3 DEF WantsMore
<1> QED
  BY <1>2, <1>3, <1>4, <1>5

LEMMA JoinGetRight ==
  ASSUME ServerInv, NEW x \in Calls, Join(x), JoinGet(x)
  PROVE  ServerInv'
<1> DEFINE o == x[2]
           e == chunks[o][x[3]]
<1>1. ServerTypes /\ x[1] = "get" /\ o \in 1..NumTotal /\ x[3] \in 1..N /\ <<"get", o>> \in Benchmarks
  BY CallsAre DEF ServerInv, JoinGet
<1>2. bench[<<"get", o>>] = "running"
  BY <1>1 DEF Join
<1>3. ObjectRight(o)
  BY <1>1 DEF ServerInv
<1>4. Len(chunks[o]) = N
  BY <1>2, <1>3 DEF ObjectRight
<1>5. e.chunk = <<o, e.index>>
  BY <1>1, <1>3, <1>4 DEF ObjectRight
<1>6. fed' = [fed EXCEPT ![o] = fed[o] \cup {[index |-> e.index, chunk |-> e.chunk]}] /\ chunks' = chunks
  BY <1>1 DEF JoinGet, IndexOf, ChunkOf, ServerTypes
<1>7. PICK v \in {"running", "ok", "err"} :
        /\ bench' = [bench EXCEPT ![<<x[1], x[2]>>] = v]
        /\ mishaps' \in Nat /\ (mishaps' = mishaps \/ mishaps' > 0)
        /\ broken \subseteq broken' /\ broken' \cap {"upcall", "assert"} = {}
        /\ v = "err" => TaskCause'
  BY <1>1, <1>2, DecoderRight
<1>8. DOMAIN fed' = 1..NumTotal /\ (\A p \in 1..NumTotal : p # o => fed'[p] = fed[p])
      /\ \A f \in fed'[o] : f \in fed[o] \/ f = [index |-> e.index, chunk |-> e.chunk]
  BY <1>1, <1>6 DEF ServerTypes
<1>9. \A f \in fed'[o] : f.chunk = <<o, f.index>>
  BY <1>3, <1>5, <1>8 DEF ObjectRight
<1>10. bench'[<<"get", o>>] = v /\ \A d \in Benchmarks : d # <<"get", o>> => bench'[d] = bench[d]
  BY <1>1, <1>7 DEF ServerTypes
<1>11. ASSUME NEW p \in 1..NumTotal PROVE ObjectRight(p)'
  <2>1. <<"put", p>> \in Benchmarks /\ <<"get", p>> \in Benchmarks /\ ObjectRight(p)
        /\ <<"put", p>> # <<"get", o>>
    BY BenchmarksAre DEF ServerInv
  <2>2. CASE p # o
    <3>1. <<"get", p>> # <<"get", o>>
      BY <2>2
    <3> QED
      BY <2>1, <2>2, <3>1, <1>6, <1>8, <1>10 DEF ObjectRight
  <2>3. CASE p = o
    BY <2>1, <2>3, <1>4, <1>6, <1>9, <1>10 DEF ObjectRight
  <2> QED
    BY <2>2, <2>3
<1>12. call[x] = "answered" /\ call' = [call EXCEPT ![x] = "joined"]
       /\ UNCHANGED <<controlVars, sessions, senders, pending, receivers, working, upcalls>>
       /\ bench[<<x[1], x[2]>>] = "running"
  BY DEF Join
<1>13. chunks' \in [1..NumTotal -> Seq(ChunkEntries)]
  BY <1>1, <1>6 DEF ServerTypes
<1> QED
  BY <1>6, <1>7, <1>8, <1>11, <1>12, <1>13, JoinedRight

(* Steps of the controller, which leave servers and handlers alone. *)
LEMMA ControlStepRight ==
  ASSUME ServerInv, UNCHANGED <<peersVars, chunks, fed, handlerVars>>,
         broken' \cap {"upcall", "assert"} = {}, broken \subseteq broken', timeouts' \in Nat, timeouts <= timeouts',
         bench' \in [Benchmarks -> {"none", "running", "ok", "err", "removed"}],
         \A b \in Benchmarks : bench'[b] = bench[b] \/ (bench[b] # "none" /\ bench'[b] = "removed"),
         control' \in [phase : ControlPhases, op : 1..NumTotal],
         polling' \in {"none", "asked", "pending", "result", "error"},
         ControlRight', control'.phase = "failed" \/ polling' = "error" => Cause'
  PROVE  ServerInv'
<1>1. ServerTypes'
  BY DEF ServerInv, ServerTypes, peersVars, handlerVars
<1>2. \A s \in Servers : PeerRight(s)'
  BY DEF ServerInv, PeerRight, peersVars
<1>3. ASSUME NEW x \in Calls PROVE CallRight(x)'
  <2>1. CallRight(x) /\ <<x[1], x[2]>> \in Benchmarks
    BY CallsAre DEF ServerInv
  <2> QED
    BY <2>1 DEF CallRight, handlerVars, peersVars
<1>4. ASSUME NEW o \in 1..NumTotal PROVE ObjectRight(o)'
  <2>1. <<"put", o>> \in Benchmarks /\ <<"get", o>> \in Benchmarks /\ ObjectRight(o)
    BY BenchmarksAre DEF ServerInv
  <2> QED
    BY <2>1 DEF ObjectRight
<1>5. CausesRight' /\ UpcallsServed'
  BY DEF ServerInv, CausesRight, TaskCause, UpcallsServed, peersVars
<1> QED
  BY <1>1, <1>2, <1>3, <1>4, <1>5 DEF ServerInv

LEMMA ControlIs ==
  ASSUME ServerInv
  PROVE  /\ control = [phase |-> control.phase, op |-> control.op] /\ control.op \in 1..NumTotal
         /\ control \in [phase : ControlPhases, op : 1..NumTotal]
         /\ polling \in {"none", "asked", "pending", "result", "error"} /\ timeouts \in Nat
         /\ bench \in [Benchmarks -> {"none", "running", "ok", "err", "removed"}]
         /\ <<"put", control.op>> \in Benchmarks /\ <<"get", control.op>> \in Benchmarks
<1>1. control.op \in 1..NumTotal
  BY DEF ServerInv, ServerTypes
<1>2. <<"put", control.op>> \in Benchmarks /\ <<"get", control.op>> \in Benchmarks
  BY <1>1, BenchmarksAre
<1> QED
  BY <1>1, <1>2 DEF ServerInv, ServerTypes

LEMMA ControlGoRight == ASSUME ServerInv, ControlGo PROVE ServerInv'
<1>1. control.phase = "starting" /\ control' = [phase |-> "put", op |-> control.op]
      /\ UNCHANGED <<polling, timeouts, peersVars, benchVars, handlerVars, broken>>
  BY ControlIs DEF ControlGo
<1>2. ControlRight'
  BY <1>1 DEF ServerInv, ControlRight, PollRight, PollPhase, benchVars
<1>3. control'.phase = "failed" \/ polling' = "error" => Cause'
  BY <1>1 DEF ServerInv, CausesRight, Cause, TaskCause, peersVars
<1>4. control' \in [phase : ControlPhases, op : 1..NumTotal]
  BY <1>1, ControlIs DEF ControlPhases
<1> QED
  BY <1>1, <1>2, <1>3, <1>4, ControlIs, ControlStepRight DEF ServerInv, UpcallsServed, benchVars

LEMMA ControlDoneRight == ASSUME ServerInv, ControlDone PROVE ServerInv'
<1>1. control.phase = "stopping" /\ control' = [phase |-> "done", op |-> control.op]
      /\ UNCHANGED <<polling, timeouts, peersVars, benchVars, handlerVars, broken>>
  BY ControlIs DEF ControlDone
<1>2. ControlRight'
  BY <1>1 DEF ServerInv, ControlRight, PollRight, PollPhase, benchVars
<1>3. control'.phase = "failed" \/ polling' = "error" => Cause'
  BY <1>1 DEF ServerInv, CausesRight, Cause, TaskCause, peersVars
<1>4. control' \in [phase : ControlPhases, op : 1..NumTotal]
  BY <1>1, ControlIs DEF ControlPhases
<1> QED
  BY <1>1, <1>2, <1>3, <1>4, ControlIs, ControlStepRight DEF ServerInv, UpcallsServed, benchVars

LEMMA PollAskRight == ASSUME ServerInv, NEW kind \in {"put", "get"}, PollAsk(kind) PROVE ServerInv'
<1>1. polling = "none" /\ polling' = "asked" /\ control.phase = PollPhase[kind]
      /\ UNCHANGED <<control, timeouts, peersVars, benchVars, handlerVars, broken>>
  BY DEF PollAsk
<1>2. ControlRight'
  BY <1>1 DEF ServerInv, ControlRight, PollRight, PollPhase, Current, benchVars
<1>3. control'.phase = "failed" \/ polling' = "error" => Cause'
  BY <1>1 DEF ServerInv, CausesRight, Cause, TaskCause, peersVars
<1>4. control' \in [phase : ControlPhases, op : 1..NumTotal]
  BY <1>1, ControlIs
<1> QED
  BY <1>1, <1>2, <1>3, <1>4, ControlIs, ControlStepRight DEF ServerInv, UpcallsServed, benchVars

LEMMA PollTimeoutRight == ASSUME ServerInv, PollTimeout PROVE ServerInv'
<1>1. polling' = "none" /\ timeouts' = timeouts + 1 /\ timeouts \in Nat
      /\ UNCHANGED <<control, peersVars, benchVars, handlerVars, broken>>
  BY ControlIs DEF PollTimeout
<1>2. timeouts' \in Nat /\ timeouts' > 0 /\ timeouts <= timeouts'
  BY <1>1
<1>3. ControlRight'
  BY <1>1, <1>2 DEF ServerInv, ControlRight, PollRight, Current, benchVars
<1>4. control'.phase = "failed" \/ polling' = "error" => Cause'
  BY <1>1, <1>2 DEF ServerInv, CausesRight, Cause, TaskCause, peersVars
<1>5. control' \in [phase : ControlPhases, op : 1..NumTotal]
  BY <1>1, ControlIs
<1> QED
  BY <1>1, <1>2, <1>3, <1>4, <1>5, ControlIs, ControlStepRight DEF ServerInv, UpcallsServed, benchVars

LEMMA PollHandleRight == ASSUME ServerInv, NEW kind \in {"put", "get"}, PollHandle(kind) PROVE ServerInv'
<1> DEFINE b == <<kind, control.op>>
<1>1. /\ control.phase = PollPhase[kind] /\ polling = "asked"
      /\ polling' = CASE bench[b] = "running" -> "pending" [] bench[b] = "ok" -> "result" [] OTHER -> "error"
      /\ bench' = IF bench[b] = "running" THEN bench ELSE [bench EXCEPT ![b] = "removed"]
      /\ broken' = IF bench[b] = "removed" THEN broken \cup {"key"} ELSE broken
      /\ UNCHANGED <<control, timeouts, peersVars, chunks, fed, handlerVars>>
  BY DEF PollHandle, Current
<1>2. b \in Benchmarks /\ bench \in [Benchmarks -> {"none", "running", "ok", "err", "removed"}]
  BY ControlIs
<1>3. PollRight(kind) /\ ObjectRight(control.op) /\ ControlRight /\ CausesRight
  BY ControlIs DEF ServerInv, ControlRight
<1>4. bench[b] # "none" /\ (bench[b] = "removed" => timeouts > 0)
  BY <1>1, <1>3 DEF PollRight, Current
<1>5. \A c \in Benchmarks : c # b => bench'[c] = bench[c]
  BY <1>1, <1>2
<1>6. bench'[b] = IF bench[b] = "running" THEN "running" ELSE "removed"
  BY <1>1, <1>2
<1>7. bench' \in [Benchmarks -> {"none", "running", "ok", "err", "removed"}]
  BY <1>1, <1>2
<1>8. ControlRight'
  <2>1. \A o \in 1..NumTotal : <<"put", o>> \in Benchmarks /\ <<"get", o>> \in Benchmarks
    BY BenchmarksAre
  <2>2. control'.op = control.op /\ control'.phase = control.phase /\ control.op \in 1..NumTotal
    BY <1>1, ControlIs
  <2>3. \A o \in 1..NumTotal : o > control.op => <<"put", o>> # b /\ <<"get", o>> # b
    BY <2>2
  <2>4. PollRight("put")' /\ PollRight("get")'
    <3>1. \A c \in Benchmarks : bench'[c] = "none" => bench[c] = "none"
      BY <1>4, <1>5, <1>6
    <3>2. bench'[b] = "removed" => polling' \in {"result", "error"}
      BY <1>1, <1>2, <1>6
    <3>3. CASE kind = "put"
      BY <1>1, <1>3, <1>4, <1>6, <2>2, <3>2, <3>3 DEF PollRight, PollPhase, Current
    <3>4. CASE kind = "get"
      BY <1>1, <1>3, <1>4, <1>6, <2>2, <3>2, <3>4 DEF PollRight, PollPhase, Current
    <3> QED
      BY <3>3, <3>4
  <2>5. control'.phase = "poll-put" /\ polling' = "result" => Len(chunks'[control.op]) = N
    <3>1. SUFFICES ASSUME control.phase = "poll-put", polling' = "result" PROVE Len(chunks[control.op]) = N
      BY <1>1, <2>2
    <3>2. kind = "put" /\ bench[b] = "ok"
      BY <1>1, <1>2, <3>1 DEF PollPhase
    <3> QED
      BY <1>3, <3>2 DEF ObjectRight
  <2>6. control.phase \in {"starting", "put", "poll-put", "get"} => bench'[<<"get", control.op>>] = "none"
    <3>1. SUFFICES ASSUME control.phase \in {"starting", "put", "poll-put", "get"}
                   PROVE  bench'[<<"get", control.op>>] = "none"
      OBVIOUS
    <3>2. kind = "put"
      BY <1>1, <3>1 DEF PollPhase
    <3> QED
      BY <3>1, <3>2, <1>3, <1>5, <2>1, <2>2 DEF ControlRight
  <2>7. control.phase \notin {"starting", "put"}
    BY <1>1 DEF PollPhase
  <2> HIDE DEF b
  <2> QED
    BY <1>1, <1>3, <1>5, <2>1, <2>2, <2>3, <2>4, <2>5, <2>6, <2>7 DEF ControlRight
<1>9. control'.phase # "failed"
  BY <1>1 DEF PollPhase
<1>10. polling' = "error" => Cause'
  <2>1. SUFFICES ASSUME polling' = "error" PROVE Cause'
    OBVIOUS
  <2>2. bench[b] \in {"err", "removed"}
    BY <1>1, <1>2, <1>4, <2>1
  <2> QED
    BY <1>1, <1>2, <1>3, <1>4, <2>2 DEF CausesRight, Cause, TaskCause, peersVars
<1>11. broken \subseteq broken' /\ broken' \cap {"upcall", "assert"} = {}
  BY <1>1 DEF ServerInv, UpcallsServed
<1>12. control' \in [phase : ControlPhases, op : 1..NumTotal]
       /\ timeouts' \in Nat /\ timeouts <= timeouts'
  BY <1>1, ControlIs
<1>13. polling' \in {"none", "asked", "pending", "result", "error"}
  BY <1>1
<1>14. \A c \in Benchmarks : bench'[c] = bench[c] \/ (bench[c] # "none" /\ bench'[c] = "removed")
  BY <1>4, <1>5, <1>6
<1> QED
  BY <1>1, <1>7, <1>8, <1>9, <1>10, <1>11, <1>12, <1>13, <1>14, ControlStepRight

LEMMA PollAnswerRight == ASSUME ServerInv, NEW kind \in {"put", "get"}, PollAnswer(kind) PROVE ServerInv'
<1>1. /\ control.phase = PollPhase[kind] /\ polling \in {"pending", "result", "error"} /\ polling' = "none"
      /\ UNCHANGED <<timeouts, peersVars, benchVars, handlerVars, broken>>
  BY DEF PollAnswer
<1>2. DigestRight
  BY ControlIs DEF ServerInv, ObjectRight, DigestRight
<1>3. \/ polling = "pending" /\ control' = control
      \/ polling = "error" /\ control' = [phase |-> "failed", op |-> control.op]
      \/ polling = "result" /\ kind = "put" /\ control' = [phase |-> "get", op |-> control.op]
      \/ polling = "result" /\ kind = "get" /\ control.op < NumTotal
         /\ control' = [phase |-> "put", op |-> control.op + 1]
      \/ polling = "result" /\ kind = "get" /\ control' = [phase |-> "stopping", op |-> control.op]
  BY <1>1, <1>2, ControlIs DEF PollAnswer, Fail
<1>4. control' \in [phase : ControlPhases, op : 1..NumTotal]
      /\ control'.op \in 1..NumTotal /\ control'.op >= control.op
  BY <1>3, ControlIs, EntropyServerAssumption DEF ControlPhases
<1>5. ControlRight /\ CausesRight /\ (Cause => Cause')
  BY <1>1 DEF ServerInv, Cause, TaskCause, peersVars
<1>6. ControlRight'
  <2>1. \A o \in 1..NumTotal : o > control'.op =>
           bench'[<<"put", o>>] = "none" /\ bench'[<<"get", o>>] = "none"
    BY <1>1, <1>4, <1>5, ControlIs DEF ControlRight, benchVars
  <2>2. \/ control' = control /\ polling # "result"
        \/ control'.phase \in {"failed", "stopping"}
        \/ control'.phase = "get" /\ control'.op = control.op /\ polling = "result" /\ control.phase = "poll-put"
        \/ control'.phase = "put" /\ control'.op = control.op + 1
    BY <1>1, <1>3 DEF PollPhase
  <2>3. CASE control' = control /\ polling # "result"
    <3>1. polling = "pending" \/ control.phase = "failed"
      BY <1>1, <1>3, <2>3
    <3>2. polling = "pending"
      BY <1>1, <3>1 DEF PollPhase
    <3> QED
      BY <1>1, <1>5, <2>3, <3>2 DEF ControlRight, PollRight, Current, benchVars
  <2>4. CASE control'.phase \in {"failed", "stopping"}
    BY <1>1, <2>1, <2>4 DEF ControlRight, PollRight, PollPhase
  <2>5. CASE control'.phase = "get" /\ control'.op = control.op /\ polling = "result" /\ control.phase = "poll-put"
    BY <1>1, <1>5, <2>1, <2>5 DEF ControlRight, PollRight, PollPhase, benchVars
  <2>6. CASE control'.phase = "put" /\ control'.op = control.op + 1
    <3>1. control'.op > control.op /\ control'.op \in 1..NumTotal
      BY <1>4, <2>6, ControlIs
    <3> QED
      BY <1>1, <1>5, <2>1, <2>6, <3>1 DEF ControlRight, PollRight, PollPhase, benchVars
  <2> QED
    BY <2>2, <2>3, <2>4, <2>5, <2>6
<1>7. control'.phase = "failed" \/ polling' = "error" => Cause'
  <2>1. control'.phase = "failed" => polling = "error"
    BY <1>1, <1>3 DEF PollPhase
  <2> QED
    BY <1>1, <1>5, <2>1 DEF CausesRight
<1>8. timeouts' \in Nat /\ timeouts <= timeouts' /\ broken' \cap {"upcall", "assert"} = {} /\ broken \subseteq broken'
  BY <1>1, ControlIs DEF ServerInv, UpcallsServed
<1>9. UNCHANGED <<peersVars, chunks, fed, handlerVars, bench>> /\ polling' \in {"none"}
      /\ bench' \in [Benchmarks -> {"none", "running", "ok", "err", "removed"}]
  BY <1>1, ControlIs DEF benchVars
<1> QED
  BY <1>4, <1>6, <1>7, <1>8, <1>9, ControlStepRight

(* A benchmark's task is started, and the controller polls or gives up. *)
LEMMA SpawnedRight ==
  ASSUME ServerInv, NEW kind \in {"put", "get"}, control.phase = kind, Spawned(kind),
         NEW p \in {PollPhase[kind], "failed"}, control' = [control EXCEPT !.phase = p],
         mishaps' \in Nat, mishaps' = mishaps \/ mishaps' > 0, p = "failed" => Cause',
         UNCHANGED <<polling, timeouts, sessions, senders, chunks, fed, pending, receivers, working,
                     upcalls, broken>>
  PROVE  ServerInv'
<1> DEFINE b == <<kind, control.op>>
<1>1. /\ control' = [phase |-> p, op |-> control.op]
      /\ bench' = [bench EXCEPT ![b] = "running"]
      /\ call' = [x \in Calls |-> IF <<x[1], x[2]>> = b THEN "called" ELSE call[x]]
  BY ControlIs DEF Spawned, Current
<1>2. ControlRight /\ CausesRight /\ ServerTypes /\ b \in Benchmarks /\ control.op \in 1..NumTotal
  BY ControlIs DEF ServerInv
<1>3. bench[b] = "none"
  BY <1>1, <1>2 DEF ControlRight
<1>4. bench'[b] = "running" /\ \A c \in Benchmarks : c # b => bench'[c] = bench[c]
  BY <1>1, <1>2 DEF ServerTypes
<1>5. control'.phase = p /\ control'.op = control.op
      /\ (p = "failed" \/ (p = "poll-put" /\ kind = "put") \/ (p = "poll-get" /\ kind = "get"))
  BY <1>1 DEF PollPhase
<1>6. ServerTypes'
  BY <1>1, <1>2, <1>5 DEF ServerTypes, ControlPhases
<1>7. \A s \in Servers : PeerRight(s)'
  BY <1>1 DEF ServerInv, PeerRight
<1>8. ASSUME NEW x \in Calls PROVE CallRight(x)'
  <2>1. CallRight(x) /\ <<x[1], x[2]>> \in Benchmarks
    BY CallsAre DEF ServerInv
  <2>2. CASE <<x[1], x[2]>> = b
    <3>1. call[x] = "none" /\ x \notin pending /\ x \notin working \cup upcalls
      BY <1>3, <2>1, <2>2 DEF CallRight
    <3>2. call'[x] = "called" /\ bench'[<<x[1], x[2]>>] = "running"
      BY <1>1, <1>4, <2>2
    <3> QED
      BY <1>1, <3>1, <3>2 DEF CallRight
  <2>3. CASE <<x[1], x[2]>> # b
    <3>1. call'[x] = call[x] /\ bench'[<<x[1], x[2]>>] = bench[<<x[1], x[2]>>]
      BY <1>1, <1>4, <2>1, <2>3
    <3> QED
      BY <1>1, <2>1, <3>1 DEF CallRight
  <2> QED
    BY <2>2, <2>3
<1>9. ASSUME NEW o \in 1..NumTotal PROVE ObjectRight(o)'
  <2>1. ObjectRight(o) /\ <<"put", o>> \in Benchmarks /\ <<"get", o>> \in Benchmarks
    BY BenchmarksAre DEF ServerInv
  <2>2. N \in Nat /\ 0 < N
    BY EntropyServerAssumption
  <2>3. b = <<"put", o>> => Len(chunks[o]) = 0
    BY <1>3, <2>1 DEF ObjectRight
  <2>4. b = <<"get", o>> => Len(chunks[o]) = N
    BY <1>1, <1>2 DEF ControlRight
  <2> HIDE DEF b
  <2> QED
    BY <1>1, <1>4, <2>1, <2>2, <2>3, <2>4 DEF ObjectRight
<1>10. ControlRight'
  <2>1. ASSUME NEW o \in 1..NumTotal, o > control.op
        PROVE  bench'[<<"put", o>>] = "none" /\ bench'[<<"get", o>>] = "none"
    <3>1. <<"put", o>> \in Benchmarks /\ <<"get", o>> \in Benchmarks /\ <<"put", o>> # b /\ <<"get", o>> # b
      BY <1>2, <2>1, BenchmarksAre
    <3> QED
      BY <1>2, <1>4, <2>1, <3>1 DEF ControlRight
  <2>2. kind = "put" => bench'[<<"get", control.op>>] = "none"
    BY <1>1, <1>2, <1>4, ControlIs DEF ControlRight
  <2>3. polling = "none"
    BY <1>1, <1>2 DEF ControlRight
  <2> QED
    BY <1>1, <1>2, <1>4, <1>5, <2>1, <2>2, <2>3 DEF ControlRight, PollRight, PollPhase, Current
<1>11. CausesRight' /\ UpcallsServed'
  <2>1. (TaskCause => TaskCause') /\ (Cause => Cause')
    BY DEF TaskCause, Cause
  <2> QED
    BY <2>1, <1>1, <1>2, <1>4, <1>5 DEF ServerInv, CausesRight, UpcallsServed
<1> QED
  BY <1>6, <1>7, <1>8, <1>9, <1>10, <1>11 DEF ServerInv

LEMMA BeginRight == ASSUME ServerInv, NEW kind \in {"put", "get"}, Begin(kind) PROVE ServerInv'
<1>1. /\ control.phase = kind /\ control' = [control EXCEPT !.phase = PollPhase[kind]] /\ Spawned(kind)
      /\ UNCHANGED <<polling, timeouts, peersVars, chunks, fed, pending, receivers, working, upcalls, broken>>
  BY DEF Begin
<1>2. PollPhase[kind] # "failed" /\ mishaps' = mishaps /\ mishaps' \in Nat /\ UNCHANGED <<sessions, senders>>
  BY <1>1 DEF PollPhase, peersVars, ServerInv, ServerTypes
<1> QED
  BY <1>1, <1>2, SpawnedRight

(* The controller fails for a mishap, with the benchmarks as they are. *)
LEMMA ControlFailsRight ==
  ASSUME ServerInv, Fail, Mishap, UNCHANGED <<timeouts, senders, benchVars, handlerVars, broken>>,
         sessions' \in [Servers -> {"none", "running", "ended"}],
         \A s \in Servers : ~senders[s] => sessions'[s] = "none",
         polling' \in {polling, "none"}
  PROVE  ServerInv'
<1>1. control' = [phase |-> "failed", op |-> control.op] /\ polling' \in {"none", "asked", "pending", "result", "error"}
  BY ControlIs DEF Fail
<1>2. mishaps' \in Nat /\ mishaps' > 0 /\ TaskCause' /\ Cause'
  BY MishapCounts
<1>3. ServerTypes'
  BY <1>1, <1>2 DEF ServerInv, ServerTypes, benchVars, handlerVars, ControlPhases
<1>4. \A s \in Servers : PeerRight(s)'
  BY <1>2 DEF PeerRight
<1>5. (\A x \in Calls : CallRight(x)') /\ UpcallsServed'
  BY <1>2, SameCalls DEF benchVars
<1>6. ASSUME NEW o \in 1..NumTotal PROVE ObjectRight(o)'
  BY DEF ServerInv, ObjectRight, benchVars
<1>7. ControlRight'
  BY <1>1 DEF ServerInv, ControlRight, PollRight, PollPhase, benchVars
<1>8. CausesRight'
  BY <1>2 DEF CausesRight
<1> QED
  BY <1>3, <1>4, <1>5, <1>6, <1>7, <1>8 DEF ServerInv

LEMMA BeginFailsRight == ASSUME ServerInv, NEW kind \in {"put", "get"}, BeginFails(kind) PROVE ServerInv'
<1>1. /\ control.phase = kind /\ control' = [control EXCEPT !.phase = "failed"] /\ Fail /\ Mishap
      /\ UNCHANGED <<polling, timeouts, sessions, senders, chunks, fed, pending, receivers, working,
                     upcalls, broken>>
  BY DEF BeginFails, Fail
<1>2. mishaps' \in Nat /\ mishaps' > 0 /\ Cause'
  BY <1>1, MishapCounts
<1>3. CASE Spawned(kind)
  BY <1>1, <1>2, <1>3, SpawnedRight
<1>4. CASE UNCHANGED <<bench, call>>
  BY <1>1, <1>4, ControlFailsRight DEF benchVars, handlerVars, ServerInv, ServerTypes, PeerRight
<1> QED
  BY <1>3, <1>4 DEF BeginFails

LEMMA StartFailsRight == ASSUME ServerInv, StartFails PROVE ServerInv'
  BY ControlFailsRight DEF StartFails, ServerInv, ServerTypes, PeerRight

LEMMA PollFailsRight == ASSUME ServerInv, PollFails PROVE ServerInv'
  BY ControlFailsRight DEF PollFails, ServerInv, ServerTypes, PeerRight

LEMMA StopFailsRight == ASSUME ServerInv, NEW s \in Servers, StopFails(s) PROVE ServerInv'
<1>1. sessions' = sessions \/ sessions' = [sessions EXCEPT ![s] = "none"]
  BY DEF StopFails
<1>2. sessions' \in [Servers -> {"none", "running", "ended"}]
      /\ \A p \in Servers : ~senders[p] => sessions'[p] = "none"
  BY <1>1 DEF ServerInv, ServerTypes, PeerRight
<1> QED
  BY <1>2, ControlFailsRight DEF StopFails

LEMMA ServerNextRight == ASSUME ServerInv, [ServerNext]_serverVars PROVE ServerInv'
<1>1. CASE UNCHANGED serverVars
  BY <1>1 DEF serverVars, ServerInv, ServerTypes, PeerRight, CallRight, ObjectRight, ControlRight, PollRight,
              CausesRight, Cause, TaskCause, UpcallsServed, Current
<1>2. ASSUME NEW s \in Servers, StartPeers(s) \/ Ok(s) \/ StopPeers(s) PROVE ServerInv'
  BY <1>2, StartPeersRight, OkRight, StopPeersRight
<1>3. ASSUME NEW x \in Calls, HandlerWork(x) PROVE ServerInv'
  <2>1. Join(x) => JoinPut(x) \/ JoinGet(x)
    BY DEF Join
  <2> QED
    BY <1>3, <2>1, HandlerInsertRight, HandlerSendRight, HandlerDroppedRight, UpcallSessionRight,
       JoinPutRight, JoinGetRight, JoinErrorRight DEF HandlerWork
<1>4. ASSUME ControlWork PROVE ServerInv'
  BY <1>4, ControlGoRight, ControlDoneRight, BeginRight, PollAskRight, PollHandleRight, PollAnswerRight
     DEF ControlWork
<1>5. ASSUME Failure PROVE ServerInv'
  BY <1>5, StartFailsRight, PollFailsRight, PollTimeoutRight, StopFailsRight, PeerDiesRight, BeginFailsRight,
     CallFailsRight DEF Failure
<1>6. ASSUME NEW x \in Calls, StoreAnswers(x) PROVE ServerInv'
  BY <1>6, StoreAnswersRight
<1> QED
  BY <1>1, <1>2, <1>3, <1>4, <1>5, <1>6 DEF ServerNext, ServerWork

(***************************************************************************)
(* Every state that the controller, the handlers, the benchmark tasks and  *)
(* the peers can reach satisfies ServerInv, where callers give up at any   *)
(* await, requests fail and peers end at any time (entropy/src/main.rs).   *)
(***************************************************************************)
THEOREM ServerInvariance == ServerSpec => []ServerInv
  BY ServerInitRight, ServerNextRight, PTL DEF ServerSpec

(***************************************************************************)
(* A peer's upcall always finds the call it is for, although callers may   *)
(* give up at any await; and as long as no peer ended and no request       *)
(* failed, the benchmark fails only when a decoder wanted or took badly    *)
(* what it got, when it ran ahead of start-peers or when the answer with a *)
(* result was lost to a timeout (main.rs:404, 536, 619).                   *)
(***************************************************************************)
THEOREM BenchmarkIsSound == ServerSpec => []BenchmarkSound
<1>1. ServerInv => BenchmarkSound
  BY DEF ServerInv, BenchmarkSound, FailsWithCause, CausesRight, Cause, TaskCause
<1> QED
  BY <1>1, ServerInvariance, PTL

-----------------------------------------------------------------------------
(***************************************************************************)
(* ReplicationServer.                                                      *)
(***************************************************************************)

(* The phases of a round. *)
Phases == {"replicas", "settle", "result", "taken", "stop", "done", "failed"}

ReplTypes ==
  /\ benchmark \in [round : Nat, phase : Phases, replica : 1..NumReplicas]
  /\ DOMAIN received = 1..NumRounds
  /\ session \in [Hosts -> {"none", "running", "ok", "err"}]
  /\ main \in {"idle", "running", "barrier", "published"}
  /\ client \in [Loops -> {"none", "running", "err"}]
  /\ loop \in [Loops -> {"none", "running", "barrier", "err"}]
  /\ latencies \subseteq Loops
  /\ failures \in Nat

(* The result of the clients, where it is, is of this round and of all     *)
(* loops.                                                                  *)
GroupRight ==
  /\ result # NoResult =>
       /\ result = [round |-> benchmark.round, loops |-> Loops]
       /\ main \in {"published", "idle"} /\ Phase \in {"result", "failed"}
  /\ main \in {"running", "barrier"} => Phase \in {"result", "failed"}
  /\ main = "published" => Phase \in {"result", "taken", "failed"}
  /\ \A l \in Loops : loop[l] = "barrier" => l \in latencies

IsReplica(h) == h \in Hosts /\ h # TheClient

(* A place for a session is free when the controller comes to start one    *)
(* there.                                                                  *)
Vacant ==
  /\ Phase \in {"replicas", "settle", "taken", "stop"} => session[TheClient] = "none"
  /\ \A h \in Hosts : IsReplica(h) =>
       /\ At("replicas") /\ h >= benchmark.replica => session[h] = "none"
       /\ At("stop") /\ h < benchmark.replica => session[h] = "none"

(* The replicas that have been started and not yet stopped. *)
UpAndRunning(h) ==
  \/ At("replicas") /\ h < benchmark.replica
  \/ Phase \in {"settle", "result", "taken"}
  \/ At("stop") /\ h >= benchmark.replica

(* As long as nothing failed, sessions run until they are stopped, and     *)
(* each has its watchdog.                                                  *)
NoFailures ==
  /\ \A h \in Hosts : session[h] # "err"
  /\ \A l \in Loops : client[l] # "err" /\ loop[l] # "err"
  /\ \A h \in Hosts : IsReplica(h) =>
       /\ session[h] # "ok"
       /\ UpAndRunning(h) => session[h] = "running"
       /\ At("replicas") /\ h < benchmark.replica => h \in watched
       /\ Phase \in {"settle", "result", "taken"} => h \in watched
  /\ Phase \in {"result", "taken"} => TheClient \in watched

(* The inductive invariant. *)
ReplInv ==
  /\ ReplTypes /\ GroupRight /\ Vacant
  /\ failures = 0 => NoFailures
  /\ ResultsWhole /\ RoundsApart

(* When all loops are at the barrier, all latencies are there. *)
LEMMA AllAtTheBarrier ==
  ASSUME Cardinality({l \in Loops : loop[l] = "barrier"}) + 1 >= BarrierSize
  PROVE  \A l \in Loops : loop[l] = "barrier"
<1> DEFINE B == {l \in Loops : loop[l] = "barrier"}
<1>1. B \in SUBSET Loops
  OBVIOUS
<1>2. /\ IsFiniteSet(B) /\ Cardinality(B) <= Cardinality(Loops)
      /\ Cardinality(Loops) = Cardinality(B) => Loops = B
  BY <1>1, LoopsAssumption, FS_Subset
<1>3. Cardinality(B) \in Nat /\ Cardinality(Loops) \in Nat
  BY <1>2, LoopsAssumption, FS_CardinalityType
<1>4. Cardinality(B) + 1 >= Cardinality(Loops) + 1
  BY DEF BarrierSize
<1> HIDE DEF B
<1>5. Loops = B
  BY <1>2, <1>3, <1>4
<1> QED
  BY <1>5 DEF B

LEMMA HostsAre == TheClient \in Hosts /\ \A h \in 1..NumReplicas : h \in Hosts /\ h # TheClient /\ IsReplica(h)
  BY NumReplicasAssumption DEF TheClient, Hosts, IsReplica

LEMMA ReplInitRight == ASSUME ReplInit PROVE ReplInv
<1>1. ReplTypes
  BY NumReplicasAssumption DEF ReplInit, ReplTypes, Phases
<1>2. GroupRight /\ Vacant /\ ResultsWhole /\ RoundsApart
  BY HostsAre DEF ReplInit, GroupRight, Vacant, ResultsWhole, RoundsApart, Phase, At
<1>3. NoFailures
  BY DEF ReplInit, NoFailures, UpAndRunning, Phase, At, IsReplica, Hosts, TheClient
<1> QED
  BY <1>1, <1>2, <1>3 DEF ReplInv

LEMMA SameRounds ==
  ASSUME ReplInv, UNCHANGED <<benchmark, received, failures, panics, timedOut>>
  PROVE  ResultsWhole' /\ RoundsApart'
  BY DEF ReplInv, ResultsWhole, RoundsApart, Phase

LEMMA LoopStopsRight ==
  ASSUME ReplInv, NEW l \in Loops, LoopStops(l)
  PROVE  ReplInv'
<1>1. UNCHANGED <<benchmark, watched, received, session, result, main, client, failures, panics, timedOut>>
      /\ latencies' = latencies \cup {l} /\ loop' = [loop EXCEPT ![l] = "barrier"]
  BY DEF LoopStops
<1>2. ReplTypes'
  BY <1>1 DEF ReplInv, ReplTypes
<1>3. GroupRight' /\ Vacant'
  BY <1>1 DEF ReplInv, ReplTypes, GroupRight, Vacant, Phase, At
<1>4. failures' = 0 => NoFailures'
  BY <1>1 DEF ReplInv, ReplTypes, NoFailures, UpAndRunning, Phase, At
<1> QED
  BY <1>1, <1>2, <1>3, <1>4, SameRounds DEF ReplInv

LEMMA ClientFailsRight ==
  ASSUME ReplInv, NEW l \in Loops, ClientFails(l)
  PROVE  ReplInv'
<1>1. failures' = failures + 1 /\ failures \in Nat
  BY DEF ClientFails, ReplInv, ReplTypes
<1>2. failures' \in Nat /\ failures' # 0 /\ failures' > 0
  BY <1>1
<1>3. ReplTypes' /\ GroupRight' /\ Vacant'
  BY <1>2 DEF ClientFails, ReplInv, ReplTypes, GroupRight, Vacant, Phase, At
<1>4. ResultsWhole' /\ RoundsApart'
  BY <1>2 DEF ClientFails, ReplInv, ResultsWhole, RoundsApart, Phase
<1> QED
  BY <1>2, <1>3, <1>4 DEF ReplInv

LEMMA LoopFailsRight ==
  ASSUME ReplInv, NEW l \in Loops, LoopFails(l)
  PROVE  ReplInv'
<1>1. failures # 0
  BY DEF LoopFails, ReplInv, NoFailures
<1>2. ReplTypes' /\ GroupRight' /\ Vacant'
  BY DEF LoopFails, ReplInv, ReplTypes, GroupRight, Vacant, Phase, At
<1>3. ResultsWhole' /\ RoundsApart'
  BY SameRounds DEF LoopFails
<1> QED
  BY <1>1, <1>2, <1>3 DEF ReplInv, LoopFails

LEMMA MainFailsRight ==
  ASSUME ReplInv, MainFails
  PROVE  ReplInv'
<1>1. failures # 0
  BY DEF MainFails, TaskFailed, ReplInv, NoFailures
<1>2. ReplTypes'
  BY HostsAre DEF MainFails, ReplInv, ReplTypes
<1>3. GroupRight'
  BY DEF MainFails, ReplInv, ReplTypes, GroupRight, Phase
<1>4. Vacant'
  BY HostsAre DEF MainFails, ReplInv, ReplTypes, GroupRight, Vacant, Phase, At, IsReplica
<1>5. ResultsWhole' /\ RoundsApart'
  BY SameRounds DEF MainFails
<1> QED
  BY <1>1, <1>2, <1>3, <1>4, <1>5 DEF ReplInv, MainFails

LEMMA MainStopsRight ==
  ASSUME ReplInv, MainStops
  PROVE  ReplInv'
<1>1. ReplTypes' /\ GroupRight' /\ Vacant'
  BY DEF MainStops, ReplInv, ReplTypes, GroupRight, Vacant, Phase, At
<1>2. failures' = 0 => NoFailures'
  BY DEF MainStops, ReplInv, NoFailures, UpAndRunning, Phase, At
<1>3. ResultsWhole' /\ RoundsApart'
  BY SameRounds DEF MainStops
<1> QED
  BY <1>1, <1>2, <1>3 DEF ReplInv

LEMMA MainPublishesRight ==
  ASSUME ReplInv, MainPublishes
  PROVE  ReplInv'
<1>1. latencies = Loops
  BY AllAtTheBarrier DEF MainPublishes, ReplInv, ReplTypes, GroupRight
<1>2. ReplTypes' /\ GroupRight' /\ Vacant'
  BY <1>1 DEF MainPublishes, ReplInv, ReplTypes, GroupRight, Vacant, Phase, At
<1>3. failures' = 0 => NoFailures'
  BY DEF MainPublishes, ReplInv, NoFailures, UpAndRunning, Phase, At
<1>4. ResultsWhole' /\ RoundsApart'
  BY SameRounds DEF MainPublishes
<1> QED
  BY <1>2, <1>3, <1>4 DEF ReplInv

LEMMA MainReturnsRight ==
  ASSUME ReplInv, MainReturns
  PROVE  ReplInv'
<1>1. ReplTypes'
  BY HostsAre DEF MainReturns, ReplInv, ReplTypes
<1>2. GroupRight'
  BY DEF MainReturns, ReplInv, ReplTypes, GroupRight, Phase
<1>3. Vacant'
  BY HostsAre DEF MainReturns, ReplInv, ReplTypes, Vacant, Phase, At, IsReplica
<1>4. failures' = 0 => NoFailures'
  BY HostsAre DEF MainReturns, ReplInv, ReplTypes, NoFailures, UpAndRunning, Phase, At, IsReplica
<1>5. ResultsWhole' /\ RoundsApart'
  BY SameRounds DEF MainReturns
<1> QED
  BY <1>1, <1>2, <1>3, <1>4, <1>5 DEF ReplInv

LEMMA ReplicaFailsRight ==
  ASSUME ReplInv, NEW h \in Hosts, ReplicaFails(h)
  PROVE  ReplInv'
<1>1. failures' = failures + 1 /\ failures \in Nat
  BY DEF ReplicaFails, ReplInv, ReplTypes
<1>2. failures' \in Nat /\ failures' # 0 /\ failures' > 0
  BY <1>1
<1>3. ReplTypes' /\ GroupRight'
  BY <1>2 DEF ReplicaFails, groupVars, ReplInv, ReplTypes, GroupRight, Phase
<1>4. Vacant'
  BY HostsAre DEF ReplicaFails, ReplInv, ReplTypes, Vacant, Phase, At
<1>5. ResultsWhole' /\ RoundsApart'
  BY <1>2 DEF ReplicaFails, ReplInv, ResultsWhole, RoundsApart, Phase
<1> QED
  BY <1>2, <1>3, <1>4, <1>5 DEF ReplInv

LEMMA StartReplicaRight ==
  ASSUME ReplInv, StartReplica
  PROVE  ReplInv'
<1> DEFINE h == benchmark.replica
<1>1. /\ h \in 1..NumReplicas /\ h \in Nat /\ NumReplicas \in Nat /\ h \in Hosts /\ IsReplica(h) /\ h # TheClient
      /\ session[h] = "none"
  BY HostsAre, NumReplicasAssumption DEF ReplInv, ReplTypes, Vacant, StartReplica
<1>2. /\ At("replicas")
      /\ panics' = panics /\ session' = [session EXCEPT ![h] = "running"]
      /\ watched' = watched \cup {h}
      /\ benchmark' = Started(h)
      /\ UNCHANGED <<received, result, main, client, loop, latencies, failures, timedOut>>
  BY <1>1 DEF StartReplica, groupVars
<1>3. /\ benchmark' \in [round : Nat, phase : Phases, replica : 1..NumReplicas]
      /\ benchmark'.round = benchmark.round
      /\ \/ benchmark'.phase = "replicas" /\ benchmark'.replica = h + 1
         \/ benchmark'.phase = "settle" /\ h = NumReplicas
  BY <1>1, <1>2 DEF Started, At, ReplInv, ReplTypes, Phases
<1>4. ReplTypes' /\ GroupRight'
  BY <1>1, <1>2, <1>3 DEF ReplInv, ReplTypes, GroupRight, Phase, At
<1>5. \A g \in Hosts : IsReplica(g) => g \in Nat /\ g <= NumReplicas
  BY DEF IsReplica, Hosts
<1>6. Vacant'
  BY <1>1, <1>2, <1>3, <1>5, HostsAre DEF ReplInv, ReplTypes, Vacant, Phase, At
<1>7. failures' = 0 => NoFailures'
  BY <1>1, <1>2, <1>3, <1>5, HostsAre DEF ReplInv, ReplTypes, NoFailures, UpAndRunning, Phase, At
<1>8. ResultsWhole' /\ RoundsApart'
  BY <1>2, <1>3 DEF ReplInv, ResultsWhole, RoundsApart, Phase
<1> QED
  BY <1>4, <1>6, <1>7, <1>8 DEF ReplInv

LEMMA StartClientRight ==
  ASSUME ReplInv, StartClient
  PROVE  ReplInv'
<1>1. session[TheClient] = "none" /\ TheClient \in Hosts
  BY HostsAre DEF StartClient, ReplInv, Vacant, Phase, At
<1>2. /\ At("settle") /\ panics' = panics /\ session' = [session EXCEPT ![TheClient] = "running"]
      /\ result' = NoResult /\ main' = "running" /\ latencies' = {}
      /\ client' = [l \in Loops |-> "running"] /\ loop' = [l \in Loops |-> "running"]
      /\ watched' = watched \cup {TheClient}
      /\ UNCHANGED <<received, failures, timedOut>>
  BY <1>1 DEF StartClient
<1>3. /\ benchmark' \in [round : Nat, phase : Phases, replica : 1..NumReplicas]
      /\ benchmark'.phase = "result" /\ benchmark'.replica = benchmark.replica
  BY DEF StartClient, Go, ReplInv, ReplTypes, Phases
<1>4. ReplTypes' /\ GroupRight'
  BY <1>1, <1>2, <1>3 DEF ReplInv, ReplTypes, GroupRight, Phase
<1>5. Vacant'
  BY <1>3 DEF Vacant, Phase, At
<1>6. failures' = 0 => NoFailures'
  BY <1>1, <1>2, <1>3 DEF ReplInv, ReplTypes, NoFailures, UpAndRunning, Phase, At, IsReplica
<1>7. ResultsWhole' /\ RoundsApart'
  BY <1>2, <1>3 DEF ReplInv, ResultsWhole, RoundsApart, Phase
<1> QED
  BY <1>4, <1>5, <1>6, <1>7 DEF ReplInv

LEMMA OkTakesRight ==
  ASSUME ReplInv, NEW h \in Hosts, OkTakes(h)
  PROVE  ReplInv'
<1>1. ReplTypes' /\ GroupRight'
  BY DEF OkTakes, groupVars, ReplInv, ReplTypes, GroupRight, Phase
<1>2. Vacant'
  BY HostsAre DEF OkTakes, ReplInv, ReplTypes, Vacant, Phase, At
<1>3. failures' = 0 => NoFailures'
  BY HostsAre DEF OkTakes, groupVars, ReplInv, ReplTypes, NoFailures, UpAndRunning, Phase, At, IsReplica
<1>4. ResultsWhole' /\ RoundsApart'
  BY SameRounds DEF OkTakes
<1> QED
  BY <1>1, <1>2, <1>3, <1>4 DEF ReplInv

LEMMA ControllerFails ==
  ASSUME ReplInv, Go("failed"), UNCHANGED <<watched, received, failures>>,
         client' = client /\ loop' = loop /\ main' = main /\ latencies' = latencies,
         result' \in {result, NoResult}, session' \in [Hosts -> {"none", "running", "ok", "err"}],
         \A h \in Hosts : session'[h] \in {session[h], "none"},
         "replaced" \notin panics', (failures > 0 \/ timedOut' \/ "take" \in panics')
  PROVE  ReplInv'
<1>1. /\ benchmark' \in [round : Nat, phase : Phases, replica : 1..NumReplicas]
      /\ benchmark'.phase = "failed" /\ benchmark'.round = benchmark.round
  BY DEF Go, ReplInv, ReplTypes, Phases
<1>2. ReplTypes' /\ GroupRight' /\ Vacant'
  BY <1>1 DEF ReplInv, ReplTypes, GroupRight, Vacant, Phase, At
<1>3. failures' = 0 => NoFailures'
  BY <1>1 DEF ReplInv, ReplTypes, NoFailures, UpAndRunning, Phase, At
<1>4. ResultsWhole' /\ RoundsApart'
  BY DEF ReplInv, ResultsWhole, RoundsApart
<1> QED
  BY <1>2, <1>3, <1>4 DEF ReplInv

LEMMA WatchdogJoinedRight ==
  ASSUME ReplInv, WatchdogJoined
  PROVE  ReplInv'
<1>1. failures # 0
  BY DEF WatchdogJoined, ReplInv, NoFailures, IsReplica, Phase, At
<1>2. failures > 0
  BY <1>1 DEF ReplInv, ReplTypes
<1>3. "replaced" \notin panics'
  BY DEF WatchdogJoined, ReplInv, RoundsApart
<1>4. session' \in [Hosts -> {"none", "running", "ok", "err"}] /\ session' = session /\ result' = result
  BY DEF WatchdogJoined, ReplInv, ReplTypes
<1> QED
  BY <1>2, <1>3, <1>4, ControllerFails DEF WatchdogJoined, groupVars

LEMMA RequestTimesOutRight ==
  ASSUME ReplInv, RequestTimesOut
  PROVE  ReplInv'
<1>1. "replaced" \notin panics'
  BY DEF RequestTimesOut, ReplInv, RoundsApart
<1>2. session' \in [Hosts -> {"none", "running", "ok", "err"}] /\ session' = session /\ result' = result
  BY DEF RequestTimesOut, ReplInv, ReplTypes
<1> QED
  BY <1>1, <1>2, ControllerFails DEF RequestTimesOut, groupVars

LEMMA TakeResultRight ==
  ASSUME ReplInv, TakeResult
  PROVE  ReplInv'
<1>1. CASE session[TheClient] = "none"
  <2>1. /\ panics' = panics \cup {"take"} /\ Go("failed") /\ session' = session /\ received' = received
        /\ result' = NoResult
        /\ UNCHANGED <<watched, main, client, loop, latencies, failures, timedOut>>
    BY <1>1 DEF TakeResult, groupVars
  <2>2. "replaced" \notin panics' /\ session' \in [Hosts -> {"none", "running", "ok", "err"}]
    BY <2>1 DEF ReplInv, RoundsApart, ReplTypes
  <2> QED
    BY <2>1, <2>2, ControllerFails
<1>2. CASE session[TheClient] # "none"
  <2>1. /\ At("result") /\ result # NoResult /\ result' = NoResult
        /\ session' = [session EXCEPT ![TheClient] = "none"]
        /\ received' = [received EXCEPT ![benchmark.round] = result]
        /\ Go("taken")
        /\ UNCHANGED <<panics, watched, main, client, loop, latencies, failures, timedOut>>
    BY <1>2 DEF TakeResult, groupVars
  <2>2. /\ benchmark' \in [round : Nat, phase : Phases, replica : 1..NumReplicas]
        /\ benchmark'.phase = "taken" /\ benchmark'.round = benchmark.round
    BY <2>1 DEF Go, ReplInv, ReplTypes, Phases
  <2>3. result = [round |-> benchmark.round, loops |-> Loops] /\ main \in {"published", "idle"}
    BY <2>1 DEF ReplInv, GroupRight
  <2>4. ReplTypes' /\ GroupRight'
    BY <2>1, <2>2, <2>3, HostsAre DEF ReplInv, ReplTypes, GroupRight, Phase
  <2>5. Vacant'
    BY <2>1, <2>2, HostsAre DEF ReplInv, ReplTypes, Vacant, Phase, At
  <2>6. failures' = 0 => NoFailures'
    BY <2>1, <2>2, HostsAre DEF ReplInv, ReplTypes, NoFailures, UpAndRunning, Phase, At, IsReplica
  <2>7. ResultsWhole'
    BY <2>1, <2>3 DEF ReplInv, ReplTypes, ResultsWhole
  <2>8. RoundsApart'
    BY <2>1, <2>2 DEF ReplInv, RoundsApart, Phase
  <2> QED
    BY <2>4, <2>5, <2>6, <2>7, <2>8 DEF ReplInv
<1> QED
  BY <1>1, <1>2

LEMMA TakeAnsweredRight ==
  ASSUME ReplInv, TakeAnswered
  PROVE  ReplInv'
<1>1. /\ benchmark' \in [round : Nat, phase : Phases, replica : 1..NumReplicas]
      /\ benchmark'.phase = "stop" /\ benchmark'.replica = 1
  <2>1. benchmark \in [round : Nat, phase : Phases, replica : 1..NumReplicas] /\ 1 \in 1..NumReplicas
    BY NumReplicasAssumption DEF ReplInv, ReplTypes
  <2>2. benchmark' = [round |-> benchmark.round, phase |-> "stop", replica |-> 1]
    BY <2>1 DEF TakeAnswered
  <2> QED
    BY <2>1, <2>2 DEF Phases
<1>2. /\ At("taken") /\ main = "idle" /\ result = NoResult
      /\ UNCHANGED <<watched, received, session, result, main, client, loop, latencies, failures, panics, timedOut>>
  BY DEF TakeAnswered, groupVars, ReplInv, GroupRight, Phase, At
<1>3. \A g \in Hosts : IsReplica(g) => g \in Nat /\ g >= 1
  BY DEF IsReplica, Hosts, TheClient
<1>4. ReplTypes' /\ GroupRight'
  BY <1>1, <1>2 DEF ReplInv, ReplTypes, GroupRight
<1>5. Vacant'
  BY <1>1, <1>2, <1>3 DEF ReplInv, ReplTypes, Vacant, Phase, At
<1>6. failures' = 0 => NoFailures'
  BY <1>1, <1>2 DEF ReplInv, ReplTypes, NoFailures, UpAndRunning, Phase, At
<1>7. ResultsWhole' /\ RoundsApart'
  BY <1>1, <1>2 DEF ReplInv, ResultsWhole, RoundsApart, Phase
<1> QED
  BY <1>4, <1>5, <1>6, <1>7 DEF ReplInv

LEMMA StopReplicaRight ==
  ASSUME ReplInv, StopReplica
  PROVE  ReplInv'
<1> DEFINE h == benchmark.replica
<1>1. /\ h \in 1..NumReplicas /\ h \in Nat /\ NumReplicas \in Nat /\ h \in Hosts /\ IsReplica(h) /\ h # TheClient
      /\ TheClient \in Hosts
  BY HostsAre, NumReplicasAssumption DEF ReplInv, ReplTypes
<1>2. /\ At("stop") /\ session' = [session EXCEPT ![h] = "none"]
      /\ UNCHANGED <<received, result, main, client, loop, latencies, failures, timedOut>>
      /\ "replaced" \notin panics'
      /\ session' \in [Hosts -> {"none", "running", "ok", "err"}]
  BY <1>1 DEF StopReplica, groupVars, ReplInv, RoundsApart, ReplTypes
<1>3. CASE session[h] # "running"
  <2>1. failures > 0
    BY <1>1, <1>2, <1>3 DEF ReplInv, ReplTypes, NoFailures, UpAndRunning
  <2> QED
    BY <1>1, <1>2, <1>3, <2>1, ControllerFails DEF StopReplica
<1>4. CASE session[h] = "running"
  <2>1. benchmark' = Stopped(h) /\ panics' = panics /\ watched' = IF h < NumReplicas THEN watched ELSE {}
    BY <1>4 DEF StopReplica
  <2>2. /\ benchmark' \in [round : Nat, phase : Phases, replica : 1..NumReplicas]
        /\ \/ benchmark'.phase = "stop" /\ benchmark'.replica = h + 1
           \/ benchmark'.phase = "replicas" /\ benchmark'.replica = 1 /\ h = NumReplicas
           \/ benchmark'.phase = "done"
    BY <1>1, <1>2, <2>1 DEF Stopped, At, ReplInv, ReplTypes, Phases
  <2>3. result = NoResult /\ main = "idle"
    BY <1>2 DEF ReplInv, ReplTypes, GroupRight, Phase, At
  <2>4. ReplTypes' /\ GroupRight'
    BY <1>1, <1>2, <2>2, <2>3 DEF ReplInv, ReplTypes, GroupRight
  <2>5. \A g \in Hosts : IsReplica(g) => g \in Nat /\ g <= NumReplicas /\ g >= 1
    BY DEF IsReplica, Hosts, TheClient
  <2>6. Vacant'
    BY <1>1, <1>2, <2>2, <2>5 DEF ReplInv, ReplTypes, Vacant, Phase, At
  <2>7. failures' = 0 => NoFailures'
    BY <1>1, <1>2, <2>2, <2>5 DEF ReplInv, ReplTypes, NoFailures, UpAndRunning, Phase, At
  <2>8. ResultsWhole' /\ RoundsApart'
    BY <1>2, <2>1, <2>2 DEF ReplInv, ResultsWhole, RoundsApart, Phase
  <2> QED
    BY <2>4, <2>6, <2>7, <2>8 DEF ReplInv
<1> QED
  BY <1>3, <1>4

(***************************************************************************)
(* Every state that the controller and the hosts of the replication        *)
(* benchmark can reach satisfies ReplInv, with sessions that fail,         *)
(* requests that give up and watchdogs that join late, in any round.       *)
(***************************************************************************)
THEOREM ReplInvariance == ReplSpec => []ReplInv
<1>1. ReplInit => ReplInv
  BY ReplInitRight
<1>2. ReplInv /\ [ReplNext]_replVars => ReplInv'
  <2> SUFFICES ASSUME ReplInv, [ReplNext]_replVars PROVE ReplInv'
    OBVIOUS
  <2>1. CASE UNCHANGED replVars
    BY <2>1 DEF replVars, ReplInv, ReplTypes, GroupRight, Vacant, NoFailures, UpAndRunning,
       ResultsWhole, RoundsApart, Phase, At
  <2>2. CASE ReplWork
    BY <2>2, LoopStopsRight, MainFailsRight, MainStopsRight, MainPublishesRight, MainReturnsRight,
       StartReplicaRight, StartClientRight, WatchdogJoinedRight, TakeResultRight, TakeAnsweredRight,
       StopReplicaRight DEF ReplWork
  <2> QED
    BY <2>1, <2>2, ClientFailsRight, LoopFailsRight, ReplicaFailsRight, OkTakesRight,
       RequestTimesOutRight DEF ReplNext
<1> QED
  BY <1>1, <1>2, PTL DEF ReplSpec

(***************************************************************************)
(* A result that is taken is of the round that asks for it and has the     *)
(* latencies of all close loops; no session takes the place of another     *)
(* (main.rs:82, 336); and the benchmark fails for a failure, a request     *)
(* that gave up or a session that was taken too early only.                *)
(***************************************************************************)
THEOREM RoundsAreSound == ReplSpec => []RoundsSound
<1>1. ReplInv => RoundsSound
  BY DEF ReplInv, RoundsSound
<1> QED
  BY <1>1, ReplInvariance, PTL

-----------------------------------------------------------------------------
(***************************************************************************)
(* Dispatch.                                                               *)
(***************************************************************************)

(* The messages, connections and table entries. *)
Msgs == DOMAIN Messages
Connections ==
  [from : Nodes, to : Nodes, phase : {"connecting", "backlog", "accepted", "failed"}, broken : BOOLEAN]

TableEntries == [end : Ends \cup {<<0, 0>>}, using : BOOLEAN]

DispatchTypes ==
  /\ table \in [Nodes -> [Nodes -> TableEntries]]
  /\ conns \in Seq(Connections) /\ Len(conns) \in 0..MaxConns
  /\ chan \in [Ends -> Seq(Msgs)] /\ wire \in [Ends -> Seq(Msgs)]
  /\ writer \in [Ends -> {"none", "running", "ended"}]
  /\ reader \in [Ends -> {"none", "running", "ended", "failed"}]
  /\ sent \subseteq Msgs /\ lost \subseteq Msgs
  /\ arrived \in [Msgs -> Nat]
  /\ faults \in Nat

(* Without a fault nothing is lost, no connection is broken and no reader  *)
(* has given up.                                                           *)
Faults ==
  /\ faults = 0 => /\ lost = {}
                   /\ \A k \in DOMAIN conns : conns[k].broken = FALSE
                   /\ \A e \in Ends : reader[e] # "failed"
  /\ \A e \in Ends : writer[e] = "running" => e[1] \in DOMAIN conns

(* An entry of the table of n for r names an end of a connection between   *)
(* the two.                                                                *)
EntryRight(n, r, entry, cs) ==
  entry # NoEntry =>
    /\ entry.end[1] \in 1..Len(cs) /\ entry.end \in Ends
    /\ IF entry.end[2] = 1 THEN cs[entry.end[1]].from = n /\ cs[entry.end[1]].to = r
       ELSE cs[entry.end[1]].to = n /\ cs[entry.end[1]].from = r

Entries == \A n, r \in Nodes : EntryRight(n, r, table[n][r], conns)

(* A queue holds no message twice. *)
NoDup(q) == \A i, j \in 1..Len(q) : q[i] = q[j] => i = j

(* There is one copy of a message, in one queue. *)
OneCopy ==
  /\ \A e \in Ends : NoDup(chan[e]) /\ NoDup(wire[e])
  /\ \A e, f \in Ends :
       /\ e # f => Elems(chan[e]) \cap Elems(chan[f]) = {} /\ Elems(wire[e]) \cap Elems(wire[f]) = {}
       /\ Elems(chan[e]) \cap Elems(wire[f]) = {}

(* A message that was sent has arrived once, is lost or is on its way: one *)
(* of the three.                                                           *)
Ledger ==
  \A m \in Msgs :
    /\ m \in sent =>
         \/ arrived[m] = 1 /\ m \notin lost /\ ~Carried(m)
         \/ arrived[m] = 0 /\ m \in lost /\ ~Carried(m)
         \/ arrived[m] = 0 /\ m \notin lost /\ Carried(m)
    /\ m \notin sent => arrived[m] = 0 /\ m \notin lost /\ ~Carried(m)

(* The inductive invariant. *)
DispatchInv == DispatchTypes /\ Faults /\ Entries /\ OneCopy /\ Ledger

LEMMA EmptyQueue == Elems(<<>>) = {} /\ NoDup(<<>>) /\ \A S : <<>> \in Seq(S)
  BY DEF Elems, NoDup

LEMMA AppendQueue ==
  ASSUME NEW S, NEW q \in Seq(S), NEW x \in S
  PROVE  /\ Append(q, x) \in Seq(S)
         /\ Elems(Append(q, x)) = Elems(q) \cup {x}
         /\ NoDup(q) /\ x \notin Elems(q) => NoDup(Append(q, x))
<1>1. Append(q, x) \in Seq(S) /\ Len(Append(q, x)) = Len(q) + 1 /\ Len(q) \in Nat
      /\ DOMAIN q = 1..Len(q) /\ DOMAIN Append(q, x) = 1..(Len(q) + 1)
      /\ \A i \in 1..Len(q) : Append(q, x)[i] = q[i]
      /\ Append(q, x)[Len(q) + 1] = x
  OBVIOUS
<1> DEFINE p == Append(q, x)
<1> HIDE DEF p
<1>2. /\ \A i \in 1..(Len(q) + 1) : i \in 1..Len(q) \/ i = Len(q) + 1
      /\ \A i \in 1..Len(q) : i \in 1..(Len(q) + 1) /\ i # Len(q) + 1
      /\ Len(q) + 1 \in 1..(Len(q) + 1)
  BY <1>1
<1>3. Elems(p) = Elems(q) \cup {x}
  <2>1. \A y \in Elems(p) : y \in Elems(q) \cup {x}
    BY <1>1, <1>2 DEF p, Elems
  <2>2. \A y \in Elems(q) \cup {x} : y \in Elems(p)
    BY <1>1, <1>2 DEF p, Elems
  <2> QED
    BY <2>1, <2>2
<1>4. ASSUME NoDup(q), x \notin Elems(q) PROVE NoDup(p)
  <2>1. \A i \in 1..Len(q) : q[i] # x
    BY <1>1, <1>4 DEF Elems
  <2> QED
    BY <1>1, <1>2, <1>4, <2>1 DEF p, NoDup
<1> QED
  BY <1>1, <1>3, <1>4 DEF p

LEMMA TailQueue ==
  ASSUME NEW S, NEW q \in Seq(S), q # <<>>, NoDup(q)
  PROVE  /\ Tail(q) \in Seq(S) /\ Head(q) \in S /\ Head(q) \in Elems(q)
         /\ NoDup(Tail(q)) /\ Elems(Tail(q)) = Elems(q) \ {Head(q)}
<1>1. /\ Len(q) \in Nat /\ Len(q) >= 1 /\ DOMAIN q = 1..Len(q) /\ Head(q) = q[1]
      /\ Tail(q) \in Seq(S) /\ Len(Tail(q)) = Len(q) - 1 /\ DOMAIN Tail(q) = 1..(Len(q) - 1)
      /\ \A i \in 1..(Len(q) - 1) : Tail(q)[i] = q[i + 1]
  BY EmptySeq, LenProperties
<1>2. q[1] \in S /\ 1 \in 1..Len(q)
  BY <1>1, ElementOfSeq
<1>3. /\ \A i \in 1..(Len(q) - 1) : i + 1 \in 1..Len(q) /\ i + 1 # 1
      /\ \A i \in 1..Len(q) : i = 1 \/ (i - 1 \in 1..(Len(q) - 1) /\ (i - 1) + 1 = i)
      /\ \A i, j \in 1..(Len(q) - 1) : i + 1 = j + 1 => i = j
  BY <1>1
<1> DEFINE t == Tail(q)
<1> HIDE DEF t
<1>4. NoDup(t)
  <2> SUFFICES ASSUME NEW i \in 1..(Len(q) - 1), NEW j \in 1..(Len(q) - 1), t[i] = t[j] PROVE i = j
    BY <1>1 DEF NoDup, t
  <2>1. q[i + 1] = q[j + 1]
    BY <1>1 DEF t
  <2>2. i + 1 = j + 1
    BY <1>3, <2>1 DEF NoDup
  <2> QED
    BY <1>3, <2>2
<1>5. ASSUME NEW y \in Elems(t) PROVE y \in Elems(q) \ {q[1]}
  <2>1. PICK i \in 1..(Len(q) - 1) : y = t[i]
    BY <1>1 DEF Elems, t
  <2>2. y = q[i + 1] /\ i + 1 \in 1..Len(q) /\ i + 1 # 1
    BY <1>1, <1>3, <2>1 DEF t
  <2>3. y # q[1]
    BY <1>2, <2>2 DEF NoDup
  <2> QED
    BY <1>1, <2>2, <2>3 DEF Elems
<1>6. ASSUME NEW y \in Elems(q) \ {q[1]} PROVE y \in Elems(t)
  <2>1. PICK i \in 1..Len(q) : y = q[i]
    BY <1>1 DEF Elems
  <2>2. i - 1 \in 1..(Len(q) - 1) /\ (i - 1) + 1 = i
    BY <1>3, <2>1
  <2>3. t[i - 1] = y
    BY <1>1, <2>1, <2>2 DEF t
  <2> QED
    BY <1>1, <2>2, <2>3 DEF Elems, t
<1>7. Elems(t) = Elems(q) \ {q[1]}
  BY <1>5, <1>6
<1>8. Head(q) \in Elems(q)
  BY <1>1, <1>2 DEF Elems
<1> QED
  BY <1>1, <1>2, <1>4, <1>7, <1>8 DEF t

LEMMA Unmoved ==
  ASSUME OneCopy, Ledger, UNCHANGED <<chan, wire, sent, arrived, lost>>
  PROVE  OneCopy' /\ Ledger'
  BY DEF OneCopy, Ledger, Carried

LEMMA QueuesRight ==
  ASSUME DispatchTypes, NEW e \in Ends
  PROVE  /\ chan[e] \in Seq(Msgs) /\ wire[e] \in Seq(Msgs)
         /\ Elems(chan[e]) \subseteq Msgs /\ Elems(wire[e]) \subseteq Msgs
<1>1. chan[e] \in Seq(Msgs) /\ wire[e] \in Seq(Msgs)
  BY DEF DispatchTypes
<1> QED
  BY <1>1, ElementOfSeq, LenProperties DEF Elems

LEMMA OneCopyShrinks ==
  ASSUME OneCopy,
         \A e \in Ends : /\ NoDup(chan'[e]) /\ Elems(chan'[e]) \subseteq Elems(chan[e])
                         /\ NoDup(wire'[e]) /\ Elems(wire'[e]) \subseteq Elems(wire[e])
  PROVE  OneCopy'
<1>1. ASSUME NEW e \in Ends, NEW f \in Ends
      PROVE  /\ e # f => Elems(chan'[e]) \cap Elems(chan'[f]) = {} /\ Elems(wire'[e]) \cap Elems(wire'[f]) = {}
             /\ Elems(chan'[e]) \cap Elems(wire'[f]) = {}
  <2>1. /\ e # f => Elems(chan[e]) \cap Elems(chan[f]) = {} /\ Elems(wire[e]) \cap Elems(wire[f]) = {}
        /\ Elems(chan[e]) \cap Elems(wire[f]) = {}
    BY DEF OneCopy
  <2>2. /\ Elems(chan'[e]) \subseteq Elems(chan[e]) /\ Elems(wire'[e]) \subseteq Elems(wire[e])
        /\ Elems(chan'[f]) \subseteq Elems(chan[f]) /\ Elems(wire'[f]) \subseteq Elems(wire[f])
    OBVIOUS
  <2> QED
    BY <2>1, <2>2
<1>2. \A e \in Ends : NoDup(chan'[e]) /\ NoDup(wire'[e])
  OBVIOUS
<1> QED
  BY <1>1, <1>2 DEF OneCopy

LEMMA ConnsUpdate ==
  ASSUME DispatchTypes, NEW k \in DOMAIN conns, NEW c \in Connections,
         conns' = [conns EXCEPT ![k] = c]
  PROVE  /\ conns' \in Seq(Connections) /\ Len(conns') = Len(conns)
         /\ DOMAIN conns' = DOMAIN conns
         /\ \A i \in DOMAIN conns : conns'[i] = IF i = k THEN c ELSE conns[i]
  BY DEF DispatchTypes

LEMMA ConnIs ==
  ASSUME DispatchTypes, NEW k \in DOMAIN conns
  PROVE  /\ conns[k] \in Connections /\ k \in 1..Len(conns) /\ DOMAIN conns = 1..Len(conns)
         /\ Len(conns) \in Nat /\ k \in 1..MaxConns
         /\ <<k, 1>> \in Ends /\ <<k, 2>> \in Ends
<1>1. conns \in Seq(Connections) /\ Len(conns) \in 0..MaxConns
  BY DEF DispatchTypes
<1>2. DOMAIN conns = 1..Len(conns) /\ k \in 1..Len(conns) /\ Len(conns) \in Nat
  BY <1>1, LenProperties
<1>3. k \in 1..MaxConns
  BY <1>1, <1>2, DispatchAssumption
<1> QED
  BY <1>1, <1>2, <1>3, ElementOfSeq DEF Ends

LEMMA EntriesKept ==
  ASSUME Entries, table' = table, Len(conns') = Len(conns), Len(conns) \in Nat,
         \A k \in 1..Len(conns) : conns'[k].from = conns[k].from /\ conns'[k].to = conns[k].to
  PROVE  Entries'
<1> SUFFICES ASSUME NEW n \in Nodes, NEW r \in Nodes
             PROVE  EntryRight(n, r, table[n][r], conns')
  BY DEF Entries
<1>1. EntryRight(n, r, table[n][r], conns)
  BY DEF Entries
<1> QED
  BY <1>1 DEF EntryRight

(* The updates of the table that the handlers make. *)
SetEntry(tb, n, r, x) == [tb EXCEPT ![n][r] = x]

EntryIsSet(n, r, x, new) ==
  /\ new \in [Nodes -> [Nodes -> TableEntries]]
  /\ \A d, q \in Nodes : new[d][q] = IF d = n /\ q = r THEN x ELSE table[d][q]

LEMMA TableUpdate ==
  ASSUME DispatchTypes, NEW n \in Nodes, NEW r \in Nodes, NEW x \in TableEntries
  PROVE  EntryIsSet(n, r, x, SetEntry(table, n, r, x))
<1> DEFINE row == [table[n] EXCEPT ![r] = x]
<1>1. table \in [Nodes -> [Nodes -> TableEntries]]
  BY DEF DispatchTypes
<1>2. row \in [Nodes -> TableEntries] /\ \A q \in Nodes : row[q] = IF q = r THEN x ELSE table[n][q]
  BY <1>1
<1>3. SetEntry(table, n, r, x) = [table EXCEPT ![n] = row]
  BY DEF SetEntry
<1> HIDE DEF row
<1> QED
  BY <1>1, <1>2, <1>3 DEF EntryIsSet

LEMMA ConnectRight ==
  ASSUME DispatchInv, NEW k \in DOMAIN conns, Connect(k)
  PROVE  DispatchInv'
<1> DEFINE c == [conns[k] EXCEPT !.phase = "backlog"]
<1>0. DispatchTypes /\ Faults /\ Entries /\ OneCopy /\ Ledger
  BY DEF DispatchInv
<1>1. /\ conns[k] \in Connections /\ k \in 1..Len(conns) /\ DOMAIN conns = 1..Len(conns)
      /\ Len(conns) \in Nat /\ <<k, 1>> \in Ends
  BY <1>0, ConnIs
<1>2. conns' = [conns EXCEPT ![k] = c] /\ writer' = [writer EXCEPT ![<<k, 1>>] = "running"]
      /\ reader' = [reader EXCEPT ![<<k, 1>>] = "running"]
      /\ UNCHANGED <<table, chan, wire, sent, arrived, lost, faults>>
  BY DEF Connect
<1>3. c \in Connections /\ c.broken = conns[k].broken /\ c.from = conns[k].from /\ c.to = conns[k].to
  BY <1>1 DEF Connections
<1> HIDE DEF c
<1>4. /\ conns' \in Seq(Connections) /\ Len(conns') = Len(conns) /\ DOMAIN conns' = DOMAIN conns
      /\ \A i \in DOMAIN conns : conns'[i] = IF i = k THEN c ELSE conns[i]
  BY <1>0, <1>2, <1>3, ConnsUpdate
<1>5. DispatchTypes'
  BY <1>0, <1>2, <1>4 DEF DispatchTypes
<1>6. Faults'
  BY <1>0, <1>1, <1>2, <1>3, <1>4 DEF Faults, DispatchTypes
<1>7. Entries'
  BY <1>0, <1>1, <1>2, <1>3, <1>4, EntriesKept
<1>8. OneCopy' /\ Ledger'
  BY <1>0, <1>2, Unmoved
<1> QED
  BY <1>5, <1>6, <1>7, <1>8 DEF DispatchInv

LEMMA IncomingRight ==
  ASSUME DispatchInv, NEW k \in DOMAIN conns, Incoming(k)
  PROVE  DispatchInv'
<1> DEFINE c == [conns[k] EXCEPT !.phase = "accepted"]
           entry == [end |-> <<k, 2>>, using |-> TRUE]
<1>0. DispatchTypes /\ Faults /\ Entries /\ OneCopy /\ Ledger
  BY DEF DispatchInv
<1>1. /\ conns[k] \in Connections /\ k \in 1..Len(conns) /\ DOMAIN conns = 1..Len(conns)
      /\ Len(conns) \in Nat /\ <<k, 2>> \in Ends
  BY <1>0, ConnIs
<1>2. conns' = [conns EXCEPT ![k] = c] /\ writer' = [writer EXCEPT ![<<k, 2>>] = "running"]
      /\ reader' = [reader EXCEPT ![<<k, 2>>] = "running"]
      /\ UNCHANGED <<chan, wire, sent, arrived, lost, faults>>
      /\ \/ table' = table
         \/ table' = SetEntry(table, conns[k].to, conns[k].from, entry)
  BY DEF Incoming, SetEntry
<1>3. c \in Connections /\ c.broken = conns[k].broken /\ c.from = conns[k].from /\ c.to = conns[k].to
  BY <1>1 DEF Connections
<1> HIDE DEF c
<1>4. /\ conns' \in Seq(Connections) /\ Len(conns') = Len(conns) /\ DOMAIN conns' = DOMAIN conns
      /\ \A i \in DOMAIN conns : conns'[i] = IF i = k THEN c ELSE conns[i]
  BY <1>0, <1>2, <1>3, ConnsUpdate
<1>5. /\ table' \in [Nodes -> [Nodes -> TableEntries]]
      /\ \A n, r \in Nodes : \/ table'[n][r] = table[n][r]
                             \/ n = conns[k].to /\ r = conns[k].from /\ table'[n][r] = entry
  <2>1. conns[k].to \in Nodes /\ conns[k].from \in Nodes /\ entry \in TableEntries
    BY <1>1 DEF Connections, TableEntries
  <2> DEFINE to == conns[k].to
             from == conns[k].from
  <2> HIDE DEF entry, to, from
  <2>2. EntryIsSet(to, from, entry, SetEntry(table, to, from, entry))
    BY <1>0, <2>1, TableUpdate DEF to, from
  <2>3. table \in [Nodes -> [Nodes -> TableEntries]]
    BY <1>0 DEF DispatchTypes
  <2>4. table' = table \/ table' = SetEntry(table, to, from, entry)
    BY <1>2 DEF to, from
  <2> QED
    BY <2>2, <2>3, <2>4 DEF to, from, EntryIsSet
<1>6. DispatchTypes'
  BY <1>0, <1>2, <1>4, <1>5 DEF DispatchTypes
<1>7. Faults'
  BY <1>0, <1>1, <1>2, <1>3, <1>4 DEF Faults, DispatchTypes
<1>8. entry.end = <<k, 2>>
  OBVIOUS
<1> HIDE DEF entry
<1>9. ASSUME NEW n \in Nodes, NEW r \in Nodes PROVE EntryRight(n, r, table'[n][r], conns')
  <2>1. EntryRight(n, r, table[n][r], conns)
    BY <1>0 DEF Entries
  <2>2. \A i \in 1..Len(conns) : conns'[i].from = conns[i].from /\ conns'[i].to = conns[i].to
    BY <1>1, <1>3, <1>4
  <2>3. CASE table'[n][r] = table[n][r]
    BY <1>4, <2>1, <2>2, <2>3 DEF EntryRight
  <2>4. CASE n = conns[k].to /\ r = conns[k].from /\ table'[n][r] = entry
    <3>1. k \in 1..Len(conns') /\ <<k, 2>> \in Ends
      BY <1>1, <1>4
    <3>2. conns'[k].to = n /\ conns'[k].from = r
      BY <1>1, <2>2, <2>4
    <3>3. entry.end[1] = k /\ entry.end[2] = 2
      BY <1>8
    <3> QED
      BY <1>8, <2>4, <3>1, <3>2, <3>3 DEF EntryRight
  <2> QED
    BY <1>5, <2>3, <2>4
<1>10. OneCopy' /\ Ledger'
  BY <1>0, <1>2, Unmoved
<1> QED
  BY <1>6, <1>7, <1>9, <1>10 DEF DispatchInv, Entries

LEMMA OnTimerRight ==
  ASSUME DispatchInv, NEW n \in Nodes, OnTimer(n)
  PROVE  DispatchInv'
<1>0. DispatchTypes /\ Faults /\ Entries /\ OneCopy /\ Ledger
  BY DEF DispatchInv
<1>1. UNCHANGED <<conns, chan, writer, reader, wire, sent, arrived, lost, faults>>
  BY DEF OnTimer
<1>2. table \in [Nodes -> [Nodes -> TableEntries]]
  BY <1>0 DEF DispatchTypes
<1>3. ASSUME NEW entry \in TableEntries
      PROVE  /\ Retain(entry) \in TableEntries
             /\ Retain(entry) = NoEntry \/ (entry # NoEntry /\ Retain(entry).end = entry.end)
  BY DEF Retain, TableEntries, NoEntry
<1>3a. /\ table' \in [Nodes -> [Nodes -> TableEntries]]
       /\ \A d, r \in Nodes : table'[d][r] = IF d = n THEN Retain(table[d][r]) ELSE table[d][r]
  <2> DEFINE row == [r \in Nodes |-> Retain(table[n][r])]
  <2>1. row \in [Nodes -> TableEntries] /\ \A r \in Nodes : row[r] = Retain(table[n][r])
    BY <1>2, <1>3
  <2>2. table' = [table EXCEPT ![n] = row]
    BY DEF OnTimer
  <2> HIDE DEF row
  <2> QED
    BY <1>2, <2>1, <2>2
<1>4. ASSUME NEW d \in Nodes, NEW r \in Nodes PROVE EntryRight(d, r, table'[d][r], conns)
  <2>1. EntryRight(d, r, table[d][r], conns)
    BY <1>0 DEF Entries
  <2>2. table[d][r] \in TableEntries
    BY <1>2
  <2>3. table'[d][r] = NoEntry \/ table'[d][r] = table[d][r]
        \/ (table[d][r] # NoEntry /\ table'[d][r].end = table[d][r].end)
    BY <1>3, <1>3a, <2>2
  <2> QED
    BY <2>1, <2>3 DEF EntryRight
<1>5. DispatchTypes' /\ Faults'
  BY <1>0, <1>1, <1>3a DEF DispatchTypes, Faults
<1>6. OneCopy' /\ Ledger'
  BY <1>0, <1>1, Unmoved
<1> QED
  BY <1>1, <1>4, <1>5, <1>6 DEF DispatchInv, Entries

LEMMA OutgoingRight ==
  ASSUME DispatchInv, NEW m \in Msgs, Outgoing(m)
  PROVE  DispatchInv'
<1> DEFINE n == Messages[m][1]
           r == Messages[m][2]
           old == table[n][r]
           usable == old # NoEntry /\ ~IsClosed(old.end)
           e == IF usable THEN old.end ELSE <<Len(conns) + 1, 1>>
           entry == [end |-> e, using |-> TRUE]
           c == [from |-> n, to |-> r, phase |-> "connecting", broken |-> FALSE]
<1>0. DispatchTypes /\ Faults /\ Entries /\ OneCopy /\ Ledger
  BY DEF DispatchInv
<1>1. n \in Nodes /\ r \in Nodes
  BY DispatchAssumption DEF Msgs
<1>2. /\ m \notin sent /\ sent' = sent \cup {m}
      /\ usable \/ Len(conns) < MaxConns
      /\ chan' = [chan EXCEPT ![e] = Append(@, m)]
      /\ table' = SetEntry(table, n, r, entry)
      /\ conns' = IF usable THEN conns ELSE Append(conns, c)
      /\ UNCHANGED <<writer, reader, wire, arrived, lost, faults>>
  BY DEF Outgoing, SetEntry
<1>3. conns \in Seq(Connections) /\ Len(conns) \in Nat /\ Len(conns) <= MaxConns /\ DOMAIN conns = 1..Len(conns)
  BY <1>0, LenProperties, DispatchAssumption DEF DispatchTypes
<1>4. c \in Connections /\ c.from = n /\ c.to = r /\ c.broken = FALSE
  BY <1>1 DEF Connections
<1>5. EntryRight(n, r, old, conns)
  BY <1>0, <1>1 DEF Entries
<1>6. e \in Ends
  <2>1. CASE usable
    BY <1>5, <2>1 DEF EntryRight
  <2>2. CASE ~usable
    <3>1. Len(conns) < MaxConns
      BY <1>2, <2>2
    <3>2. Len(conns) + 1 \in 1..MaxConns
      BY <1>3, <3>1, DispatchAssumption
    <3>3. e = <<Len(conns) + 1, 1>>
      BY <2>2
    <3>4. <<Len(conns) + 1, 1>> \in Ends
      BY <3>2 DEF Ends
    <3> QED
      BY <3>3, <3>4
  <2> QED
    BY <2>1, <2>2
<1>7. entry \in TableEntries /\ entry.end = e
  BY <1>6 DEF TableEntries
<1> HIDE DEF c, entry
<1>8. /\ conns' \in Seq(Connections) /\ Len(conns') \in 0..MaxConns /\ Len(conns) <= Len(conns')
      /\ DOMAIN conns' = 1..Len(conns') /\ Len(conns') \in Nat
      /\ \A k \in 1..Len(conns) : conns'[k] = conns[k]
      /\ \A k \in 1..Len(conns') : k \in 1..Len(conns) \/ conns'[k] = c
      /\ e[1] \in 1..Len(conns')
      /\ ~usable => conns'[e[1]] = c
  <2>1. CASE usable
    <3>1. e[1] \in 1..Len(conns)
      BY <1>5, <2>1 DEF EntryRight
    <3> HIDE DEF e
    <3> QED
      BY <1>2, <1>3, <2>1, <3>1, DispatchAssumption
  <2>2. CASE ~usable
    <3>1. conns' = Append(conns, c) /\ e[1] = Len(conns) + 1 /\ Len(conns) < MaxConns
      BY <1>2, <2>2
    <3> HIDE DEF e
    <3> QED
      BY <1>3, <1>4, <3>1, DispatchAssumption
  <2> QED
    BY <2>1, <2>2
<1>9. e[2] = 1 \/ usable
  OBVIOUS
<1>10. usable => e = old.end /\ old # NoEntry
  OBVIOUS
<1>10a. ~usable => e[2] = 1
  OBVIOUS
<1> HIDE DEF e, usable
<1>11. /\ table' \in [Nodes -> [Nodes -> TableEntries]]
       /\ \A d, q \in Nodes : table'[d][q] = IF d = n /\ q = r THEN entry ELSE table[d][q]
  <2>1. n \in Nodes /\ r \in Nodes /\ entry \in TableEntries /\ DispatchTypes
    BY <1>0, <1>1, <1>7
  <2>2. table' = SetEntry(table, n, r, entry)
    BY <1>2
  <2> HIDE DEF n, r
  <2>3. EntryIsSet(n, r, entry, SetEntry(table, n, r, entry))
    BY <2>1, TableUpdate
  <2> QED
    BY <2>2, <2>3 DEF EntryIsSet
<1>12. Entries'
  <2> SUFFICES ASSUME NEW d \in Nodes, NEW q \in Nodes PROVE EntryRight(d, q, table'[d][q], conns')
    BY DEF Entries
  <2>1. CASE d = n /\ q = r /\ usable
    <3>1. e[1] \in 1..Len(conns) /\ (IF e[2] = 1 THEN conns[e[1]].from = n /\ conns[e[1]].to = r
                                      ELSE conns[e[1]].to = n /\ conns[e[1]].from = r)
      BY <1>5, <1>10, <2>1 DEF EntryRight
    <3>2. conns'[e[1]] = conns[e[1]] /\ table'[d][q] = entry
      BY <1>8, <1>11, <2>1, <3>1
    <3> HIDE DEF n, r
    <3> QED
      BY <1>6, <1>7, <1>8, <2>1, <3>1, <3>2 DEF EntryRight
  <2>2. CASE d = n /\ q = r /\ ~usable
    BY <1>4, <1>6, <1>7, <1>8, <1>10a, <1>11, <2>2 DEF EntryRight
  <2>3. CASE ~(d = n /\ q = r)
    <3>1. EntryRight(d, q, table[d][q], conns) /\ table'[d][q] = table[d][q]
      BY <1>0, <1>11, <2>3 DEF Entries
    <3> QED
      BY <1>3, <1>8, <3>1 DEF EntryRight
  <2> QED
    BY <2>1, <2>2, <2>3
<1>13. Faults'
  <2>1. \A k \in 1..Len(conns') : conns'[k].broken = FALSE \/ (k \in 1..Len(conns) /\ conns'[k] = conns[k])
    BY <1>4, <1>8
  <2>2. \A k \in 1..Len(conns) : k \in 1..Len(conns')
    BY <1>3, <1>8
  <2> QED
    BY <1>0, <1>2, <1>3, <1>8, <2>1, <2>2 DEF Faults
<1>14. ~Carried(m) /\ m \notin lost /\ arrived[m] = 0
  BY <1>0, <1>2 DEF Ledger
<1>15. \A f \in Ends : m \notin Elems(chan[f]) /\ m \notin Elems(wire[f])
  BY <1>14 DEF Carried
<1>16. ASSUME NEW f \in Ends
       PROVE  /\ chan'[f] \in Seq(Msgs) /\ NoDup(chan'[f])
              /\ Elems(chan'[f]) = IF f = e THEN Elems(chan[f]) \cup {m} ELSE Elems(chan[f])
  <2>1. chan[f] \in Seq(Msgs) /\ NoDup(chan[f]) /\ chan'[f] = IF f = e THEN Append(chan[f], m) ELSE chan[f]
    BY <1>0, <1>2, <1>6 DEF DispatchTypes, OneCopy
  <2>2. CASE f = e
    <3>1. /\ Append(chan[f], m) \in Seq(Msgs)
          /\ Elems(Append(chan[f], m)) = Elems(chan[f]) \cup {m}
          /\ NoDup(Append(chan[f], m))
      BY <1>15, <2>1, AppendQueue
    <3> QED
      BY <2>1, <2>2, <3>1
  <2>3. CASE f # e
    BY <2>1, <2>3
  <2> QED
    BY <2>2, <2>3
<1>17. DispatchTypes'
  <2>1. chan' \in [Ends -> Seq(Msgs)]
    BY <1>0, <1>2, <1>16 DEF DispatchTypes
  <2> QED
    BY <1>0, <1>2, <1>8, <1>11, <2>1 DEF DispatchTypes
<1>18. OneCopy'
  <2> SUFFICES ASSUME NEW f \in Ends, NEW g \in Ends
               PROVE  /\ f # g => Elems(chan'[f]) \cap Elems(chan'[g]) = {} /\ Elems(wire[f]) \cap Elems(wire[g]) = {}
                      /\ Elems(chan'[f]) \cap Elems(wire[g]) = {}
    BY <1>0, <1>2, <1>16 DEF OneCopy
  <2>1. /\ f # g => Elems(chan[f]) \cap Elems(chan[g]) = {} /\ Elems(wire[f]) \cap Elems(wire[g]) = {}
        /\ Elems(chan[f]) \cap Elems(wire[g]) = {}
    BY <1>0 DEF OneCopy
  <2> QED
    BY <1>15, <1>16, <2>1
<1>19. ASSUME NEW x \in Msgs PROVE Carried(x)' <=> Carried(x) \/ x = m
  <2>0. wire' = wire
    BY <1>2
  <2>1. ASSUME Carried(x)' PROVE Carried(x) \/ x = m
    <3>1. PICK f \in Ends : x \in Elems(chan'[f]) \cup Elems(wire'[f])
      BY <2>1 DEF Carried
    <3>2. Elems(chan'[f]) \subseteq Elems(chan[f]) \cup {m} /\ Elems(wire'[f]) = Elems(wire[f])
      BY <1>16, <2>0
    <3>3. x \in Elems(chan[f]) \cup Elems(wire[f]) \/ x = m
      BY <3>1, <3>2
    <3> QED
      BY <3>3 DEF Carried
  <2>2. ASSUME Carried(x) PROVE Carried(x)'
    <3>1. PICK f \in Ends : x \in Elems(chan[f]) \cup Elems(wire[f])
      BY <2>2 DEF Carried
    <3>2. x \in Elems(chan'[f]) \cup Elems(wire'[f])
      BY <1>16, <2>0, <3>1
    <3> QED
      BY <3>2 DEF Carried
  <2>3. Carried(m)'
    <3>1. m \in Elems(chan'[e])
      BY <1>6, <1>16
    <3> QED
      BY <1>6, <3>1 DEF Carried
  <2> QED
    BY <2>1, <2>2, <2>3
<1>20. Ledger'
  BY <1>0, <1>2, <1>14, <1>19 DEF Ledger
<1> QED
  BY <1>12, <1>13, <1>17, <1>18, <1>20 DEF DispatchInv

LEMMA LosesThese ==
  ASSUME DispatchInv, NEW L, L \subseteq Msgs, \A m \in L : Carried(m),
         lost' = lost \cup L, UNCHANGED <<sent, arrived>>,
         \A m \in Msgs : Carried(m)' <=> Carried(m) /\ m \notin L
  PROVE  Ledger'
<1> SUFFICES ASSUME NEW m \in Msgs
             PROVE  /\ m \in sent =>
                         \/ arrived[m] = 1 /\ m \notin lost' /\ ~Carried(m)'
                         \/ arrived[m] = 0 /\ m \in lost' /\ ~Carried(m)'
                         \/ arrived[m] = 0 /\ m \notin lost' /\ Carried(m)'
                    /\ m \notin sent => arrived[m] = 0 /\ m \notin lost' /\ ~Carried(m)'
  BY DEF Ledger
<1>1. /\ m \in sent =>
           \/ arrived[m] = 1 /\ m \notin lost /\ ~Carried(m)
           \/ arrived[m] = 0 /\ m \in lost /\ ~Carried(m)
           \/ arrived[m] = 0 /\ m \notin lost /\ Carried(m)
      /\ m \notin sent => arrived[m] = 0 /\ m \notin lost /\ ~Carried(m)
  BY DEF DispatchInv, Ledger
<1>2. CASE m \in L
  BY <1>1, <1>2
<1>3. CASE m \notin L
  BY <1>1, <1>3
<1> QED
  BY <1>2, <1>3

(* The channel of e is lost. *)
LEMMA ChannelLost ==
  ASSUME DispatchInv, NEW e \in Ends, lost' = lost \cup Elems(chan[e]),
         chan' = [chan EXCEPT ![e] = <<>>], UNCHANGED <<wire, sent, arrived>>
  PROVE  /\ OneCopy' /\ Ledger'
         /\ chan' \in [Ends -> Seq(Msgs)] /\ lost' \subseteq Msgs
<1>0. DispatchTypes /\ OneCopy /\ Ledger
  BY DEF DispatchInv
<1>1. \A f \in Ends : chan'[f] = IF f = e THEN <<>> ELSE chan[f]
  BY <1>0 DEF DispatchTypes
<1>2. \A f \in Ends : /\ Elems(chan'[f]) = IF f = e THEN {} ELSE Elems(chan[f])
                      /\ NoDup(chan'[f])
  BY <1>0, <1>1, EmptyQueue DEF OneCopy
<1>3. OneCopy'
  <2>1. \A f \in Ends : /\ NoDup(chan'[f]) /\ Elems(chan'[f]) \subseteq Elems(chan[f])
                        /\ NoDup(wire'[f]) /\ Elems(wire'[f]) \subseteq Elems(wire[f])
    BY <1>0, <1>2 DEF OneCopy
  <2> QED
    BY <1>0, <2>1, OneCopyShrinks
<1>4. Elems(chan[e]) \subseteq Msgs
  BY <1>0, QueuesRight
<1>5. \A m \in Elems(chan[e]) : Carried(m)
  BY DEF Carried
<1>6. \A f \in Ends : /\ f # e => Elems(chan[e]) \cap Elems(chan[f]) = {}
                      /\ Elems(chan[e]) \cap Elems(wire[f]) = {}
  BY <1>0 DEF OneCopy
<1>7. ASSUME NEW m \in Msgs PROVE Carried(m)' <=> Carried(m) /\ m \notin Elems(chan[e])
  <2>1. ASSUME Carried(m)' PROVE Carried(m) /\ m \notin Elems(chan[e])
    BY <1>2, <1>6, <2>1 DEF Carried
  <2>2. ASSUME Carried(m), m \notin Elems(chan[e]) PROVE Carried(m)'
    BY <1>2, <2>2 DEF Carried
  <2> QED
    BY <2>1, <2>2
<1>8. Ledger'
  BY <1>4, <1>5, <1>7, LosesThese
<1> QED
  BY <1>0, <1>3, <1>4, <1>8, EmptyQueue DEF DispatchTypes

LEMMA EndsOf ==
  ASSUME NEW e \in Ends
  PROVE  e = <<e[1], e[2]>> /\ e[1] \in 1..MaxConns /\ e[2] \in {1, 2} /\ Other(e) \in Ends
  BY DEF Ends, Other

LEMMA ConnectFailRight ==
  ASSUME DispatchInv, NEW k \in DOMAIN conns, ConnectFail(k)
  PROVE  DispatchInv'
<1> DEFINE c == [conns[k] EXCEPT !.phase = "failed"]
           e == <<k, 1>>
<1>0. DispatchTypes /\ Faults /\ Entries /\ OneCopy /\ Ledger
  BY DEF DispatchInv
<1>1. /\ conns[k] \in Connections /\ k \in 1..Len(conns) /\ DOMAIN conns = 1..Len(conns)
      /\ Len(conns) \in Nat /\ e \in Ends
  BY <1>0, ConnIs
<1>2. /\ conns' = [conns EXCEPT ![k] = c] /\ writer' = [writer EXCEPT ![e] = "ended"]
      /\ lost' = lost \cup Elems(chan[e]) /\ chan' = [chan EXCEPT ![e] = <<>>]
      /\ faults' = faults + 1
      /\ UNCHANGED <<table, reader, wire, sent, arrived>>
  BY DEF ConnectFail
<1>3. c \in Connections /\ c.broken = conns[k].broken /\ c.from = conns[k].from /\ c.to = conns[k].to
  BY <1>1 DEF Connections
<1> HIDE DEF c, e
<1>4. /\ conns' \in Seq(Connections) /\ Len(conns') = Len(conns) /\ DOMAIN conns' = DOMAIN conns
      /\ \A i \in DOMAIN conns : conns'[i] = IF i = k THEN c ELSE conns[i]
  BY <1>0, <1>2, <1>3, ConnsUpdate
<1>5. OneCopy' /\ Ledger' /\ chan' \in [Ends -> Seq(Msgs)] /\ lost' \subseteq Msgs
  BY <1>1, <1>2, ChannelLost
<1>6. faults' \in Nat /\ faults' # 0
  BY <1>0, <1>2 DEF DispatchTypes
<1>7. DispatchTypes'
  BY <1>0, <1>2, <1>4, <1>5, <1>6 DEF DispatchTypes
<1>8. Faults'
  BY <1>0, <1>2, <1>4, <1>6 DEF Faults, DispatchTypes
<1>9. Entries'
  BY <1>0, <1>1, <1>2, <1>3, <1>4, EntriesKept
<1> QED
  BY <1>5, <1>7, <1>8, <1>9 DEF DispatchInv

LEMMA WriteRight ==
  ASSUME DispatchInv, NEW e \in Ends, Write(e)
  PROVE  DispatchInv'
<1>0. DispatchTypes /\ Faults /\ Entries /\ OneCopy /\ Ledger
  BY DEF DispatchInv
<1>1. writer[e] = "running" /\ chan[e] # <<>> /\ UNCHANGED <<table, conns, reader, sent, arrived, faults>>
      /\ e[1] \in DOMAIN conns
  BY <1>0 DEF Write, Faults
<1>2. Entries'
  BY <1>0, <1>1 DEF Entries
<1>3. CASE conns[e[1]].broken
  <2>1. /\ lost' = lost \cup Elems(chan[e]) /\ chan' = [chan EXCEPT ![e] = <<>>]
        /\ writer' = [writer EXCEPT ![e] = "ended"] /\ wire' = wire
    BY <1>3 DEF Write
  <2>2. OneCopy' /\ Ledger' /\ chan' \in [Ends -> Seq(Msgs)] /\ lost' \subseteq Msgs
    BY <1>1, <2>1, ChannelLost
  <2>3. DispatchTypes'
    BY <1>0, <1>1, <2>1, <2>2 DEF DispatchTypes
  <2>4. Faults'
    BY <1>0, <1>1, <1>3, <2>1 DEF Faults, DispatchTypes
  <2> QED
    BY <1>2, <2>2, <2>3, <2>4 DEF DispatchInv
<1>4. CASE ~conns[e[1]].broken /\ reader[Other(e)] = "failed"
  <2> DEFINE x == Head(chan[e])
             rest == Tail(chan[e])
  <2>1. chan' = [chan EXCEPT ![e] = rest] /\ lost' = lost \cup {x} /\ UNCHANGED <<wire, writer>>
    BY <1>4 DEF Write
  <2>2. chan[e] \in Seq(Msgs) /\ NoDup(chan[e])
    BY <1>0 DEF DispatchTypes, OneCopy
  <2>3. /\ rest \in Seq(Msgs) /\ x \in Msgs /\ x \in Elems(chan[e])
        /\ NoDup(rest) /\ Elems(rest) = Elems(chan[e]) \ {x}
    BY <1>1, <2>2, TailQueue
  <2>4. \A f \in Ends : (f # e => x \notin Elems(chan[f])) /\ x \notin Elems(wire[f])
    BY <1>0, <2>3 DEF OneCopy
  <2> HIDE DEF x, rest
  <2>5. \A f \in Ends : chan'[f] = IF f = e THEN rest ELSE chan[f]
    BY <1>0, <2>1 DEF DispatchTypes
  <2>6. \A f \in Ends : NoDup(chan'[f]) /\ Elems(chan'[f]) = Elems(chan[f]) \ {x}
    BY <1>0, <2>3, <2>4, <2>5 DEF OneCopy
  <2>7. OneCopy'
    <3>1. \A f \in Ends : /\ NoDup(chan'[f]) /\ Elems(chan'[f]) \subseteq Elems(chan[f])
                          /\ NoDup(wire'[f]) /\ Elems(wire'[f]) \subseteq Elems(wire[f])
      BY <1>0, <2>1, <2>6 DEF OneCopy
    <3> QED
      BY <1>0, <3>1, OneCopyShrinks
  <2>8. ASSUME NEW m \in Msgs PROVE Carried(m)' <=> Carried(m) /\ m \notin {x}
    <3>1. \A f \in Ends : m \in Elems(chan'[f]) \cup Elems(wire'[f]) <=>
                            m \in Elems(chan[f]) \cup Elems(wire[f]) /\ m # x
      BY <2>1, <2>4, <2>6
    <3> QED
      BY <3>1 DEF Carried
  <2>9. {x} \subseteq Msgs /\ \A m \in {x} : Carried(m)
    BY <2>3 DEF Carried
  <2>10. Ledger'
    BY <1>1, <2>1, <2>8, <2>9, LosesThese
  <2>11. DispatchTypes'
    BY <1>0, <1>1, <2>1, <2>3 DEF DispatchTypes
  <2>12. faults # 0
    BY <1>0, <1>4, EndsOf DEF Faults
  <2>13. Faults'
    BY <1>0, <1>1, <2>1, <2>12 DEF Faults
  <2> QED
    BY <1>2, <2>7, <2>10, <2>11, <2>13 DEF DispatchInv
<1>5. CASE ~conns[e[1]].broken /\ reader[Other(e)] # "failed"
  <2> DEFINE x == Head(chan[e])
             rest == Tail(chan[e])
             out == Append(wire[e], x)
  <2>1. chan' = [chan EXCEPT ![e] = rest] /\ wire' = [wire EXCEPT ![e] = out] /\ UNCHANGED <<lost, writer>>
    BY <1>5 DEF Write
  <2>2. chan[e] \in Seq(Msgs) /\ wire[e] \in Seq(Msgs) /\ NoDup(chan[e]) /\ NoDup(wire[e])
    BY <1>0 DEF DispatchTypes, OneCopy
  <2>3. /\ rest \in Seq(Msgs) /\ x \in Msgs /\ x \in Elems(chan[e])
        /\ NoDup(rest) /\ Elems(rest) = Elems(chan[e]) \ {x}
    BY <1>1, <2>2, TailQueue
  <2>4. \A f \in Ends : (f # e => x \notin Elems(chan[f])) /\ x \notin Elems(wire[f])
    BY <1>0, <2>3 DEF OneCopy
  <2>5. out \in Seq(Msgs) /\ Elems(out) = Elems(wire[e]) \cup {x} /\ NoDup(out)
    <3> HIDE DEF x
    <3> QED
      BY <2>2, <2>3, <2>4, AppendQueue
  <2> HIDE DEF x, rest, out
  <2>6. \A f \in Ends : chan'[f] = (IF f = e THEN rest ELSE chan[f]) /\ wire'[f] = (IF f = e THEN out ELSE wire[f])
    BY <1>0, <2>1 DEF DispatchTypes
  <2>7. \A f \in Ends : /\ Elems(chan'[f]) = Elems(chan[f]) \ {x}
                        /\ Elems(wire'[f]) = IF f = e THEN Elems(wire[f]) \cup {x} ELSE Elems(wire[f])
                        /\ NoDup(chan'[f]) /\ NoDup(wire'[f])
    <3> SUFFICES ASSUME NEW f \in Ends
                 PROVE  /\ Elems(chan'[f]) = Elems(chan[f]) \ {x}
                        /\ Elems(wire'[f]) = IF f = e THEN Elems(wire[f]) \cup {x} ELSE Elems(wire[f])
                        /\ NoDup(chan'[f]) /\ NoDup(wire'[f])
      OBVIOUS
    <3>1. CASE f = e
      <4>1. chan'[f] = rest /\ wire'[f] = out
        BY <2>6, <3>1
      <4> QED
        BY <2>3, <2>5, <3>1, <4>1
    <3>2. CASE f # e
      <4>1. chan'[f] = chan[f] /\ wire'[f] = wire[f]
        BY <2>6, <3>2
      <4>2. NoDup(chan[f]) /\ NoDup(wire[f])
        BY <1>0 DEF OneCopy
      <4>3. x \notin Elems(chan[f])
        BY <2>4, <3>2
      <4> QED
        BY <3>2, <4>1, <4>2, <4>3
    <3> QED
      BY <3>1, <3>2
  <2>8. OneCopy'
    <3> SUFFICES ASSUME NEW f \in Ends, NEW g \in Ends
                 PROVE  /\ f # g => Elems(chan'[f]) \cap Elems(chan'[g]) = {} /\ Elems(wire'[f]) \cap Elems(wire'[g]) = {}
                        /\ Elems(chan'[f]) \cap Elems(wire'[g]) = {}
      BY <2>7 DEF OneCopy
    <3>1. /\ f # g => Elems(chan[f]) \cap Elems(chan[g]) = {} /\ Elems(wire[f]) \cap Elems(wire[g]) = {}
          /\ Elems(chan[f]) \cap Elems(wire[g]) = {}
      BY <1>0 DEF OneCopy
    <3>2. /\ Elems(chan'[f]) = Elems(chan[f]) \ {x} /\ Elems(chan'[g]) = Elems(chan[g]) \ {x}
          /\ Elems(wire'[f]) = IF f = e THEN Elems(wire[f]) \cup {x} ELSE Elems(wire[f])
          /\ Elems(wire'[g]) = IF g = e THEN Elems(wire[g]) \cup {x} ELSE Elems(wire[g])
          /\ x \notin Elems(wire[f]) /\ x \notin Elems(wire[g])
      BY <2>4, <2>7
    <3> QED
      BY <3>1, <3>2
  <2>9. ASSUME NEW m \in Msgs PROVE Carried(m)' <=> Carried(m)
    <3>1. ASSUME Carried(m)' PROVE Carried(m)
      <4>1. PICK f \in Ends : m \in Elems(chan'[f]) \cup Elems(wire'[f])
        BY <3>1 DEF Carried
      <4>2. m \in Elems(chan[f]) \cup Elems(wire[f]) \/ m \in Elems(chan[e])
        BY <2>3, <2>7, <4>1
      <4> QED
        BY <4>2 DEF Carried
    <3>2. ASSUME Carried(m) PROVE Carried(m)'
      <4>1. PICK f \in Ends : m \in Elems(chan[f]) \cup Elems(wire[f])
        BY <3>2 DEF Carried
      <4>2. m \in Elems(chan'[f]) \cup Elems(wire'[f]) \/ m \in Elems(wire'[e])
        BY <2>7, <4>1
      <4> QED
        BY <4>2 DEF Carried
    <3> QED
      BY <3>1, <3>2
  <2>10. Ledger'
    BY <1>0, <1>1, <2>1, <2>9 DEF Ledger
  <2>11. DispatchTypes'
    BY <1>0, <1>1, <2>1, <2>3, <2>5 DEF DispatchTypes
  <2>12. Faults'
    BY <1>0, <1>1, <2>1 DEF Faults
  <2> QED
    BY <1>2, <2>8, <2>10, <2>11, <2>12 DEF DispatchInv
<1> QED
  BY <1>3, <1>4, <1>5

LEMMA WriteEndRight ==
  ASSUME DispatchInv, NEW e \in Ends, WriteEnd(e)
  PROVE  DispatchInv'
<1>0. DispatchTypes /\ Faults /\ Entries /\ OneCopy /\ Ledger
  BY DEF DispatchInv
<1>1. writer' = [writer EXCEPT ![e] = "ended"]
      /\ UNCHANGED <<table, conns, chan, reader, wire, sent, arrived, lost, faults>>
  BY DEF WriteEnd
<1>2. DispatchTypes' /\ Faults' /\ Entries'
  BY <1>0, <1>1 DEF DispatchTypes, Faults, Entries
<1>3. OneCopy' /\ Ledger'
  BY <1>0, <1>1, Unmoved
<1> QED
  BY <1>2, <1>3 DEF DispatchInv

LEMMA ReadEndRight ==
  ASSUME DispatchInv, NEW e \in Ends, ReadEnd(e)
  PROVE  DispatchInv'
<1>0. DispatchTypes /\ Faults /\ Entries /\ OneCopy /\ Ledger
  BY DEF DispatchInv
<1>1. reader' = [reader EXCEPT ![e] = "ended"]
      /\ UNCHANGED <<table, conns, chan, writer, wire, sent, arrived, lost, faults>>
  BY DEF ReadEnd
<1>2. DispatchTypes' /\ Faults' /\ Entries'
  BY <1>0, <1>1 DEF DispatchTypes, Faults, Entries
<1>3. OneCopy' /\ Ledger'
  BY <1>0, <1>1, Unmoved
<1> QED
  BY <1>2, <1>3 DEF DispatchInv

LEMMA ReadRight ==
  ASSUME DispatchInv, NEW e \in Ends, Read(e)
  PROVE  DispatchInv'
<1> DEFINE o == Other(e)
           x == Head(wire[o])
           rest == Tail(wire[o])
<1>0. DispatchTypes /\ Faults /\ Entries /\ OneCopy /\ Ledger
  BY DEF DispatchInv
<1>1. /\ wire[o] # <<>> /\ arrived' = [arrived EXCEPT ![x] = @ + 1] /\ wire' = [wire EXCEPT ![o] = rest]
      /\ UNCHANGED <<table, conns, chan, writer, reader, sent, lost, faults>>
  BY DEF Read
<1>2. o \in Ends
  BY EndsOf
<1> HIDE DEF o
<1>3. wire[o] \in Seq(Msgs) /\ NoDup(wire[o])
  BY <1>0, <1>2 DEF DispatchTypes, OneCopy
<1>4. /\ rest \in Seq(Msgs) /\ x \in Msgs /\ x \in Elems(wire[o])
      /\ NoDup(rest) /\ Elems(rest) = Elems(wire[o]) \ {x}
  BY <1>1, <1>3, TailQueue
<1>5. \A f \in Ends : x \notin Elems(chan[f]) /\ (f # o => x \notin Elems(wire[f]))
  BY <1>0, <1>2, <1>4 DEF OneCopy
<1> HIDE DEF x, rest
<1>6. \A f \in Ends : wire'[f] = IF f = o THEN rest ELSE wire[f]
  BY <1>0, <1>1 DEF DispatchTypes
<1>7. \A f \in Ends : NoDup(wire'[f]) /\ Elems(wire'[f]) = Elems(wire[f]) \ {x}
  BY <1>0, <1>4, <1>5, <1>6 DEF OneCopy
<1>8. OneCopy'
  <2>1. \A f \in Ends : /\ NoDup(chan'[f]) /\ Elems(chan'[f]) \subseteq Elems(chan[f])
                        /\ NoDup(wire'[f]) /\ Elems(wire'[f]) \subseteq Elems(wire[f])
    BY <1>0, <1>1, <1>7 DEF OneCopy
  <2> QED
    BY <1>0, <2>1, OneCopyShrinks
<1>9. ASSUME NEW m \in Msgs PROVE Carried(m)' <=> Carried(m) /\ m # x
  <2>1. \A f \in Ends : m \in Elems(chan'[f]) \cup Elems(wire'[f]) <=>
                          m \in Elems(chan[f]) \cup Elems(wire[f]) /\ m # x
    BY <1>1, <1>5, <1>7
  <2> QED
    BY <2>1 DEF Carried
<1>10. Carried(x)
  BY <1>2, <1>4 DEF Carried
<1>11. arrived[x] = 0 /\ x \notin lost /\ x \in sent
  BY <1>0, <1>4, <1>10 DEF Ledger
<1>12. arrived' \in [Msgs -> Nat] /\ \A m \in Msgs : arrived'[m] = IF m = x THEN 1 ELSE arrived[m]
  BY <1>0, <1>1, <1>4, <1>11 DEF DispatchTypes
<1>13. Ledger'
  <2> SUFFICES ASSUME NEW m \in Msgs
               PROVE  /\ m \in sent =>
                           \/ arrived'[m] = 1 /\ m \notin lost /\ ~Carried(m)'
                           \/ arrived'[m] = 0 /\ m \in lost /\ ~Carried(m)'
                           \/ arrived'[m] = 0 /\ m \notin lost /\ Carried(m)'
                      /\ m \notin sent => arrived'[m] = 0 /\ m \notin lost /\ ~Carried(m)'
    BY <1>1 DEF Ledger
  <2>1. CASE m = x
    BY <1>9, <1>11, <1>12, <2>1
  <2>2. CASE m # x
    <3>1. arrived'[m] = arrived[m] /\ (Carried(m)' <=> Carried(m))
      BY <1>9, <1>12, <2>2
    <3> QED
      BY <1>0, <3>1 DEF Ledger
  <2> QED
    BY <2>1, <2>2
<1>14. DispatchTypes'
  BY <1>0, <1>1, <1>4, <1>12 DEF DispatchTypes
<1>15. Faults' /\ Entries'
  BY <1>0, <1>1 DEF Faults, Entries
<1> QED
  BY <1>8, <1>13, <1>14, <1>15 DEF DispatchInv

LEMMA BreakRight ==
  ASSUME DispatchInv, NEW k \in DOMAIN conns, Break(k)
  PROVE  DispatchInv'
<1> DEFINE c == [conns[k] EXCEPT !.broken = TRUE]
           a == <<k, 1>>
           b == <<k, 2>>
           L == Elems(wire[a]) \cup Elems(wire[b])
<1>0. DispatchTypes /\ Faults /\ Entries /\ OneCopy /\ Ledger
  BY DEF DispatchInv
<1>1. /\ conns[k] \in Connections /\ k \in 1..Len(conns) /\ DOMAIN conns = 1..Len(conns)
      /\ Len(conns) \in Nat /\ a \in Ends /\ b \in Ends
  BY <1>0, ConnIs
<1>2. /\ conns' = [conns EXCEPT ![k] = c]
      /\ lost' = lost \cup L
      /\ wire' = [wire EXCEPT ![a] = <<>>, ![b] = <<>>]
      /\ UNCHANGED <<table, chan, writer, reader, sent, arrived>>
  BY DEF Break
<1>3. c \in Connections /\ c.from = conns[k].from /\ c.to = conns[k].to
  BY <1>1 DEF Connections
<1> HIDE DEF c, a, b
<1>4. /\ conns' \in Seq(Connections) /\ Len(conns') = Len(conns) /\ DOMAIN conns' = DOMAIN conns
      /\ \A i \in DOMAIN conns : conns'[i] = IF i = k THEN c ELSE conns[i]
  BY <1>0, <1>2, <1>3, ConnsUpdate
<1>5. wire' \in [Ends -> Seq(Msgs)] /\ \A f \in Ends : wire'[f] = IF f = a \/ f = b THEN <<>> ELSE wire[f]
  BY <1>0, <1>2, EmptyQueue DEF DispatchTypes
<1>6. \A f \in Ends : /\ Elems(wire'[f]) = IF f = a \/ f = b THEN {} ELSE Elems(wire[f])
                      /\ NoDup(wire'[f])
  BY <1>0, <1>5, EmptyQueue DEF OneCopy
<1>7. OneCopy'
  <2>1. ASSUME NEW f \in Ends
        PROVE  /\ NoDup(chan'[f]) /\ Elems(chan'[f]) \subseteq Elems(chan[f])
               /\ NoDup(wire'[f]) /\ Elems(wire'[f]) \subseteq Elems(wire[f])
    <3>1. NoDup(chan[f]) /\ NoDup(wire[f])
      BY <1>0 DEF OneCopy
    <3>2. chan'[f] = chan[f]
      BY <1>2
    <3>3. Elems(wire'[f]) \subseteq Elems(wire[f]) /\ NoDup(wire'[f])
      BY <1>6
    <3> QED
      BY <3>1, <3>2, <3>3
  <2> QED
    BY <1>0, <2>1, OneCopyShrinks
<1>8. L \subseteq Msgs /\ \A m \in L : Carried(m)
  BY <1>0, <1>1, QueuesRight DEF Carried
<1>9. \A f \in Ends : /\ Elems(chan[f]) \cap L = {}
                      /\ f # a /\ f # b => Elems(wire[f]) \cap L = {}
                      /\ f = a \/ f = b => Elems(wire[f]) \subseteq L
  BY <1>0, <1>1 DEF OneCopy
<1> HIDE DEF L
<1>10. ASSUME NEW m \in Msgs PROVE Carried(m)' <=> Carried(m) /\ m \notin L
  <2>1. ASSUME NEW f \in Ends
        PROVE  m \in Elems(chan'[f]) \cup Elems(wire'[f]) <=>
                 m \in Elems(chan[f]) \cup Elems(wire[f]) /\ m \notin L
    <3>1. chan'[f] = chan[f]
      BY <1>2
    <3>2. CASE f = a \/ f = b
      BY <1>6, <1>9, <3>1, <3>2
    <3>3. CASE f # a /\ f # b
      BY <1>6, <1>9, <3>1, <3>3
    <3> QED
      BY <3>2, <3>3
  <2> QED
    BY <2>1 DEF Carried
<1>11. Ledger'
  BY <1>2, <1>8, <1>10, LosesThese
<1>12. faults' \in Nat /\ faults' # 0
  <2>1. faults \in Nat
    BY <1>0 DEF DispatchTypes
  <2>2. CASE Torn(k)
    <3>1. \E i \in {1, 2} : reader[<<k, i>>] = "failed" /\ <<k, i>> \in Ends
      BY <1>1, <2>2 DEF Torn, a, b
    <3>2. faults' = faults
      BY <2>2 DEF Break
    <3> QED
      BY <1>0, <2>1, <3>1, <3>2 DEF Faults
  <2>3. CASE ~Torn(k)
    BY <2>1, <2>3 DEF Break
  <2> QED
    BY <2>2, <2>3
<1>13. DispatchTypes'
  BY <1>0, <1>2, <1>4, <1>5, <1>8, <1>12 DEF DispatchTypes
<1>14. Faults'
  BY <1>0, <1>2, <1>4, <1>12 DEF Faults
<1>15. Entries'
  BY <1>0, <1>1, <1>2, <1>3, <1>4, EntriesKept
<1> QED
  BY <1>7, <1>11, <1>13, <1>14, <1>15 DEF DispatchInv

LEMMA ReadFailsRight ==
  ASSUME DispatchInv, NEW e \in Ends, ReadFails(e)
  PROVE  DispatchInv'
<1> DEFINE o == Other(e)
           L == Elems(wire[o])
<1>0. DispatchTypes /\ Faults /\ Entries /\ OneCopy /\ Ledger
  BY DEF DispatchInv
<1>1. /\ faults' = faults + 1 /\ reader' = [reader EXCEPT ![e] = "failed"]
      /\ lost' = lost \cup L /\ wire' = [wire EXCEPT ![o] = <<>>]
      /\ UNCHANGED <<table, conns, chan, writer, sent, arrived>>
  BY DEF ReadFails
<1>2. o \in Ends
  BY EndsOf
<1> HIDE DEF o
<1>3. \A f \in Ends : wire'[f] = IF f = o THEN <<>> ELSE wire[f]
  BY <1>0, <1>1 DEF DispatchTypes
<1>4. \A f \in Ends : /\ Elems(wire'[f]) = IF f = o THEN {} ELSE Elems(wire[f])
                      /\ NoDup(wire'[f])
  BY <1>0, <1>3, EmptyQueue DEF OneCopy
<1>5. OneCopy'
  <2>1. \A f \in Ends : /\ NoDup(chan'[f]) /\ Elems(chan'[f]) \subseteq Elems(chan[f])
                        /\ NoDup(wire'[f]) /\ Elems(wire'[f]) \subseteq Elems(wire[f])
    BY <1>0, <1>1, <1>4 DEF OneCopy
  <2> QED
    BY <1>0, <2>1, OneCopyShrinks
<1>6. L \subseteq Msgs /\ \A m \in L : Carried(m)
  BY <1>0, <1>2, QueuesRight DEF Carried
<1>7. \A f \in Ends : Elems(chan[f]) \cap L = {} /\ (f # o => Elems(wire[f]) \cap L = {})
  BY <1>0, <1>2 DEF OneCopy
<1>8. ASSUME NEW m \in Msgs PROVE Carried(m)' <=> Carried(m) /\ m \notin L
  <2>1. \A f \in Ends : m \in Elems(chan'[f]) \cup Elems(wire'[f]) <=>
                          m \in Elems(chan[f]) \cup Elems(wire[f]) /\ m \notin L
    BY <1>1, <1>4, <1>7
  <2> QED
    BY <2>1 DEF Carried
<1> HIDE DEF L
<1>9. Ledger'
  BY <1>1, <1>6, <1>8, LosesThese
<1>10. faults' \in Nat /\ faults' # 0
  BY <1>0, <1>1 DEF DispatchTypes
<1>11. DispatchTypes'
  BY <1>0, <1>1, <1>6, <1>10, EmptyQueue DEF DispatchTypes
<1>12. Faults' /\ Entries'
  BY <1>0, <1>1, <1>10 DEF Faults, Entries
<1> QED
  BY <1>5, <1>9, <1>11, <1>12 DEF DispatchInv

(***************************************************************************)
(* Every state that nodes sending, connecting, accepting, writing, reading *)
(* and reclaiming connections can reach satisfies DispatchInv, with        *)
(* connections that fail and readers that give up at any time.             *)
(***************************************************************************)
THEOREM DispatchInvariance == DispatchSpec => []DispatchInv
<1>1. DispatchInit => DispatchInv
  <2> SUFFICES ASSUME DispatchInit PROVE DispatchInv
    OBVIOUS
  <2>1. <<>> \in Seq(Msgs) /\ <<>> \in Seq(Connections) /\ Len(<<>>) = 0 /\ DOMAIN <<>> = {}
    BY EmptyQueue
  <2>2. DispatchTypes
    BY <2>1, DispatchAssumption DEF DispatchInit, DispatchTypes, TableEntries, NoEntry, Msgs
  <2>3. Faults /\ Entries
    BY <2>1 DEF DispatchInit, Faults, Entries, EntryRight
  <2>4. \A e \in Ends : Elems(chan[e]) = {} /\ Elems(wire[e]) = {} /\ NoDup(chan[e]) /\ NoDup(wire[e])
    BY EmptyQueue DEF DispatchInit
  <2>5. OneCopy /\ Ledger
    BY <2>4 DEF DispatchInit, OneCopy, Ledger, Carried, Msgs
  <2> QED
    BY <2>2, <2>3, <2>5 DEF DispatchInv
<1>2. DispatchInv /\ [DispatchNext]_dispatchVars => DispatchInv'
  <2> SUFFICES ASSUME DispatchInv, [DispatchNext]_dispatchVars PROVE DispatchInv'
    OBVIOUS
  <2>1. CASE UNCHANGED dispatchVars
    BY <2>1, Unmoved DEF dispatchVars, DispatchInv, DispatchTypes, Faults, Entries
  <2>2. CASE DispatchWork
    BY <2>2, OnTimerRight, ConnectRight, IncomingRight, WriteRight, WriteEndRight, ReadRight, ReadEndRight
       DEF DispatchWork
  <2> QED
    BY <2>1, <2>2, OutgoingRight, ConnectFailRight, BreakRight, WriteRight, ReadFailsRight DEF DispatchNext, Msgs
<1> QED
  BY <1>1, <1>2, PTL DEF DispatchSpec

(***************************************************************************)
(* A message that was sent arrives at most once, and is lost only when a   *)
(* connection has failed or a read task has given up on a message; the     *)
(* table never names a connection to another node.                         *)
(* This is for any number of messages and connections, where two nodes     *)
(* connect to each other at the same time and idle connections are         *)
(* reclaimed (outgoing, incoming and the timers of session.rs).            *)
(***************************************************************************)
THEOREM DeliversRight == DispatchSpec => []DeliveryRight
<1>1. ASSUME DispatchInv PROVE Accounted
  <2>1. ASSUME NEW m \in sent
        PROVE  /\ arrived[m] + (IF m \in lost THEN 1 ELSE 0) + (IF Carried(m) THEN 1 ELSE 0) = 1
               /\ Cardinality({e \in Ends : m \in Elems(chan[e]) \cup Elems(wire[e])}) <= 1
    <3> DEFINE E == {e \in Ends : m \in Elems(chan[e]) \cup Elems(wire[e])}
    <3>1. m \in Msgs
      BY <1>1 DEF DispatchInv, DispatchTypes
    <3>2. arrived[m] + (IF m \in lost THEN 1 ELSE 0) + (IF Carried(m) THEN 1 ELSE 0) = 1
      BY <1>1, <3>1 DEF DispatchInv, Ledger
    <3>3. \A e, f \in E : e = f
      BY <1>1 DEF DispatchInv, OneCopy
    <3>4. E = {} \/ \E e : E = {e}
      BY <3>3
    <3>5. Cardinality(E) <= 1
      <4> HIDE DEF E
      <4>1. CASE E = {}
        BY <4>1, FS_EmptySet
      <4>2. CASE \E e : E = {e}
        BY <4>2, FS_Singleton
      <4> QED
        BY <3>4, <4>1, <4>2
    <3> QED
      BY <3>2, <3>5
  <2>2. Cardinality(lost) > 0 => faults > 0
    <3>1. CASE faults = 0
      <4>1. Cardinality(lost) = 0
        BY <1>1, <3>1, FS_EmptySet DEF DispatchInv, Faults
      <4> QED
        BY <4>1
    <3>2. CASE faults # 0
      BY <1>1, <3>2 DEF DispatchInv, DispatchTypes
    <3> QED
      BY <3>1, <3>2
  <2> QED
    BY <2>1, <2>2 DEF Accounted
<1>2. ASSUME DispatchInv PROVE TableRight
  BY <1>2 DEF DispatchInv, Entries, EntryRight, TableRight
<1>3. DispatchInv => DeliveryRight
  BY <1>1, <1>2 DEF DeliveryRight
<1> QED
  BY <1>3, DispatchInvariance, PTL
=============================================================================
