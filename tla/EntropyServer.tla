--------------------------- MODULE EntropyServer ---------------------------
(***************************************************************************)
(* The benchmark of the storage network: the servers that host its peers   *)
(* and take operations over HTTP (crates/entropy/src/main.rs), and the     *)
(* controller that starts the peers, puts an object, gets it back and      *)
(* stops the peers (tools/entropy-control/src/main.rs).                    *)
(*                                                                         *)
(* An object is encoded into N chunks of which any K restore it; chunk i   *)
(* of operation o is <<o, i>>.  The network is what ChunkStore promises:   *)
(* PutOk and GetOk come for what was put and what is stored, once, if they *)
(* come.  A server's peers are one.  Requests to servers are HTTP calls:   *)
(* any of them may fail, handled or not, and a caller may give one up at   *)
(* any moment.                                                             *)
(***************************************************************************)
EXTENDS Naturals, Sequences, SequencesExt, FiniteSets

CONSTANTS
    Servers,      \* the instances
    NumTotal,     \* the operations of the benchmark
    K, N,         \* k of n chunks restore an object
    Url,          \* Url[kind, o, i]: the server that the ith call of an operation goes to
    MaxMishaps,   \* bound: the peers that end, and the requests and decoders that fail
    MaxTimeouts   \* bound: the polls that time out at the controller

ASSUME EntropyServerAssumption == N \in Nat /\ K \in 2..N /\ NumTotal \in Nat \ {0}

Calls == {"put", "get"} \X (1..NumTotal) \X (1..N)
Benchmarks == {"put", "get"} \X (1..NumTotal)

ASSUME UrlAssumption == Url \in [Calls -> Servers]

VARIABLES
    control,    \* the controller: its phase and its current operation
    polling,    \* its outstanding poll: none, asked, or the answer on the way back
    timeouts,   \* polls that timed out so far
    sessions,   \* PeersState.sessions of a server: none, running, ended
    senders,    \* PeersState.senders has been filled
    mishaps,    \* peers that ended, and requests and decoders that failed, so far
    bench,      \* benchmark_puts and benchmark_gets: the task of an operation
    chunks,     \* PutResult.chunks: indices and chunks in the order they were joined
    fed,        \* what the decoder of an operation was given
    call,       \* the handler of a put_chunk or get_chunk call
    pending,    \* pending_puts and pending_gets: the calls with a sender there
    receivers,  \* the calls whose oneshot receiver is alive
    working,    \* the calls that a peer works on
    upcalls,    \* PutOk and GetOk in the upcall channel
    broken      \* what went wrong: an "assert", the "upcall" session or a lookup ("key",
                \* "peer") panicked, or a decoder wanted more than there is ("recover")

controlVars == <<control, polling, timeouts>>
peersVars == <<sessions, senders, mishaps>>
benchVars == <<bench, chunks, fed>>
handlerVars == <<call, pending, receivers, working, upcalls>>
serverVars == <<control, polling, timeouts, sessions, senders, mishaps, bench, chunks, fed,
                call, pending, receivers, working, upcalls, broken>>

ServerInit ==
    /\ control = [phase |-> "starting", op |-> 1]
    /\ polling = "none" /\ timeouts = 0
    /\ sessions = [s \in Servers |-> "none"]
    /\ senders = [s \in Servers |-> FALSE]
    /\ mishaps = 0
    /\ bench = [b \in Benchmarks |-> "none"]
    /\ chunks = [o \in 1..NumTotal |-> <<>>]
    /\ fed = [o \in 1..NumTotal |-> {}]
    /\ call = [x \in Calls |-> "none"]
    /\ pending = {} /\ receivers = {} /\ working = {} /\ upcalls = {}
    /\ broken = {}

Server(x) == Url[x]
Current(kind) == <<kind, control.op>>
Fail == control' = [control EXCEPT !.phase = "failed"]
Mishap == mishaps < MaxMishaps /\ mishaps' = mishaps + 1

-----------------------------------------------------------------------------
(* Peers *)

(* start_peers, at any time after the controller has asked for it. *)
StartPeers(s) ==
    /\ ~senders[s]
    /\ control.phase \notin {"stopping", "done", "failed"}
    /\ IF sessions[s] = "none"
       THEN /\ senders' = [senders EXCEPT ![s] = TRUE]
            /\ sessions' = [sessions EXCEPT ![s] = "running"]
            /\ UNCHANGED broken
       ELSE /\ broken' = broken \cup {"assert"}  \* sessions.is_empty()
            /\ UNCHANGED <<senders, sessions>>
    /\ UNCHANGED <<controlVars, mishaps, benchVars, handlerVars>>

(* start_peer: one of the sessions of a peer ends, and the peer with it. *)
PeerDies(s) ==
    /\ sessions[s] = "running"
    /\ Mishap
    /\ sessions' = [sessions EXCEPT ![s] = "ended"]
    /\ UNCHANGED <<controlVars, senders, benchVars, handlerVars, broken>>

(* ok joins the session that ended; the controller gives up while it waits *)
(* for the start, and does not listen to the watchdogs later.              *)
Ok(s) ==
    /\ sessions[s] = "ended"
    /\ control.phase \notin {"stopping", "done", "failed"}
    /\ sessions' = [sessions EXCEPT ![s] = "none"]
    /\ IF control.phase = "starting" THEN Fail ELSE UNCHANGED control
    /\ UNCHANGED <<polling, timeouts, senders, mishaps, benchVars, handlerVars, broken>>

(* The request to start the peers of a server fails, or one to its ok, other *)
(* than by a timeout; the controller gives up while it waits for the start.  *)
StartFails ==
    /\ control.phase = "starting"
    /\ Fail /\ Mishap
    /\ UNCHANGED <<polling, timeouts, sessions, senders, benchVars, handlerVars, broken>>

StopPeers(s) ==
    /\ control.phase = "stopping"
    /\ senders[s]
    /\ sessions' = [sessions EXCEPT ![s] = "none"]
    /\ senders' = [senders EXCEPT ![s] = FALSE]
    /\ UNCHANGED <<controlVars, mishaps, benchVars, handlerVars, broken>>

(* The request to stop them fails, and the benchmark with it: the handler is *)
(* dropped before it has the lock, or after the shutdown, before the clear,  *)
(* or its answer is lost.                                                    *)
StopFails(s) ==
    /\ control.phase = "stopping"
    /\ Fail /\ Mishap
    /\ sessions' \in {sessions, [sessions EXCEPT ![s] = "none"]}
    /\ UNCHANGED <<polling, timeouts, senders, benchVars, handlerVars, broken>>

-----------------------------------------------------------------------------
(* put_chunk and get_chunk *)

(* The sender is stored; then the handler waits for the lock on the peers. *)
HandlerInsert(x) ==
    /\ call[x] = "called"
    /\ call' = [call EXCEPT ![x] = "inserted"]
    /\ pending' = pending \cup {x}
    /\ receivers' = receivers \cup {x}
    /\ broken' = IF x \in pending THEN broken \cup {"assert"} ELSE broken
    /\ UNCHANGED <<controlVars, peersVars, benchVars, working, upcalls>>

(* The operation goes to the peer and the receiver to a task of its own. *)
HandlerSend(x) ==
    LET peer == sessions[Server(x)]
    IN  /\ call[x] = "inserted"
        /\ IF senders[Server(x)] /\ peer = "running"
           THEN /\ call' = [call EXCEPT ![x] = "sent"]
                /\ working' = working \cup {x}
                /\ UNCHANGED <<receivers, broken>>
           ELSE /\ call' = [call EXCEPT ![x] = "failed"]
                /\ receivers' = receivers \ {x}
                /\ broken' = IF senders[Server(x)] THEN broken ELSE broken \cup {"peer"}
                /\ UNCHANGED working
        /\ UNCHANGED <<controlVars, peersVars, benchVars, pending, upcalls>>

(* The caller has gone: what the handler still owns is dropped. *)
GivenUp(x) ==
    /\ call[x] \in {"called", "inserted", "sent", "answered"}
    /\ bench[<<x[1], x[2]>>] # "running"

(* The mutant drops the receiver with the handler at any time. *)
HandlerDroppedWhole(x) ==
    /\ GivenUp(x)
    /\ call' = [call EXCEPT ![x] = "none"]
    /\ receivers' = receivers \ {x}
    /\ UNCHANGED <<controlVars, peersVars, benchVars, pending, working, upcalls, broken>>

HandlerDropped(x) ==
    /\ GivenUp(x)
    /\ call' = [call EXCEPT ![x] = "none"]
    /\ receivers' = IF call[x] = "inserted" THEN receivers \ {x} ELSE receivers
    /\ UNCHANGED <<controlVars, peersVars, benchVars, pending, working, upcalls, broken>>

(* The network has stored, or found, the chunk; it may never come to that: *)
(* an offer nobody takes is dropped (bulk.rs:201) and not made again.      *)
StoreAnswers(x) ==
    /\ x \in working
    /\ sessions[Server(x)] = "running"
    /\ working' = working \ {x}
    /\ upcalls' = upcalls \cup {x}
    /\ UNCHANGED <<controlVars, peersVars, benchVars, call, pending, receivers, broken>>

(* The upcall session: remove(&chunk).unwrap().send(..).unwrap() *)
UpcallSession(x) ==
    /\ x \in upcalls
    /\ upcalls' = upcalls \ {x}
    /\ pending' = pending \ {x}
    /\ receivers' = receivers \ {x}
    /\ broken' = IF x \in pending \cap receivers THEN broken ELSE broken \cup {"upcall"}
    /\ call' = IF call[x] = "sent" THEN [call EXCEPT ![x] = "answered"] ELSE call
    /\ UNCHANGED <<controlVars, peersVars, benchVars, working>>

-----------------------------------------------------------------------------
(* The tasks of benchmark_put and benchmark_get *)

(* The chunk a call is about: a get reads the chunks in the order of the put's result. *)
ChunkOf(x) == IF x[1] = "put" THEN <<x[2], x[3]>> ELSE chunks[x[2]][x[3]].chunk

(* The index that a call's task returns with the chunk. *)
IndexOf(x) == IF x[1] = "put" THEN x[3] ELSE chunks[x[2]][x[3]].index

(* A put is done when all chunks are, a get as soon as the decoder has     *)
(* enough; an error ends either.  The calls still out are given up.        *)
JoinPut(x) ==
    /\ x[1] = "put"
    /\ chunks' = [chunks EXCEPT ![x[2]] = Append(@, [index |-> IndexOf(x), chunk |-> ChunkOf(x)])]
    /\ bench' = [bench EXCEPT ![<<"put", x[2]>>] = IF Len(chunks[x[2]]) + 1 = N THEN "ok" ELSE @]
    /\ UNCHANGED <<fed, mishaps, broken>>

(* Every call of a benchmark has been joined. *)
AllJoined(b) == \A i \in 1..N : call[<<b[1], b[2], i>>] = "joined"

(* The decoder needs K chunks at least, and may need more: there may be no *)
(* more.  It, and the recovery, may also err.                              *)
Decoded(b) ==
    /\ Cardinality(fed'[b[2]]) >= K
    /\ bench' = [bench EXCEPT ![b] = "ok"]
    /\ UNCHANGED <<mishaps, broken>>

DecodeFails(b) ==
    /\ Mishap
    /\ bench' = [bench EXCEPT ![b] = "err"]
    /\ UNCHANGED broken

WantsMore(b) ==
    /\ IF AllJoined(b)'
       THEN bench' = [bench EXCEPT ![b] = "err"] /\ broken' = broken \cup {"recover"}
       ELSE UNCHANGED <<bench, broken>>
    /\ UNCHANGED mishaps

JoinGet(x) ==
    LET b == <<x[1], x[2]>>
    IN  /\ x[1] = "get"
        /\ fed' = [fed EXCEPT ![x[2]] = @ \cup {[index |-> IndexOf(x), chunk |-> ChunkOf(x)]}]
        /\ Decoded(b) \/ DecodeFails(b) \/ WantsMore(b)
        /\ UNCHANGED chunks

Join(x) ==
    /\ bench[<<x[1], x[2]>>] = "running"
    /\ call[x] = "answered"
    /\ call' = [call EXCEPT ![x] = "joined"]
    /\ JoinPut(x) \/ JoinGet(x)
    /\ UNCHANGED <<controlVars, sessions, senders, pending, receivers, working, upcalls>>

(* The mutant goes on to the other calls after an error. *)
JoinErrorSkipped(x) ==
    /\ bench[<<x[1], x[2]>>] = "running"
    /\ call[x] = "failed"
    /\ call' = [call EXCEPT ![x] = "joined"]
    /\ UNCHANGED <<controlVars, peersVars, benchVars, pending, receivers, working, upcalls, broken>>

JoinError(x) ==
    /\ bench[<<x[1], x[2]>>] = "running"
    /\ call[x] = "failed"
    /\ bench' = [bench EXCEPT ![<<x[1], x[2]>>] = "err"]
    /\ UNCHANGED <<controlVars, peersVars, chunks, fed, handlerVars, broken>>

(* The call fails on its way there or back, or the chunk is not encoded; the *)
(* task ends, and the handler if there is one is given up like the others.   *)
CallFails(x) ==
    /\ bench[<<x[1], x[2]>>] = "running"
    /\ call[x] \in {"called", "inserted", "sent", "answered"}
    /\ bench' = [bench EXCEPT ![<<x[1], x[2]>>] = "err"]
    /\ Mishap
    /\ UNCHANGED <<controlVars, sessions, senders, chunks, fed, handlerVars, broken>>

-----------------------------------------------------------------------------
(* The controller *)

(* 1.2 s after the requests to start the peers went out. *)
ControlGo ==
    /\ control.phase = "starting"
    /\ control' = [control EXCEPT !.phase = "put"]
    /\ UNCHANGED <<polling, timeouts, peersVars, benchVars, handlerVars, broken>>

PollPhase == [put |-> "poll-put", get |-> "poll-get"]

(* benchmark_put, benchmark_get: the server starts the task and its calls. *)
Spawned(kind) ==
    /\ bench' = [bench EXCEPT ![Current(kind)] = "running"]
    /\ call' = [x \in Calls |-> IF <<x[1], x[2]>> = Current(kind) THEN "called" ELSE call[x]]

Begin(kind) ==
    /\ control.phase = kind
    /\ control' = [control EXCEPT !.phase = PollPhase[kind]]
    /\ Spawned(kind)
    /\ UNCHANGED <<polling, timeouts, peersVars, chunks, fed, pending, receivers, working,
                   upcalls, broken>>

(* The request fails or times out, with the task started or not. *)
BeginFails(kind) ==
    /\ control.phase = kind
    /\ Fail /\ Mishap
    /\ Spawned(kind) \/ UNCHANGED <<bench, call>>
    /\ UNCHANGED <<polling, timeouts, sessions, senders, chunks, fed, pending, receivers, working,
                   upcalls, broken>>

PollAsk(kind) ==
    /\ control.phase = PollPhase[kind]
    /\ polling = "none"
    /\ polling' = "asked"
    /\ UNCHANGED <<control, timeouts, peersVars, benchVars, handlerVars, broken>>

(* poll_benchmark_put, poll_benchmark_get: a finished task is removed. *)
PollHandle(kind) ==
    LET b == Current(kind)
    IN  /\ control.phase = PollPhase[kind]
        /\ polling = "asked"
        /\ polling' = CASE bench[b] = "running" -> "pending"
                        [] bench[b] = "ok" -> "result"
                        [] OTHER -> "error"
        /\ bench' = IF bench[b] = "running" THEN bench ELSE [bench EXCEPT ![b] = "removed"]
        /\ broken' = IF bench[b] = "removed" THEN broken \cup {"key"} ELSE broken
        /\ UNCHANGED <<control, timeouts, peersVars, chunks, fed, handlerVars>>

(* The poll times out at the controller, answered or not; it polls again. *)
PollTimeout ==
    /\ polling # "none" /\ timeouts < MaxTimeouts
    /\ timeouts' = timeouts + 1
    /\ polling' = "none"
    /\ UNCHANGED <<control, peersVars, benchVars, handlerVars, broken>>

(* The poll fails otherwise, answered or not. *)
PollFails ==
    /\ polling # "none"
    /\ polling' = "none"
    /\ Fail /\ Mishap
    /\ UNCHANGED <<timeouts, sessions, senders, benchVars, handlerVars, broken>>

(* The digest is right if every chunk went to the decoder under its own index. *)
DigestRight == \A e \in fed[control.op] : e.chunk = <<control.op, e.index>>

PollAnswer(kind) ==
    /\ control.phase = PollPhase[kind]
    /\ polling \in {"pending", "result", "error"}
    /\ polling' = "none"
    /\ CASE polling = "pending" -> UNCHANGED control
         [] polling = "error" -> Fail
         [] polling = "result" /\ kind = "put" -> control' = [control EXCEPT !.phase = "get"]
         [] polling = "result" /\ kind = "get" ->
              IF ~DigestRight THEN Fail
              ELSE IF control.op < NumTotal
              THEN control' = [phase |-> "put", op |-> control.op + 1]
              ELSE control' = [control EXCEPT !.phase = "stopping"]
    /\ UNCHANGED <<timeouts, peersVars, benchVars, handlerVars, broken>>

ControlDone ==
    /\ control.phase = "stopping"
    /\ \A s \in Servers : ~senders[s]
    /\ control' = [control EXCEPT !.phase = "done"]
    /\ UNCHANGED <<polling, timeouts, peersVars, benchVars, handlerVars, broken>>

-----------------------------------------------------------------------------
HandlerWork(x) ==
    \/ HandlerInsert(x) \/ HandlerSend(x) \/ HandlerDropped(x)
    \/ UpcallSession(x) \/ Join(x) \/ JoinError(x)

ControlWork ==
    \/ ControlGo \/ ControlDone
    \/ \E kind \in {"put", "get"} :
          Begin(kind) \/ PollAsk(kind) \/ PollHandle(kind) \/ PollAnswer(kind)

(* What the servers do in time; the controller polls meanwhile. *)
ServerWork ==
    \/ \E s \in Servers : StartPeers(s) \/ Ok(s) \/ StopPeers(s)
    \/ \E x \in Calls : HandlerWork(x)

(* What nobody is sure of: a request fails, a poll times out, a peer dies. *)
Failure ==
    \/ StartFails \/ PollFails \/ PollTimeout
    \/ \E s \in Servers : StopFails(s) \/ PeerDies(s)
    \/ \E kind \in {"put", "get"} : BeginFails(kind)
    \/ \E x \in Calls : CallFails(x)

ServerNext ==
    \/ ServerWork
    \/ ControlWork
    \/ \E x \in Calls : StoreAnswers(x)
    \/ Failure

ServerSpec == ServerInit /\ [][ServerNext]_serverVars

-----------------------------------------------------------------------------
(* Properties *)

(***************************************************************************)
(* Every PutOk and GetOk finds its sender and a living receiver, also when *)
(* the caller has given up because it had enough chunks, when the handler  *)
(* is dropped between storing the sender and sending the operation, and    *)
(* when peers are stopped with gets under way; no assertion fails.         *)
(***************************************************************************)
UpcallsServed == broken \cap {"upcall", "assert"} = {}

(***************************************************************************)
(* As long as no request fails, no peer ends and the decoder does with the *)
(* chunks it gets, a benchmark fails only when it ran ahead of start-peers *)
(* or when the answer that carried a result was lost to a timeout.  It     *)
(* never fails because callers give up, chunks are read back in another    *)
(* order than they were written, or a poll without a result times out.     *)
(***************************************************************************)
FailsWithCause ==
    control.phase = "failed" =>
        \/ mishaps > 0
        \/ broken \cap {"peer", "recover"} # {}
        \/ "key" \in broken /\ timeouts > 0

(* A running benchmark waits for a chunk that the network has not stored or *)
(* found: it may never, and no call to it has a timeout.                    *)
Waiting == \E x \in working : bench[<<x[1], x[2]>>] = "running"

(***************************************************************************)
(* Once started the controller waits for the network only: a benchmark it  *)
(* begins comes to its result or fails, and the peers are stopped, unless  *)
(* a chunk is waited for to the end.  No answer is lost on its way from    *)
(* the peer to the controller, and no failed call leaves it polling.       *)
(***************************************************************************)
BenchmarkEnds == <>[](control.phase \in {"starting", "done", "failed"} \/ Waiting)

(***************************************************************************)
(* The servers withstand callers that give up at any await, and the        *)
(* benchmark fails for a cause only (main.rs:404, 536).                    *)
(***************************************************************************)
BenchmarkSound == UpcallsServed /\ FailsWithCause
=============================================================================
