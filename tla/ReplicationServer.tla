------------------------- MODULE ReplicationServer -------------------------
(***************************************************************************)
(* The benchmark of the replication protocols: servers that run a replica  *)
(* or a group of close-loop clients on request (src/main.rs), and the      *)
(* controller that starts the replicas and the clients, waits for the      *)
(* result beside a watchdog per server and stops the replicas, round after *)
(* round (tools/replication-control/src/main.rs).                          *)
(*                                                                         *)
(* Handlers hold a std mutex and do not wait while they do, except where   *)
(* they await a session that they have taken.                              *)
(***************************************************************************)
EXTENDS Naturals, FiniteSets

CONSTANTS
    NumReplicas,   \* the replicas the protocol has
    Loops,         \* the close loops of the client server
    NumRounds,     \* the benchmarks run one after the other
    MaxFailures,   \* bound: sessions of clients or replicas that fail
    NoResult       \* benchmark_result when it is None

ASSUME NumReplicasAssumption == NumReplicas \in Nat \ {0}
ASSUME LoopsAssumption == IsFiniteSet(Loops)

TheClient == 0
Hosts == 0..NumReplicas  \* the client server and the replicas

VARIABLES
    benchmark,   \* the controller: round, phase and the replica it is at
    watched,     \* the hosts with a watchdog session
    received,    \* the results the controller has received, by round
    session,     \* AppState.session: none, or how the session stands
    result,      \* AppState.benchmark_result of the client server
    main,        \* client_session: idle, running, barrier, published
    client,      \* client[l]: the client and receive tasks of close loop l
    loop,        \* loop[l]: the task of close loop l
    latencies,   \* the loops that have handed in their latencies
    failures,    \* sessions that failed
    panics,      \* handlers that panicked
    timedOut     \* a request of the controller timed out

groupVars == <<main, client, loop, latencies>>
replVars == <<benchmark, watched, received, session, result, main, client, loop, latencies,
              failures, panics, timedOut>>

Phase == benchmark.phase
At(phase) == benchmark.phase = phase
Go(phase) == benchmark' = [benchmark EXCEPT !.phase = phase]

ReplInit ==
    /\ benchmark = [round |-> 1, phase |-> "replicas", replica |-> 1]
    /\ watched = {}
    /\ received = [n \in 1..NumRounds |-> NoResult]
    /\ session = [h \in Hosts |-> "none"]
    /\ result = NoResult
    /\ main = "idle"
    /\ client = [l \in Loops |-> "none"]
    /\ loop = [l \in Loops |-> "none"]
    /\ latencies = {}
    /\ failures = 0 /\ panics = {} /\ timedOut = FALSE

-----------------------------------------------------------------------------
(* The group of clients: client_session and spawn_client_sessions *)

(* A client's handler returns an error, or its socket does. *)
ClientFails(l) ==
    /\ failures < MaxFailures
    /\ client[l] = "running" /\ main \in {"running", "barrier"}
    /\ failures' = failures + 1
    /\ client' = [client EXCEPT ![l] = "err"]
    /\ UNCHANGED <<benchmark, watched, received, session, result, main, loop, latencies, panics, timedOut>>

(* The close loop sends an Invoke to a client that is gone. *)
LoopFails(l) ==
    /\ loop[l] = "running" /\ client[l] = "err"
    /\ loop' = [loop EXCEPT ![l] = "err"]
    /\ UNCHANGED <<benchmark, watched, received, session, result, main, client, latencies,
                   failures, panics, timedOut>>

(* The mutant leaves without waiting at the barrier. *)
LoopStopsAway(l) ==
    /\ main = "barrier" /\ loop[l] = "running"
    /\ latencies' = latencies \cup {l}
    /\ loop' = [loop EXCEPT ![l] = "none"]
    /\ UNCHANGED <<benchmark, watched, received, session, result, main, client, failures, panics, timedOut>>

(* stop.cancelled(): latencies are handed in, then the barrier. *)
LoopStops(l) ==
    /\ main = "barrier" /\ loop[l] = "running"
    /\ latencies' = latencies \cup {l}
    /\ loop' = [loop EXCEPT ![l] = "barrier"]
    /\ UNCHANGED <<benchmark, watched, received, session, result, main, client, failures, panics, timedOut>>

TaskFailed == \E l \in Loops : client[l] = "err" \/ loop[l] = "err"

(* A task that ends within the second ends the session with an error. *)
MainFails ==
    /\ main = "running" /\ TaskFailed
    /\ main' = "idle"
    /\ session' = [session EXCEPT ![TheClient] = IF @ = "running" THEN "err" ELSE @]
    /\ client' = [l \in Loops |-> "none"] /\ loop' = [l \in Loops |-> "none"]
    /\ UNCHANGED <<benchmark, watched, received, result, latencies, failures, panics, timedOut>>

(* The second is over: stop.cancel(), barrier.wait(). *)
MainStops ==
    /\ main = "running"
    /\ main' = "barrier"
    /\ UNCHANGED <<benchmark, watched, received, session, result, client, loop, latencies,
                   failures, panics, timedOut>>

BarrierSize == Cardinality(Loops) + 1

(* Past the barrier: sessions.shutdown(), then the result is published. *)
MainPublishes ==
    /\ main = "barrier"
    /\ Cardinality({l \in Loops : loop[l] = "barrier"}) + 1 >= BarrierSize
    /\ main' = "published"
    /\ result' = [round |-> benchmark.round, loops |-> latencies]
    /\ client' = [l \in Loops |-> "none"] /\ loop' = [l \in Loops |-> "none"]
    /\ UNCHANGED <<benchmark, watched, received, session, latencies, failures, panics, timedOut>>

(* The task that the JoinHandle stands for is finished. *)
MainReturns ==
    /\ main = "published"
    /\ main' = "idle"
    /\ session' = [session EXCEPT ![TheClient] = IF @ = "running" THEN "ok" ELSE @]
    /\ UNCHANGED <<benchmark, watched, received, result, client, loop, latencies, failures, panics, timedOut>>

(* replica_session: one of its tasks ends. *)
ReplicaFails(h) ==
    /\ failures < MaxFailures
    /\ h # TheClient /\ session[h] = "running"
    /\ failures' = failures + 1
    /\ session' = [session EXCEPT ![h] = "err"]
    /\ UNCHANGED <<benchmark, watched, received, result, groupVars, panics, timedOut>>

-----------------------------------------------------------------------------
(* Requests of the controller *)

(* start-replica has answered: the next replica, or time to settle. *)
Started(h) == IF h < NumReplicas THEN [benchmark EXCEPT !.replica = @ + 1]
              ELSE [benchmark EXCEPT !.phase = "settle"]

StartReplica ==
    LET h == benchmark.replica
    IN  /\ At("replicas")
        /\ panics' = IF session[h] = "none" THEN panics ELSE panics \cup {"replaced"}
        /\ session' = [session EXCEPT ![h] = "running"]
        /\ watched' = watched \cup {h}
        /\ benchmark' = Started(h)
        /\ UNCHANGED <<received, result, groupVars, failures, timedOut>>

(* 1.2 s later: start_client clears the result and spawns the session. *)
StartClient ==
    /\ At("settle")
    /\ panics' = IF session[TheClient] = "none" THEN panics ELSE panics \cup {"replaced"}
    /\ session' = [session EXCEPT ![TheClient] = "running"]
    /\ result' = NoResult
    /\ main' = "running" /\ latencies' = {}
    /\ client' = [l \in Loops |-> "running"] /\ loop' = [l \in Loops |-> "running"]
    /\ watched' = watched \cup {TheClient}
    /\ Go("result")
    /\ UNCHANGED <<received, failures, timedOut>>

(* ok: a finished session is taken, and its error is the handler's, which  *)
(* ends the watchdog.                                                      *)
OkTakes(h) ==
    /\ h \in watched /\ session[h] \in {"ok", "err"}
    /\ session' = [session EXCEPT ![h] = "none"]
    /\ watched' = IF session[h] = "err" THEN watched \ {h} ELSE watched
    /\ UNCHANGED <<benchmark, received, result, groupVars, failures, panics, timedOut>>

(* The controller looks after its watchdogs while it waits for something. *)
WatchdogJoined ==
    /\ \/ At("settle") /\ ~(Hosts \ {TheClient} \subseteq watched)
       \/ Phase \in {"result", "taken"} /\ ~(Hosts \subseteq watched)
    /\ Go("failed")
    /\ UNCHANGED <<watched, received, session, result, groupVars, failures, panics, timedOut>>

(* The mutant leaves the session where it is. *)
TakeResultOnly ==
    /\ At("result") /\ result # NoResult
    /\ result' = NoResult
    /\ received' = [received EXCEPT ![benchmark.round] = result]
    /\ Go("taken")
    /\ UNCHANGED <<watched, session, groupVars, failures, panics, timedOut>>

(* take_benchmark_result: the session must still be there, then is awaited. *)
TakeResult ==
    /\ At("result") /\ result # NoResult
    /\ result' = NoResult
    /\ IF session[TheClient] = "none"
       THEN /\ panics' = panics \cup {"take"}
            /\ Go("failed")
            /\ UNCHANGED <<session, received>>
       ELSE /\ session' = [session EXCEPT ![TheClient] = "none"]
            /\ received' = [received EXCEPT ![benchmark.round] = result]
            /\ Go("taken")
            /\ UNCHANGED panics
    /\ UNCHANGED <<watched, groupVars, failures, timedOut>>

TakeAnswered ==
    /\ At("taken") /\ main = "idle"
    /\ benchmark' = [benchmark EXCEPT !.phase = "stop", !.replica = 1]
    /\ UNCHANGED <<watched, received, session, result, groupVars, failures, panics, timedOut>>

(* stop-replica has answered: the next replica, or the end of the round. *)
Stopped(h) ==
    IF h < NumReplicas THEN [benchmark EXCEPT !.replica = @ + 1]
    ELSE IF benchmark.round < NumRounds
    THEN [round |-> benchmark.round + 1, phase |-> "replicas", replica |-> 1]
    ELSE [benchmark EXCEPT !.phase = "done"]

(* stop_replica: take().unwrap(), cancel, and the session's own result. *)
StopReplica ==
    LET h == benchmark.replica
    IN  /\ At("stop")
        /\ session' = [session EXCEPT ![h] = "none"]
        /\ IF session[h] = "running"
           THEN /\ benchmark' = Stopped(h)
                /\ watched' = IF h < NumReplicas THEN watched ELSE {}
           ELSE Go("failed") /\ UNCHANGED watched
        /\ panics' = IF session[h] = "none" THEN panics \cup {"stop"} ELSE panics
        /\ UNCHANGED <<received, result, groupVars, failures, timedOut>>

(* The client library gives a request one second. *)
RequestTimesOut ==
    /\ Phase \notin {"done", "failed"}
    /\ timedOut' = TRUE
    /\ Go("failed")
    /\ UNCHANGED <<watched, received, session, result, groupVars, failures, panics>>

-----------------------------------------------------------------------------
ReplWork ==
    \/ \E l \in Loops : LoopStops(l)
    \/ MainFails \/ MainStops \/ MainPublishes \/ MainReturns
    \/ StartReplica \/ StartClient
    \/ WatchdogJoined \/ TakeResult \/ TakeAnswered \/ StopReplica

ReplNext ==
    \/ ReplWork
    \/ \E l \in Loops : ClientFails(l) \/ LoopFails(l)
    \/ \E h \in Hosts : ReplicaFails(h) \/ OkTakes(h)
    \/ RequestTimesOut

ReplSpec == ReplInit /\ [][ReplNext]_replVars

-----------------------------------------------------------------------------
(* Properties *)

(***************************************************************************)
(* A result that the controller receives is of the round it asks for and   *)
(* counts every close loop, whatever the order in which loops stop, the    *)
(* session goes on and the polls arrive.                                   *)
(***************************************************************************)
ResultsWhole ==
    \A n \in 1..NumRounds : received[n] # NoResult =>
        received[n] = [round |-> n, loops |-> Loops]

(***************************************************************************)
(* No session is replaced by another, round after round, and a benchmark   *)
(* fails only if a session did, if a request timed out, or if a watchdog   *)
(* took the session of the clients before their result was asked for.      *)
(***************************************************************************)
RoundsApart ==
    /\ "replaced" \notin panics
    /\ Phase = "failed" => failures > 0 \/ timedOut \/ "take" \in panics

(***************************************************************************)
(* Rounds do not mix: sessions, results and failures are of the round they *)
(* are taken for (main.rs:82, 336).                                        *)
(***************************************************************************)
RoundsSound == ResultsWhole /\ RoundsApart

(***************************************************************************)
(* The clients' session comes to its result and the benchmark to its end,  *)
(* unless a client fails: a close loop that ends with an error does not    *)
(* reach the barrier.                                                      *)
(***************************************************************************)
RoundsEnd == <>[](Phase \in {"replicas", "done", "failed"} \/ failures > 0)

(***************************************************************************)
(* take_benchmark_result expects the session whose result it has taken     *)
(* (`session.lock().unwrap().take().unwrap()`).                            *)
(***************************************************************************)
SessionAtHand == "take" \notin panics
=============================================================================
