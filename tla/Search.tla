------------------------------- MODULE Search -------------------------------
(***************************************************************************)
(* The parallel searches of search.rs.  Breadth first: worker threads      *)
(* expand the states of one depth from a shared queue, push what they      *)
(* discover to another one, meet at a barrier and swap the queues.  Random *)
(* depth first: each worker walks from the initial state again and again.  *)
(* The main thread of either waits for a result or for the time limit,     *)
(* raises the flag that ends the search and joins the workers.             *)
(*                                                                         *)
(* The system searched is a graph: `succ` the states its events lead to,   *)
(* `fails` the states with an event whose step returns an error, `bad` the *)
(* states that violate the invariant, `goal` and `prune` the other         *)
(* settings.  A state and its dry state are one.  Of the search itself,    *)
(* `random` says that it is the random one, `limit` that max_duration is   *)
(* given (it may pass at any moment), and `prompt` that the sleep at 427   *)
(* is long enough for the other workers to make the checks before it, as   *)
(* the code hopes.                                                         *)
(***************************************************************************)
EXTENDS Naturals, Sequences, FiniteSets

CONSTANTS
    Nodes,     \* states of the systems to search
    Initial,   \* initial_state
    Systems,   \* the searches: records with succ, fails, bad, goal, prune, random, limit, prompt
    MaxDepth,  \* settings.max_depth
    Workers,   \* the worker threads
    None       \* no state, no result

ASSUME SystemsAssumption ==
    /\ Initial \in Nodes
    /\ \A y \in Systems : /\ y.succ \in [Nodes -> SUBSET Nodes]
                          /\ y.fails \subseteq Nodes /\ y.bad \subseteq Nodes
                          /\ y.goal \subseteq Nodes /\ y.prune \subseteq Nodes
                          /\ y.random \in BOOLEAN /\ y.limit \in BOOLEAN /\ y.prompt \in BOOLEAN
ASSUME WorkersAssumption == Workers # {} /\ IsFiniteSet(Workers)
ASSUME DepthAssumption == MaxDepth \in Nat \ {0}
ASSUME NoneAssumption ==
    /\ None \notin {"Error", "InvariantViolation", "GoalFound"}
    /\ None # [kind |-> "SpaceExhausted", state |-> None]
    /\ None \notin [prev : Nodes \cup {None}, depth : 0..MaxDepth]

VARIABLES
    sys,         \* the system being searched and the settings
    discovered,  \* discovered: the state it was reached from and the depth, or None
    queues,      \* the two queues
    result,      \* search_finished.0
    flag,        \* search_finished.2
    worker,      \* the local state of every worker
    waiting,     \* the workers waiting at the barrier
    main,        \* where the main thread is
    outcome      \* what search_internal returns

searchVars == <<sys, discovered, queues, result, flag, worker, waiting, main, outcome>>

Error(n) == [kind |-> "Error", state |-> n]
InvariantViolation(n) == [kind |-> "InvariantViolation", state |-> n]
GoalFound(n) == [kind |-> "GoalFound", state |-> n]
SpaceExhausted == [kind |-> "SpaceExhausted", state |-> None]
Timeout == [kind |-> "Timeout", state |-> None]

(* `queue` is the queue popped from, the other one is `pushing_queue`;     *)
(* `trace` is the walk of a random worker.                                 *)
InitWorker ==
    [pc |-> IF sys.random THEN "probe" ELSE "pop", queue |-> 1, depth |-> 0, state |-> None,
     events |-> {}, next |-> None, trace |-> <<>>]

SearchInit ==
    /\ sys \in Systems
    /\ discovered = [n \in Nodes |-> IF n = Initial THEN [prev |-> None, depth |-> 0] ELSE None]
    /\ queues = <<<<Initial>>, <<>>>>
    /\ result = None /\ flag = FALSE
    /\ worker = [w \in Workers |-> InitWorker]
    /\ waiting = {}
    /\ main = "wait" /\ outcome = None

-----------------------------------------------------------------------------
(* Workers *)

At(w, pc) == worker[w].pc = pc

Becomes(w, local) == worker' = [worker EXCEPT ![w] = local]

Goto(w, pc) == Becomes(w, [worker[w] EXCEPT !.pc = pc])

Queue(w) == worker[w].queue
PushingQueue(w) == 3 - worker[w].queue

(* The events of a state: the states they lead to, or an error. *)
Events(n) == {[fails |-> FALSE, to |-> m] : m \in sys.succ[n]}
                \cup (IF n \in sys.fails THEN {[fails |-> TRUE, to |-> None]} ELSE {})

(* search_finish: the first result is kept; then the flag is raised, at    *)
(* pc "leave" (to the barrier), "quit" (the thread) or "done" (the walk).  *)
SearchFinish(w, res, pc) ==
    /\ result' = IF result = None THEN res ELSE result
    /\ Goto(w, pc)

(* Mutant: a worker with a result does not go to the barrier any more. *)
RaiseFlagQuit(w) ==
    /\ At(w, "leave") \/ At(w, "quit")
    /\ flag' = TRUE
    /\ Goto(w, "exit")
    /\ UNCHANGED <<sys, discovered, queues, result, waiting, main, outcome>>

RaiseFlag(w) ==
    /\ At(w, "leave") \/ At(w, "quit") \/ At(w, "done")
    /\ flag' = TRUE
    /\ Goto(w, IF At(w, "leave") THEN "arrive" ELSE IF At(w, "done") THEN "probe" ELSE "exit")
    /\ UNCHANGED <<sys, discovered, queues, result, waiting, main, outcome>>

Pop(w) ==
    /\ At(w, "pop")
    /\ IF queues[Queue(w)] = <<>>
       THEN Goto(w, "arrive") /\ UNCHANGED queues
       ELSE LET n == Head(queues[Queue(w)])
            IN  /\ queues' = [queues EXCEPT ![Queue(w)] = Tail(@)]
                /\ Becomes(w, [worker[w] EXCEPT !.pc = "expand", !.state = n, !.events = Events(n)])
    /\ UNCHANGED <<sys, discovered, result, flag, waiting, main, outcome>>

(* What is noted with a state discovered by w. *)
Info(w) == [prev |-> worker[w].state, depth |-> worker[w].depth + 1]

(* One event: step, then insert the new state unless it is there already. *)
Step(w, e) ==
    /\ At(w, "expand")
    /\ e \in worker[w].events
    /\ IF e.fails
       THEN SearchFinish(w, Error(worker[w].state), "leave") /\ UNCHANGED discovered
       ELSE /\ Becomes(w, [worker[w] EXCEPT !.events = @ \ {e},
                              !.pc = IF discovered[e.to] = None THEN "check" ELSE "expand",
                              !.next = e.to])
            /\ discovered' = IF discovered[e.to] # None THEN discovered
                             ELSE [discovered EXCEPT ![e.to] = Info(w)]
            /\ UNCHANGED result
    /\ UNCHANGED <<sys, queues, flag, waiting, main, outcome>>

Pushes(w, n) == worker[w].depth + 1 # MaxDepth /\ n \notin sys.prune

Check(w) ==
    LET n == worker[w].next
    IN  /\ At(w, "check")
        /\ IF n \in sys.bad
           THEN SearchFinish(w, InvariantViolation(n), "leave") /\ UNCHANGED queues
           ELSE IF n \in sys.goal
           THEN SearchFinish(w, GoalFound(n), "leave") /\ UNCHANGED queues
           ELSE /\ queues' = IF Pushes(w, n)
                             THEN [queues EXCEPT ![PushingQueue(w)] = Append(@, n)]
                             ELSE queues
                /\ Goto(w, "expand")
                /\ UNCHANGED result
        /\ UNCHANGED <<sys, discovered, flag, waiting, main, outcome>>

(* The events are through: look at the flag, and go on or leave. *)
EndState(w) ==
    /\ At(w, "expand") /\ worker[w].events = {}
    /\ Goto(w, IF flag THEN "arrive" ELSE "pop")
    /\ UNCHANGED <<sys, discovered, queues, result, flag, waiting, main, outcome>>

(* Mutant: nobody waits. *)
ArriveFree(w) ==
    /\ At(w, "arrive")
    /\ Goto(w, "flag")
    /\ UNCHANGED <<sys, discovered, queues, result, flag, waiting, main, outcome>>

(* The last worker to arrive at the barrier releases all of them. *)
Arrive(w) ==
    /\ At(w, "arrive")
    /\ IF waiting \cup {w} = Workers
       THEN /\ waiting' = {}
            /\ worker' = [v \in Workers |-> [worker[v] EXCEPT !.pc = "flag"]]
       ELSE /\ waiting' = waiting \cup {w}
            /\ Goto(w, "wait")
    /\ UNCHANGED <<sys, discovered, queues, result, flag, main, outcome>>

CheckFlag(w) ==
    /\ At(w, "flag")
    /\ Goto(w, IF flag THEN "exit" ELSE "empty")
    /\ UNCHANGED <<sys, discovered, queues, result, flag, waiting, main, outcome>>

(* Nothing was pushed: the space is exhausted.  Otherwise the assertion on *)
(* the depth, which at max_depth nothing may get to.                       *)
CheckEmpty(w) ==
    /\ At(w, "empty")
    /\ IF queues[PushingQueue(w)] = <<>>
       THEN SearchFinish(w, SpaceExhausted, "quit")
       ELSE /\ Goto(w, IF worker[w].depth + 1 = MaxDepth THEN "panicked" ELSE "sleep")
            /\ UNCHANGED result
    /\ UNCHANGED <<sys, discovered, queues, flag, waiting, main, outcome>>

Swap(w) ==
    /\ At(w, "sleep")
    /\ sys.prompt => \A v \in Workers : ~At(v, "flag") /\ ~At(v, "empty")
    /\ Becomes(w, [worker[w] EXCEPT !.pc = "pop", !.queue = PushingQueue(w), !.depth = @ + 1])
    /\ UNCHANGED <<sys, discovered, queues, result, flag, waiting, main, outcome>>

-----------------------------------------------------------------------------
(* Random workers *)

(* Another walk, unless the search is over. *)
Probe(w) ==
    /\ At(w, "probe")
    /\ IF flag THEN Goto(w, "exit")
       ELSE Becomes(w, [worker[w] EXCEPT !.pc = "walk", !.state = Initial, !.depth = 0, !.trace = <<>>])
    /\ UNCHANGED <<sys, discovered, queues, result, flag, waiting, main, outcome>>

Walked(w, kind, n) == [kind |-> kind, state |-> n, trace |-> worker'[w].trace]

(* What is found by following the event, if anything. *)
Verdict(e) ==
    IF e.fails THEN "Error"
    ELSE IF e.to \in sys.bad THEN "InvariantViolation"
    ELSE IF e.to \in sys.goal THEN "GoalFound" ELSE None

(* A walk ends where there are no events, with a result, at a state that   *)
(* is pruned, at the depth limit or when the search is over.               *)
WalkEnds(w, n) == n \in sys.prune \/ worker[w].depth + 1 = MaxDepth \/ flag

Follow(w, e) ==
    LET goesOn == Verdict(e) = None /\ ~WalkEnds(w, e.to)
    IN  /\ Becomes(w, [worker[w] EXCEPT
              !.pc = IF Verdict(e) # None THEN "done" ELSE IF goesOn THEN "walk" ELSE "probe",
              !.state = e.to,
              !.depth = IF goesOn THEN @ + 1 ELSE @,
              !.trace = IF e.fails THEN @ ELSE Append(@, e.to)])
        /\ result' = IF result = None /\ Verdict(e) # None THEN Walked(w, Verdict(e), e.to) ELSE result

Walk(w) ==
    /\ At(w, "walk")
    /\ \/ /\ Events(worker[w].state) = {}
          /\ Goto(w, "probe") /\ UNCHANGED result
       \/ \E e \in Events(worker[w].state) : Follow(w, e)
    /\ UNCHANGED <<sys, discovered, queues, flag, waiting, main, outcome>>

-----------------------------------------------------------------------------
(* The main thread: search_internal *)

TakeResult ==
    /\ main = "wait"
    /\ result # None
    /\ outcome' = result /\ result' = None
    /\ main' = "stop"
    /\ UNCHANGED <<sys, discovered, queues, flag, worker, waiting>>

TimeOut ==
    /\ sys.limit
    /\ main = "wait"
    /\ result = None
    /\ outcome' = Timeout
    /\ main' = "stop"
    /\ UNCHANGED <<sys, discovered, queues, result, flag, worker, waiting>>

Stop ==
    /\ main = "stop"
    /\ flag' = TRUE
    /\ main' = "join"
    /\ UNCHANGED <<sys, discovered, queues, result, worker, waiting, outcome>>

Join ==
    /\ main = "join"
    /\ \A w \in Workers : At(w, "exit")
    /\ main' = "return"
    /\ UNCHANGED <<sys, discovered, queues, result, flag, worker, waiting, outcome>>

-----------------------------------------------------------------------------
Work(w) ==
    \/ RaiseFlag(w) \/ Pop(w) \/ Check(w) \/ EndState(w)
    \/ \E e \in worker[w].events : Step(w, e)
    \/ Arrive(w) \/ CheckFlag(w) \/ CheckEmpty(w) \/ Swap(w)
    \/ Probe(w) \/ Walk(w)

SearchNext ==
    \/ \E w \in Workers : Work(w)
    \/ TakeResult \/ TimeOut \/ Stop \/ Join

SearchSpec == SearchInit /\ [][SearchNext]_searchVars

MainWork == TakeResult \/ Stop \/ Join

(* Threads keep running. *)
SearchFairSpec ==
    /\ SearchSpec
    /\ \A w \in Workers : WF_searchVars(Work(w))
    /\ WF_searchVars(MainWork)

-----------------------------------------------------------------------------
(* What a search must do, told without threads: the states within k events *)
(* of the initial one through states that are expanded.                    *)
Expanded == {Initial} \cup (Nodes \ (sys.prune \cup sys.bad \cup sys.goal))

Within[k \in 0..MaxDepth] ==
    IF k = 0 THEN {Initial}
    ELSE Within[k - 1] \cup UNION {sys.succ[n] : n \in Within[k - 1] \cap Expanded}

Found == {n \in Nodes : discovered[n] # None}

(* Types of the shared state, and a worker counts depths up to the limit. *)
SearchTypeOK ==
    /\ discovered \in [Nodes -> {None} \cup [prev : Nodes \cup {None}, depth : 0..MaxDepth]]
    /\ \A q \in 1..2 : queues[q] \in Seq(Nodes)
    /\ \A w \in Workers : worker[w].queue \in 1..2 /\ worker[w].depth \in 0..MaxDepth - 1
    /\ waiting = {w \in Workers : At(w, "wait")}

(* The depth noted with a state is its distance from the initial state,    *)
(* and `prev` an event before it on a shortest way (369: "do not replace a *)
(* previously-found state"), so `trace` yields shortest traces whatever    *)
(* the workers' relative speed.                                            *)
DepthIsDistance ==
    \A n \in Found \ {Initial} :
        LET info == discovered[n]
        IN  /\ n \in Within[info.depth] \ Within[info.depth - 1]
            /\ info.prev \in Found /\ n \in sys.succ[info.prev]
            /\ discovered[info.prev].depth + 1 = info.depth

(* What the search reports is as near to the initial state as any: no      *)
(* other violation, goal or error was nearer.                              *)
NearestFirst ==
    ~sys.random /\ outcome # None /\ outcome.state # None =>
        LET depth == discovered[outcome.state].depth + IF outcome.kind = "Error" THEN 1 ELSE 0
        IN  /\ Within[depth - 1] \cap (sys.bad \cup sys.goal) \subseteq {Initial}
            /\ depth >= 2 => Within[depth - 2] \cap Expanded \cap sys.fails = {}

(* SpaceExhausted is reported only when every state within the limit was   *)
(* discovered and none of them is a violation, a goal or fails (415-425).  *)
Exhaustive ==
    sys.prompt /\ outcome = SpaceExhausted =>
        /\ Found = Within[MaxDepth]
        /\ Found \cap (sys.bad \cup sys.goal) \subseteq {Initial}
        /\ Within[MaxDepth - 1] \cap Expanded \cap sys.fails = {}

(* The comment at 405: "this wait always traps every worker", so that none *)
(* is stuck at the barrier because another one has left for good.          *)
TrapsEveryWorker == waiting # {} => \A w \in Workers : ~At(w, "exit")

(* No worker is stuck at the barrier or fails the assertion on the depth   *)
(* (425) when there is no time limit: workers that end the search, in any  *)
(* number and at any moment, still meet the others at the barrier.         *)
NoneStuck ==
    sys.prompt /\ ~sys.limit => TrapsEveryWorker /\ \A w \in Workers : ~At(w, "panicked")

(* A random search reports a walk of at most max_depth events that leads   *)
(* from the initial state, through states that are expanded, to what it    *)
(* says: of one probe of one worker, also when others find something else  *)
(* at the same moment.                                                     *)
RandomSound ==
    sys.random /\ outcome # None /\ outcome # Timeout =>
        LET trace == <<Initial>> \o outcome.trace
            last == trace[Len(trace)]
        IN  /\ Len(trace) <= MaxDepth + 1
            /\ \A i \in 1..Len(trace) - 1 : trace[i] \in Expanded /\ trace[i + 1] \in sys.succ[trace[i]]
            /\ CASE outcome.kind = "Error" -> last \in sys.fails /\ Len(trace) <= MaxDepth
                 [] outcome.kind = "InvariantViolation" -> last \in sys.bad
                 [] outcome.kind = "GoalFound" -> last \in sys.goal \ sys.bad

(* The search ends: all threads are joined, in a breadth-first search      *)
(* without a time limit always, in a random one once something is found.   *)
Terminates ==
    (sys.prompt /\ ~sys.limit /\ ~sys.random) \/ (sys.random /\ result # None) ~> main = "return"

(* What a search reports can be relied on: a trace is a shortest way (in   *)
(* random search, a way) to what it is said to lead to, "exhausted" means  *)
(* that all was seen, and no worker is left at a barrier (search.rs:408,   *)
(* 421) when there is no time limit.                                       *)
SearchSound ==
    SearchTypeOK /\ DepthIsDistance /\ NearestFirst /\ Exhaustive /\ NoneStuck /\ RandomSound
=============================================================================
