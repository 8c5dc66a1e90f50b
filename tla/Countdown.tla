----------------------------- MODULE Countdown -----------------------------
(***************************************************************************)
(* Total of workload.rs: workloads cloned from one share a count of the    *)
(* operations that remain, and take one from it with a compare-exchange    *)
(* that may fail for no reason.                                            *)
(***************************************************************************)
EXTENDS Naturals, FiniteSets

CONSTANTS
    Sharers,  \* the workloads, each in a task of its own
    Count     \* the operations there are

ASSUME SharersAssumption == IsFiniteSet(Sharers)
ASSUME CountAssumption == Count \in Nat

VARIABLES
    remainCount,  \* Total.remain_count
    seen,         \* seen[w]: the local remain_count, while w is in next_op
    at,           \* at[w]: idle, trying, or done after None
    taken         \* taken[w]: the operations w has been given

countVars == <<remainCount, seen, at, taken>>

CountInit ==
    /\ remainCount = Count
    /\ seen = [w \in Sharers |-> 0]
    /\ at = [w \in Sharers |-> "idle"]
    /\ taken = [w \in Sharers |-> 0]

(* next_op: load *)
Load(w) ==
    /\ at[w] = "idle"
    /\ seen' = [seen EXCEPT ![w] = remainCount]
    /\ at' = [at EXCEPT ![w] = "trying"]
    /\ UNCHANGED <<remainCount, taken>>

(* None *)
GiveUp(w) ==
    /\ at[w] = "trying" /\ seen[w] = 0
    /\ at' = [at EXCEPT ![w] = "done"]
    /\ UNCHANGED <<remainCount, seen, taken>>

(* The mutant stores what it has computed, whatever is there by now. *)
TakeBlind(w) ==
    /\ at[w] = "trying" /\ seen[w] # 0
    /\ remainCount' = seen[w] - 1
    /\ at' = [at EXCEPT ![w] = "idle"]
    /\ taken' = [taken EXCEPT ![w] = @ + 1]
    /\ UNCHANGED seen

(* compare_exchange_weak, Ok: the inner workload gives the operation. *)
Take(w) ==
    /\ at[w] = "trying" /\ seen[w] # 0
    /\ remainCount = seen[w]
    /\ remainCount' = seen[w] - 1
    /\ at' = [at EXCEPT ![w] = "idle"]
    /\ taken' = [taken EXCEPT ![w] = @ + 1]
    /\ UNCHANGED seen

(* compare_exchange_weak, Err: with the value that is there, or spuriously. *)
Retry(w) ==
    /\ at[w] = "trying" /\ seen[w] # 0
    /\ seen' = [seen EXCEPT ![w] = remainCount]
    /\ UNCHANGED <<remainCount, at, taken>>

CountNext == \E w \in Sharers : Load(w) \/ GiveUp(w) \/ Take(w) \/ Retry(w)

CountSpec == CountInit /\ [][CountNext]_countVars

(* The operations that the workloads in W have been given. *)
TakenBy(W) == Cardinality({e \in W \X (1..Count) : e[2] <= taken[e[1]]})

(***************************************************************************)
(* What the workloads were given and what remains are the whole count at   *)
(* any moment, so that none is given twice, none is lost to a race and the *)
(* count does not wrap below zero; and a workload that ends leaves none.   *)
(***************************************************************************)
CountShared ==
    /\ remainCount \in 0..Count
    /\ TakenBy(Sharers) + remainCount = Count
    /\ \A w \in Sharers : taken[w] <= Count /\ (at[w] = "done" => remainCount = 0)
=============================================================================
