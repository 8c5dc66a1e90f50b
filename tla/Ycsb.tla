-------------------------------- MODULE Ycsb --------------------------------
(***************************************************************************)
(* The YCSB workloads of a group of close loops (app/ycsb.rs) against the  *)
(* application they are meant for (app/btree.rs; app/sqlite.rs answers the *)
(* same).  The loops share the numbers of the records they insert: which   *)
(* one comes next, and up to where all are known to be stored.             *)
(*                                                                         *)
(* A record is its number; the replicated service executes an operation    *)
(* once, at some moment between its start and its result.                  *)
(***************************************************************************)
EXTENDS Naturals, FiniteSets

CONSTANTS
    YcsbLoops,     \* the close loops, each with a clone of the workload
    RecordCount,   \* the records the application is loaded with
    Latest,        \* request_distr is Latest: profile D
    MaxInserts,    \* bound: the records inserted by the loops
    Nil            \* no operation

ASSUME RecordCountAssumption == RecordCount \in Nat \ {0}

VARIABLES
    nextNum,      \* InsertState.next_num
    frontier,     \* InsertState.inserted_nums.0
    ahead,        \* InsertState.inserted_nums.1
    ycsbOp,       \* ycsbOp[l]: the operation l waits for, with its attachment and its result
    rmwUpdate,    \* Workload.rmw_update
    started,      \* Workload.start is some
    records,      \* the application
    acked,        \* the numbers whose insertion a loop has seen completed
    bails         \* the loops whose workload returned an error

insertVars == <<nextNum, frontier, ahead>>
ycsbVars == <<nextNum, frontier, ahead, ycsbOp, rmwUpdate, started, records, acked, bails>>

(* Workload::new; the application is loaded by startup_ops. *)
YcsbInit ==
    /\ nextNum = RecordCount /\ frontier = RecordCount /\ ahead = {}
    /\ ycsbOp = [l \in YcsbLoops |-> Nil]
    /\ rmwUpdate = [l \in YcsbLoops |-> Nil]
    /\ started = [l \in YcsbLoops |-> FALSE]
    /\ records = 0..(RecordCount - 1)
    /\ acked = 0..(RecordCount - 1)
    /\ bails = {}

(* Gen: Zipf yields 1..n, the scrambled one 0..n - 1. *)
KeyNums ==
    IF Latest THEN {frontier - d : d \in 1..RecordCount}
    ELSE {n \in 0..(RecordCount - 1) : n < frontier}

Waits(l, kind, n) == ycsbOp' = [ycsbOp EXCEPT ![l] = [kind |-> kind, num |-> n, found |-> Nil]]

(* next_op: the second half of a read-modify-write *)
NextRmwUpdate(l) ==
    /\ ycsbOp[l] = Nil /\ l \notin bails
    /\ rmwUpdate[l] # Nil
    /\ rmwUpdate' = [rmwUpdate EXCEPT ![l] = Nil]
    /\ Waits(l, "update", rmwUpdate[l])
    /\ UNCHANGED <<insertVars, started, records, acked, bails>>

(* next_op: a new transaction *)
NextInsert(l) ==
    /\ ycsbOp[l] = Nil /\ l \notin bails /\ rmwUpdate[l] = Nil
    /\ nextNum < RecordCount + MaxInserts
    /\ started' = [started EXCEPT ![l] = TRUE]
    /\ Waits(l, "insert", nextNum)
    /\ nextNum' = nextNum + 1
    /\ UNCHANGED <<frontier, ahead, rmwUpdate, records, acked, bails>>

NextOther(l, kind, n) ==
    /\ ycsbOp[l] = Nil /\ l \notin bails /\ rmwUpdate[l] = Nil
    /\ started' = [started EXCEPT ![l] = TRUE]
    /\ IF kind = "rmw"
       THEN Waits(l, "read", n) /\ rmwUpdate' = [rmwUpdate EXCEPT ![l] = n]
       ELSE Waits(l, kind, n) /\ UNCHANGED rmwUpdate
    /\ UNCHANGED <<insertVars, records, acked, bails>>

(* execute: only a scan may start from a record that is not there. *)
Execute(l) ==
    /\ ycsbOp[l] # Nil /\ ycsbOp[l].found = Nil
    /\ records' = IF ycsbOp[l].kind = "insert" THEN records \cup {ycsbOp[l].num} ELSE records
    /\ ycsbOp' = [ycsbOp EXCEPT ![l].found =
                    ycsbOp[l].kind \in {"insert", "scan"} \/ ycsbOp[l].num \in records]
    /\ UNCHANGED <<insertVars, rmwUpdate, started, acked, bails>>

(* The mutant does not go on to the numbers acknowledged before. *)
AckOnce(n) ==
    IF n # frontier THEN [frontier |-> frontier, ahead |-> ahead \cup {n}]
    ELSE [frontier |-> frontier + 1, ahead |-> ahead]

(* ack: the frontier passes n and what was acknowledged right behind it. *)
Ack(n) ==
    LET Free(m) == m > n /\ m \notin ahead
        next == CHOOSE m \in n..(n + Cardinality(ahead) + 1) :
                    Free(m) /\ \A k \in n..(m - 1) : ~Free(k)
    IN  IF n # frontier THEN [frontier |-> frontier, ahead |-> ahead \cup {n}]
        ELSE [frontier |-> next, ahead |-> ahead \ (n..next)]

(* on_result: NotFound is an error, an insertion is acknowledged, and a    *)
(* transaction that is over has its latency taken.                         *)
OnResult(l) ==
    LET op == ycsbOp[l]
        over == rmwUpdate[l] = Nil
    IN  /\ op # Nil /\ op.found # Nil
        /\ ycsbOp' = [ycsbOp EXCEPT ![l] = Nil]
        /\ IF ~op.found \/ (over /\ ~started[l])
           THEN bails' = bails \cup {l} /\ UNCHANGED <<insertVars, started, acked>>
           ELSE /\ IF op.kind = "insert"
                   THEN /\ frontier' = Ack(op.num).frontier
                        /\ ahead' = Ack(op.num).ahead
                        /\ acked' = acked \cup {op.num}
                   ELSE UNCHANGED <<frontier, ahead, acked>>
                /\ started' = [started EXCEPT ![l] = @ /\ ~over]
                /\ UNCHANGED <<nextNum, bails>>
        /\ UNCHANGED <<rmwUpdate, records>>

YcsbNext ==
    \E l \in YcsbLoops :
        \/ NextRmwUpdate(l) \/ NextInsert(l) \/ Execute(l) \/ OnResult(l)
        \/ \E kind \in {"read", "update", "scan", "rmw"}, n \in KeyNums : NextOther(l, kind, n)

YcsbSpec == YcsbInit /\ [][YcsbNext]_ycsbVars

(***************************************************************************)
(* No workload ends with an error: a record that is read or updated has    *)
(* been stored, although loops insert at the same time and the latest      *)
(* numbers are the ones asked for most, and a latency is taken once per    *)
(* transaction.                                                            *)
(***************************************************************************)
NeverNotFound == bails = {}

(***************************************************************************)
(* The frontier is the first number not acknowledged, in whatever order    *)
(* the insertions complete, and what is kept ahead of it is no more than   *)
(* what was acknowledged there: nothing is lost and nothing piles up.      *)
(***************************************************************************)
FrontierExact ==
    /\ 0..(frontier - 1) \subseteq acked /\ frontier \notin acked
    /\ ahead = {n \in acked : n > frontier}

(***************************************************************************)
(* Loops may share their insert numbers: the frontier is exact and what is *)
(* drawn below it is stored (ycsb.rs:105).                                 *)
(***************************************************************************)
InsertsRight == FrontierExact /\ NeverNotFound
=============================================================================
