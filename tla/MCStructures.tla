---------------------------- MODULE MCStructures ----------------------------
(* Instances for TLC, each on its own in some of the initial states, of    *)
(* the timers, the bucket table, the model checker (the searches of        *)
(* MCSearch, and the check system with three clients) and vector clocks.   *)
EXTENDS OrderedTimer, BucketTable, UnreplicatedCheck, Boson, MCSearch

CONSTANTS k1, k2, k3

VARIABLE part

allVars == <<vars, table, linearVars, checkVars, bosonVars, searchVars, part>>

(* What the clients do, and the results they expect: two append to the     *)
(* same key and are recorded, the third has a key of its own.              *)
Do(kind, key, value, answer) ==
    [op |-> [kind |-> kind, key |-> key, value |-> value], result |-> answer]

MCScript ==
    [k \in CheckClients |->
        IF k = k3
        THEN <<Do("put", "own", <<"0">>, <<"PutOk">>), Do("append", "own", <<"1">>, <<"0", "1">>),
               Do("get", "own", <<>>, <<"0", "1">>)>>
        ELSE <<Do("append", "foo", <<"0">>, NoValue), Do("append", "foo", <<"0">>, NoValue),
               Do("append", "foo", <<"1">>, NoValue)>>]

MCInit ==
    /\ part \in {"ordered", "buckets", "linear", "check", "boson", "search"}
    /\ Init /\ TableInit /\ LinearInit /\ CheckInit /\ BosonInit /\ SearchInit
    /\ part = "search" \/ sys = Plain(TRUE, FALSE)

MCNext ==
    \/ part = "ordered" /\ Next /\ UNCHANGED <<table, linearVars, checkVars, bosonVars, searchVars, part>>
    \/ part = "buckets" /\ TableNext /\ UNCHANGED <<vars, linearVars, checkVars, bosonVars, searchVars, part>>
    \/ part = "linear" /\ LinearNext /\ UNCHANGED <<vars, table, checkVars, bosonVars, searchVars, part>>
    \/ part = "check" /\ CheckNext /\ UNCHANGED <<vars, table, linearVars, bosonVars, searchVars, part>>
    \/ part = "boson" /\ BosonNext /\ UNCHANGED <<vars, table, linearVars, checkVars, searchVars, part>>
    \/ part = "search" /\ SearchNext /\ UNCHANGED <<vars, table, linearVars, checkVars, bosonVars, part>>

MCSpec ==
    /\ MCInit /\ [][MCNext]_allVars
    /\ WF_allVars(/\ part = "ordered" /\ \E d \in deadlines : Advance(d)
                  /\ UNCHANGED <<table, linearVars, checkVars, bosonVars, searchVars, part>>)
    /\ \A w \in Workers :
          WF_allVars(/\ part = "search" /\ Work(w)
                     /\ UNCHANGED <<vars, table, linearVars, checkVars, bosonVars, part>>)
    /\ WF_allVars(/\ part = "search" /\ MainWork
                  /\ UNCHANGED <<vars, table, linearVars, checkVars, bosonVars, part>>)
=============================================================================
