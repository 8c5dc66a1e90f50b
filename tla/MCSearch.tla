------------------------------ MODULE MCSearch ------------------------------
(* Searches of small graphs by two threads. *)
EXTENDS Search

(* A diamond with a tail, and a way around it; the settings single out one *)
(* state, or none.                                                         *)
Succ == [n \in Nodes |->
            CASE n = 1 -> {2, 3}
              [] n = 2 -> {4, 5}
              [] n = 3 -> {4}
              [] n = 4 -> {1, 5}
              [] n = 5 -> {6}
              [] n = 6 -> {}]

Plain(limit, prompt) ==
    [succ |-> Succ, fails |-> {}, bad |-> {}, goal |-> {}, prune |-> {},
     random |-> FALSE, limit |-> limit, prompt |-> prompt]

Variants(y) ==
    {y} \cup UNION {{[y EXCEPT !.bad = {n}], [y EXCEPT !.goal = {n}],
                    [y EXCEPT !.fails = {n}], [y EXCEPT !.prune = {n}],
                    [y EXCEPT !.bad = {n}, !.goal = {2}],
                    [y EXCEPT !.bad = {5}, !.fails = {n}]} : n \in {3, 4, 5}}

Randomly(y) == [y EXCEPT !.random = TRUE]

(* With a time limit and workers of any relative speed, and without        *)
(* either; at random with a time limit, in one graph with a dead end.      *)
MCSystems ==
    Variants(Plain(TRUE, FALSE)) \cup Variants(Plain(FALSE, TRUE))
    \cup {Randomly([Plain(TRUE, FALSE) EXCEPT !.bad = {5}, !.goal = {2}, !.fails = {4}, !.prune = {3}]),
          Randomly([Plain(TRUE, FALSE) EXCEPT !.bad = {4}, !.succ[5] = {}])}

MCLimited == {Plain(TRUE, TRUE)}
=============================================================================
