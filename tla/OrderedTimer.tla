---------------------------- MODULE OrderedTimer ----------------------------
(***************************************************************************)
(* The timers of event/ordered.rs and the loop of event/blocking.rs that   *)
(* drives them: an ordered set of deadlines and a table with the period    *)
(* and the next deadline of every timer.  The handlers the loop calls set  *)
(* and unset timers as they like; an error ends the loop.                  *)
(***************************************************************************)
EXTENDS Naturals

CONSTANTS
    Periods,  \* the periods handlers ask for
    MaxId,    \* bound: timers ever set
    MaxTime   \* bound: the clock

ASSUME PeriodsAssumption == Periods \subseteq Nat
ASSUME BoundsAssumption == MaxId \in Nat /\ MaxTime \in Nat

VARIABLES
    now,        \* Instant::now()
    id,         \* Timer.id
    deadlines,  \* Timer.deadlines
    states,     \* Timer.states
    fired,      \* the deadline of the timer that fired last
    failure     \* the error that ended the loop: missing timer state, inconsistency, or "none"

vars == <<now, id, deadlines, states, fired, failure>>

Init ==
    /\ now = 0 /\ id = 0
    /\ deadlines = {} /\ states = <<>>
    /\ fired = 0 /\ failure = "none"

Runs == failure = "none"

Tick ==
    /\ now < MaxTime
    /\ now' = now + 1
    /\ UNCHANGED <<id, deadlines, states, fired, failure>>

Set(period) ==
    LET deadline == now + period
    IN  /\ Runs
        /\ id < MaxId
        /\ id' = id + 1
        /\ states' = [i \in DOMAIN states \cup {id + 1} |->
                         IF i = id + 1 THEN [period |-> period, deadline |-> deadline] ELSE states[i]]
        /\ deadlines' = deadlines \cup {<<deadline, id + 1>>}
        /\ UNCHANGED <<now, fired, failure>>

StatesWithout(i) == [j \in DOMAIN states \ {i} |-> states[j]]

(* `unset` of timer i, which was set before and may be unset already. *)
Unset(i) ==
    /\ Runs
    /\ IF i \notin DOMAIN states
       THEN failure' = "missing" /\ UNCHANGED <<states, deadlines>>
       ELSE /\ states' = StatesWithout(i)
            /\ deadlines' = deadlines \ {<<states[i].deadline, i>>}
            /\ failure' = IF <<states[i].deadline, i>> \in deadlines THEN failure
                          ELSE "inconsistent"
    /\ UNCHANGED <<now, id, fired>>

(* Mutant: the timer set last comes first. *)
BeforeById(d, e) == d[2] >= e[2]

(* The order of the BTreeSet. *)
Before(d, e) == d[1] < e[1] \/ (d[1] = e[1] /\ d[2] <= e[2])

IsFirst(d) == d \in deadlines /\ \A e \in deadlines : Before(d, e)

(* Mutant: the next deadline is counted from now on, with no entry in the  *)
(* table to tell.                                                          *)
AdvanceFromNow(d) ==
    /\ Runs
    /\ IsFirst(d) /\ d[1] <= now
    /\ IF d[2] \notin DOMAIN states
       THEN /\ failure' = "inconsistent"
            /\ deadlines' = deadlines \ {d} /\ UNCHANGED states
       ELSE /\ deadlines' = (deadlines \ {d}) \cup {<<now + states[d[2]].period, d[2]>>}
            /\ UNCHANGED <<states, failure>>
    /\ fired' = d[1]
    /\ UNCHANGED <<now, id>>

(* recv_timeout timed out: advance, then on_timer. *)
Advance(d) ==
    /\ Runs
    /\ IsFirst(d) /\ d[1] <= now
    /\ IF d[2] \notin DOMAIN states
       THEN /\ failure' = "inconsistent"
            /\ deadlines' = deadlines \ {d} /\ UNCHANGED states
       ELSE LET deadline == states[d[2]].deadline + states[d[2]].period
            IN  /\ states' = [states EXCEPT ![d[2]].deadline = deadline]
                /\ deadlines' = (deadlines \ {d}) \cup {<<deadline, d[2]>>}
                /\ UNCHANGED failure
    /\ fired' = d[1]
    /\ UNCHANGED <<now, id>>

Next ==
    \/ Tick
    \/ \E period \in Periods : Set(period)
    \/ \E i \in 1..id : Unset(i)
    \/ \E d \in deadlines : Advance(d)

Spec == Init /\ [][Next]_vars

-----------------------------------------------------------------------------
(* Types of the state. *)
TypeOK ==
    /\ now \in Nat /\ id \in Nat /\ fired \in Nat
    /\ \A d \in deadlines : d[1] \in Nat /\ d[2] \in Nat
    /\ DOMAIN states \subseteq 1..id
    /\ \A i \in DOMAIN states : states[i] \in [period : Nat, deadline : Nat]
    /\ failure \in {"none", "missing", "inconsistent"}

(* The table and the deadlines tell the same. *)
Consistent == deadlines = {<<states[i].deadline, i>> : i \in DOMAIN states}

(* No timer is left behind: nothing set has a deadline before the one that *)
(* fired last.                                                             *)
NoneBehind == fired <= now /\ \A i \in DOMAIN states : states[i].deadline >= fired

(* The two structures never disagree, so the errors at 46 and 64 cannot    *)
(* occur, whatever handlers do; only an unset of a timer that is not set   *)
(* (41) is an error.                                                       *)
NoInconsistency == failure # "inconsistent"

Inv == TypeOK /\ Consistent /\ NoneBehind /\ NoInconsistency

(* Timers fire in the order of their deadlines, also when several are late *)
(* and when timers are set and unset in between.                           *)
FiresInOrder == [][fired' >= fired]_vars

Due(i) == i \in DOMAIN states /\ states[i].deadline <= now

(* However late the loop is, it catches up: once the clock stands, every   *)
(* timer has fired for all the periods that have passed, or is unset, the  *)
(* ones with long periods beside ones with short periods too.              *)
DueFires == <>[](Runs => \A i \in DOMAIN states : ~Due(i))
=============================================================================
