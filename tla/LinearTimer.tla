---------------------------- MODULE LinearTimer ----------------------------
(***************************************************************************)
(* The timers of a model-checked node (event/linear.rs).  There is no      *)
(* clock: the timers are kept in the order in which they were last armed,  *)
(* and events() offers those that the search may fire next.                *)
(*                                                                         *)
(* Beside the table the module records, for every armed timer, which      *)
(* others are due before it on any clock.                                  *)
(***************************************************************************)
EXTENDS Naturals, Sequences

Seqs == INSTANCE SequencesExt

CONSTANTS
    LinearPeriods,  \* the periods a handler asks for
    MaxSets   \* bound: the timers ever set

ASSUME LinearAssumption == LinearPeriods \subseteq Nat /\ MaxSets \in Nat

VARIABLES
    linear,  \* Timer: the events and the last id
    owed     \* owed[id]: the timers set when id was last armed whose period is no
             \* longer, and that have not fired since

linearVars == <<linear, owed>>

-----------------------------------------------------------------------------
(* The table *)

LinearNew == [events |-> <<>>, id |-> 0]

LinearSet(t, period) ==
    [events |-> Append(t.events, [id |-> t.id + 1, period |-> period]), id |-> t.id + 1]

Armed(t, id) == {i \in DOMAIN t.events : t.events[i].id = id}

(* position(..).ok_or("timer not found"), events.remove(i) *)
LinearUnset(t, id) ==
    [t EXCEPT !.events = Seqs!RemoveAt(@, CHOOSE i \in Armed(t, id) : TRUE)]

LinearStep(t, id) ==
    [LinearUnset(t, id) EXCEPT !.events =
        Append(@, t.events[CHOOSE i \in Armed(t, id) : TRUE])]

(* The mutant goes past a timer with the same period as the one before. *)
LinearEventsWeak(t) ==
    {t.events[i].id : i \in {j \in DOMAIN t.events :
        \A k \in 2..j : t.events[k].period <= t.events[k - 1].period}}

(* The longest prefix in which every period is less than the one before. *)
LinearEvents(t) ==
    {t.events[i].id : i \in {j \in DOMAIN t.events :
        \A k \in 2..j : t.events[k].period < t.events[k - 1].period}}

-----------------------------------------------------------------------------
(* A node that sets and unsets timers, and a search that fires them *)

(* The timers that, armed already, are due before one armed now. *)
DueBefore(t, id, period) ==
    {e.id : e \in {f \in Seqs!ToSet(t.events) : f.id # id /\ f.period <= period}}

LinearInit ==
    /\ linear = LinearNew
    /\ owed = [id \in 1..MaxSets |-> {}]

NodeSets(period) ==
    /\ linear.id < MaxSets
    /\ linear' = LinearSet(linear, period)
    /\ owed' = [owed EXCEPT ![linear.id + 1] = DueBefore(linear, linear.id + 1, period)]

NodeUnsets(e) ==
    /\ linear' = LinearUnset(linear, e.id)
    /\ owed' = [id \in DOMAIN owed |-> owed[id] \ {e.id}]

SearchFires(e) ==
    /\ e.id \in LinearEvents(linear)
    /\ linear' = LinearStep(linear, e.id)
    /\ owed' = [id \in DOMAIN owed |->
                  IF id = e.id THEN DueBefore(linear, e.id, e.period) ELSE owed[id] \ {e.id}]

LinearNext ==
    \/ \E period \in LinearPeriods : NodeSets(period)
    \/ \E e \in Seqs!ToSet(linear.events) : NodeUnsets(e) \/ SearchFires(e)

LinearSpec == LinearInit /\ [][LinearNext]_linearVars

(***************************************************************************)
(* events() offers no timer before one that every clock fires first: from  *)
(* one firing of a timer to the next, each timer that was set and whose    *)
(* period is no longer fires too, or is unset.  A reported violation does  *)
(* not rest on a slow timer that overtakes a fast one.                     *)
(***************************************************************************)
NoOvertaking == \A id \in LinearEvents(linear) : owed[id] = {}
=============================================================================
