---------------------------- MODULE SessionTimer ----------------------------
(***************************************************************************)
(* The timers of an event session (event/session.rs).  `set` spawns a task *)
(* that sends a Timer event to the session's channel once per period;      *)
(* `unset` forgets the handle and aborts the task, but the abort is not    *)
(* synchronous: the task may still send, and events it sent before may     *)
(* still sit in the channel.  The session drops a Timer event whose handle *)
(* is gone.                                                                *)
(*                                                                         *)
(* The state of one session's timers is a record; periods are abstracted   *)
(* (a task may send at any moment), and the Timer events of one task that  *)
(* wait in the channel at the same time are one element of `queued`:       *)
(* handling the second of them is the same as handling a later one.        *)
(***************************************************************************)
EXTENDS Naturals

TimerState ==
    [id : Nat, handles : SUBSET Nat, tasks : SUBSET Nat, queued : SUBSET Nat]

TimerInit == [id |-> 0, handles |-> {}, tasks |-> {}, queued |-> {}]

(* The id the next `set` returns. *)
NextTimerId(t) == t.id + 1

TimerSet(t) ==
    [t EXCEPT !.id = NextTimerId(t),
              !.handles = @ \cup {NextTimerId(t)},
              !.tasks = @ \cup {NextTimerId(t)}]

(* `unset` of an id without handle is an error ("timer not exists"). *)
CanUnset(t, id) == id \in t.handles

(* Mutant: the handle is kept. *)
TimerUnsetKept(t, id) == t

TimerUnset(t, id) == [t EXCEPT !.handles = @ \ {id}]

(* A timer task wakes up and sends its event. *)
CanTick(t, id) == id \in t.tasks

(* Mutant: the task ends after its first event. *)
TimerTickOnce(t, id) == [t EXCEPT !.queued = @ \cup {id}, !.tasks = @ \ {id}]

TimerTick(t, id) == [t EXCEPT !.queued = @ \cup {id}]

(* The runtime gets round to cancelling a task whose abort was requested. *)
CanAbort(t, id) == id \in t.tasks /\ id \notin t.handles

TimerAbort(t, id) == [t EXCEPT !.tasks = @ \ {id}]

(* The session takes a Timer event out of its channel. *)
TimerTake(t, id) == [t EXCEPT !.queued = @ \ {id}]

(* The event reaches `on_timer` only while the timer is set. *)
IsSet(t, id) == id \in t.handles
=============================================================================
