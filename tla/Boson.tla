------------------------------- MODULE Boson -------------------------------
(***************************************************************************)
(* Verifiable vector clocks (crates/boson/src/lib.rs): a clock is a proof  *)
(* whose public inputs are S counters and the circuit that proves it.  A   *)
(* clock is made from earlier ones by the circuit only, which checks their *)
(* proofs, and the secret of the counter that is updated.                  *)
(*                                                                         *)
(* Process i has the secret of counter i.  It increments its counter, and  *)
(* merges the clocks it receives; a clock of a deployment with another     *)
(* circuit may reach it as well.                                           *)
(***************************************************************************)
EXTENDS Naturals, FiniteSets

CONSTANTS
    S,          \* the number of counters
    U32Max,     \* the largest value of a counter
    MaxClocks   \* bound on the clocks that are made

ASSUME CountersAssumption == S \in Nat \ {0} /\ U32Max \in Nat \ {0} /\ MaxClocks \in Nat

VARIABLES
    held,       \* held[i]: the event of process i's clock, [clock, past]
    published,  \* the events whose clocks others may receive
    panicked    \* the processes that ran into an overflow or an assertion

bosonVars == <<held, published, panicked>>

Counters == 0..(S - 1)

(* The circuit that all processes verify with, and that of others. *)
Circuit == "circuit"

(* Secrets are numbers: that of counter i, and DUMMY_SECRET.  The key of a *)
(* secret is its hash, which no other secret has.                          *)
index_secret(index) == index
DUMMY_SECRET == S + 1
public_key(secret) == <<"key", secret>>

(* The key that is checked: of the counter that is updated, or of none.    *)
UpdatedKey(index) == public_key(IF index \in Counters THEN index_secret(index) ELSE DUMMY_SECRET)

Verify(clock) == clock.circuit = Circuit

Maximum(x1, x2) == IF x1 <= x2 THEN x2 ELSE x1

(* The counter that is updated, and of the others the larger one. *)
OutputCounters(clock1, clock2, index, counter) ==
    [i \in Counters |-> Maximum(IF i = index THEN counter ELSE clock1.counters[i], clock2.counters[i])]

(* The mutant does not check the secret. *)
AnyKey(clock1, clock2, index, sig) == Verify(clock1) /\ Verify(clock2)

(* There is a proof when the inputs satisfy the circuit. *)
Provable(clock1, clock2, index, sig) ==
    /\ Verify(clock1) /\ Verify(clock2)
    /\ public_key(sig) = UpdatedKey(index)

Genesis == [counters |-> [i \in Counters |-> 0], circuit |-> Circuit]

(* The first clock of a deployment whose genesis counts from one. *)
OtherGenesis == [counters |-> [i \in Counters |-> 1], circuit |-> "other"]

(* The past of a clock: <<i, n>> is the n-th increment by process i. *)
BosonInit ==
    /\ held = [i \in Counters |-> [clock |-> Genesis, past |-> {}]]
    /\ published = {[clock |-> Genesis, past |-> {}]}
    /\ panicked = {}

Publish(i, event) ==
    /\ held' = [held EXCEPT ![i] = event]
    /\ published' = published \cup {event}

BosonPanic(i) == panicked' = panicked \cup {i} /\ UNCHANGED <<held, published>>

(* Process i increments the clock it holds at index, with its own secret:  *)
(* without a proof it keeps the clock; the addition overflows at the last  *)
(* value; what is proved must be what was meant (306).                     *)
Increment(i, index) ==
    LET clock == held[i].clock
        counter == clock.counters[index] + 1
        output == OutputCounters(clock, clock, index, counter)
        made == Cardinality({x \in held[i].past : x[1] = i}) + 1
    IN  /\ Cardinality(published) < MaxClocks
        /\ IF counter > U32Max THEN BosonPanic(i)
           ELSE IF ~Provable(clock, clock, index, index_secret(i)) THEN UNCHANGED bosonVars
           ELSE IF output # [clock.counters EXCEPT ![index] = counter] THEN BosonPanic(i)
           ELSE /\ Publish(i, [clock |-> [counters |-> output, circuit |-> Circuit],
                               past |-> held[i].past \cup {<<i, made>>}])
                /\ UNCHANGED panicked

(* Process i merges a clock it received: no counter has the index S + 1,   *)
(* so that the dummy secret does and updated_counter is not used.          *)
Merge(i, event) ==
    LET clock1 == held[i].clock
        clock2 == event.clock
        output == OutputCounters(clock1, clock2, S + 1, U32Max)
    IN  /\ Cardinality(published) < MaxClocks
        /\ IF ~Provable(clock1, clock2, S + 1, DUMMY_SECRET) THEN UNCHANGED bosonVars
           ELSE IF \E j \in Counters : output[j] # Maximum(clock1.counters[j], clock2.counters[j])
           THEN BosonPanic(i)
           ELSE /\ Publish(i, [clock |-> [counters |-> output, circuit |-> Circuit],
                               past |-> held[i].past \cup event.past])
                /\ UNCHANGED panicked

BosonNext ==
    \E i \in Counters \ panicked :
        \/ \E index \in Counters : Increment(i, index)
        \/ \E event \in published \cup {[clock |-> OtherGenesis, past |-> {}]} : Merge(i, event)

BosonSpec == BosonInit /\ [][BosonNext]_bosonVars

-----------------------------------------------------------------------------
Leq(clock1, clock2) == \A i \in Counters : clock1.counters[i] <= clock2.counters[i]

(* The clocks tell exactly which of two events is in the past of the       *)
(* other, whoever incremented and merged what, late copies of old clocks,  *)
(* increments with the wrong secret (malformed_signature, lib.rs:427) and  *)
(* clocks of another circuit (malformed_with_iteration) included.          *)
ClocksOrderEvents ==
    \A e, f \in published : Leq(e.clock, f.clock) <=> e.past \subseteq f.past

(* The assertions on what was proved (306, 346) hold, and the addition of  *)
(* increment overflows for a counter at its limit only.                    *)
AssertionsHold ==
    \A i \in panicked : \E j \in Counters : held[i].clock.counters[j] = U32Max

(* Clocks are exact, and nobody runs into an assertion on the way to one   *)
(* (update, increment and merge of lib.rs).                                *)
ClocksSound == ClocksOrderEvents /\ AssertionsHold
=============================================================================
