--------------------------- MODULE StructureProofs ---------------------------
(***************************************************************************)
(* Proofs about the parts that MCStructures puts side by side:             *)
(* OrderedTimer, which the blocking loop runs on, LinearTimer, which the   *)
(* search runs on, for all periods, numbers of timers and times, Boson,    *)
(* for any set of counters and any limit of a counter, and Search, for any *)
(* system, any number of workers and any depth.                            *)
(***************************************************************************)
EXTENDS OrderedTimer, LinearTimer, Boson, Search, SequenceTheorems, FiniteSetTheorems,
        WellFoundedInduction, TLAPS

-----------------------------------------------------------------------------
(***************************************************************************)
(* OrderedTimer.                                                           *)
(***************************************************************************)

LEMMA InvInit == Init => Inv
  BY DEF Init, Inv, TypeOK, Consistent, NoneBehind, NoInconsistency

LEMMA SetPreserves ==
  ASSUME Inv, NEW period \in Periods, Set(period)
  PROVE  Inv'
<1> DEFINE new == [period |-> period, deadline |-> now + period]
<1>1. period \in Nat /\ id \in Nat /\ now \in Nat /\ now + period \in Nat /\ now + period >= fired
  BY PeriodsAssumption DEF Inv, TypeOK, NoneBehind
<1>2. id + 1 \notin DOMAIN states
  BY <1>1 DEF Inv, TypeOK
<1>3. /\ DOMAIN states' = DOMAIN states \cup {id + 1}
      /\ states'[id + 1] = new
      /\ \A i \in DOMAIN states : states'[i] = states[i]
  BY <1>2 DEF Set
<1>4. TypeOK'
  BY <1>1, <1>3 DEF Set, Inv, TypeOK
<1>5. Consistent'
  BY <1>3 DEF Set, Inv, Consistent
<1>6. NoneBehind' /\ NoInconsistency'
  BY <1>1, <1>3 DEF Set, Inv, NoneBehind, NoInconsistency
<1> QED
  BY <1>4, <1>5, <1>6 DEF Inv

LEMMA UnsetPreserves ==
  ASSUME Inv, NEW i \in 1..id, Unset(i)
  PROVE  Inv'
<1>1. CASE i \notin DOMAIN states
  BY <1>1 DEF Unset, Inv, TypeOK, Consistent, NoneBehind, NoInconsistency
<1>2. CASE i \in DOMAIN states
  <2>1. /\ DOMAIN states' = DOMAIN states \ {i}
        /\ \A j \in DOMAIN states \ {i} : states'[j] = states[j]
    BY <1>2 DEF Unset, StatesWithout
  <2>2. <<states[i].deadline, i>> \in deadlines /\ failure' = failure
    BY <1>2 DEF Unset, Inv, Consistent
  <2>3. deadlines' = deadlines \ {<<states[i].deadline, i>>}
    BY <1>2 DEF Unset
  <2>4. TypeOK'
    BY <1>2, <2>1, <2>2, <2>3 DEF Unset, Inv, TypeOK
  <2>5. Consistent'
    BY <1>2, <2>1, <2>3 DEF Inv, Consistent
  <2>6. NoneBehind' /\ NoInconsistency'
    BY <2>1, <2>2 DEF Unset, Inv, NoneBehind, NoInconsistency
  <2> QED
    BY <2>4, <2>5, <2>6 DEF Inv
<1> QED
  BY <1>1, <1>2

(* The timer that fires is in the table, its deadline is the table's, and  *)
(* no timer in the table has an earlier one.                               *)
LEMMA FirstFacts ==
  ASSUME Inv, NEW d \in deadlines, IsFirst(d)
  PROVE  /\ d[2] \in DOMAIN states /\ d = <<states[d[2]].deadline, d[2]>>
         /\ \A j \in DOMAIN states : states[d[2]].deadline <= states[j].deadline
<1>1. PICK k \in DOMAIN states : d = <<states[k].deadline, k>>
  BY DEF Inv, Consistent
<1>2. d[2] = k /\ d[1] = states[k].deadline
  BY <1>1
<1>3. ASSUME NEW j \in DOMAIN states PROVE states[k].deadline <= states[j].deadline
  <2>1. <<states[j].deadline, j>> \in deadlines
    BY DEF Inv, Consistent
  <2>2. Before(d, <<states[j].deadline, j>>)
    BY <2>1 DEF IsFirst
  <2> QED
    BY <1>2, <2>2 DEF Before, Inv, TypeOK
<1> QED
  BY <1>1, <1>2, <1>3

LEMMA AdvancePreserves ==
  ASSUME Inv, NEW d \in deadlines, Advance(d)
  PROVE  Inv' /\ fired' >= fired
<1> DEFINE k == d[2]
           later == states[k].deadline + states[k].period
<1>1. /\ k \in DOMAIN states /\ d = <<states[k].deadline, k>>
      /\ \A j \in DOMAIN states : states[k].deadline <= states[j].deadline
  BY FirstFacts DEF Advance
<1>2. /\ states' = [states EXCEPT ![k].deadline = later]
      /\ deadlines' = (deadlines \ {d}) \cup {<<later, k>>}
      /\ fired' = states[k].deadline /\ states[k].deadline <= now
      /\ now' = now /\ id' = id /\ failure' = failure
  BY <1>1 DEF Advance
<1>3. /\ states[k] \in [period : Nat, deadline : Nat]
      /\ later \in Nat /\ later >= states[k].deadline
  BY <1>1 DEF Inv, TypeOK
<1>4. /\ DOMAIN states' = DOMAIN states
      /\ states'[k] = [period |-> states[k].period, deadline |-> later]
      /\ \A j \in DOMAIN states \ {k} : states'[j] = states[j]
  BY <1>1, <1>2, <1>3
<1>5. TypeOK'
  <2>1. \A e \in deadlines' : e[1] \in Nat /\ e[2] \in Nat
    BY <1>1, <1>2, <1>3 DEF Inv, TypeOK
  <2>2. \A j \in DOMAIN states' : states'[j] \in [period : Nat, deadline : Nat]
    BY <1>1, <1>3, <1>4 DEF Inv, TypeOK
  <2> QED
    BY <1>2, <1>3, <1>4, <2>1, <2>2 DEF Inv, TypeOK
<1>6. Consistent'
  BY <1>1, <1>2, <1>4 DEF Inv, Consistent
<1>7. NoneBehind' /\ NoInconsistency'
  <2>1. \A j \in DOMAIN states' : states'[j].deadline >= fired'
    BY <1>1, <1>2, <1>3, <1>4 DEF Inv, TypeOK
  <2> QED
    BY <1>2, <2>1 DEF Inv, NoneBehind, NoInconsistency
<1>8. fired' >= fired
  BY <1>1, <1>2 DEF Inv, NoneBehind
<1> QED
  BY <1>5, <1>6, <1>7, <1>8 DEF Inv

(* Every step keeps the invariant and fires nothing out of order. *)
LEMMA InvStep ==
  ASSUME Inv, [Next]_vars
  PROVE  Inv' /\ fired' >= fired
<1>1. fired \in Nat
  BY DEF Inv, TypeOK
<1>2. CASE Tick
  BY <1>1, <1>2 DEF Tick, Inv, TypeOK, Consistent, NoneBehind, NoInconsistency
<1>3. ASSUME NEW period \in Periods, Set(period) PROVE Inv' /\ fired' >= fired
  BY <1>1, <1>3, SetPreserves DEF Set
<1>4. ASSUME NEW i \in 1..id, Unset(i) PROVE Inv' /\ fired' >= fired
  BY <1>1, <1>4, UnsetPreserves DEF Unset
<1>5. ASSUME NEW d \in deadlines, Advance(d) PROVE Inv' /\ fired' >= fired
  BY <1>5, AdvancePreserves
<1>6. CASE UNCHANGED vars
  BY <1>1, <1>6 DEF vars, Inv, TypeOK, Consistent, NoneBehind, NoInconsistency
<1> QED
  BY <1>2, <1>3, <1>4, <1>5, <1>6 DEF Next

(***************************************************************************)
(* Table and deadlines agree in every reachable state, so no handler ever  *)
(* meets the inconsistency errors of unset (ordered.rs:46) and advance     *)
(* (:64), for all periods, numbers of timers and times.                    *)
(***************************************************************************)
THEOREM Invariance == Spec => []Inv
  BY InvInit, InvStep, PTL DEF Spec

(***************************************************************************)
(* Timers fire in the order of their deadlines (advance, ordered.rs:58),   *)
(* whatever handlers set and unset in between.                             *)
(***************************************************************************)
THEOREM Ordered == Spec => FiresInOrder
<1>1. Inv /\ [Next]_vars => [fired' >= fired]_vars
  BY InvStep
<1> QED
  BY <1>1, Invariance, PTL DEF Spec, FiresInOrder

-----------------------------------------------------------------------------
(***************************************************************************)
(* LinearTimer.                                                            *)
(***************************************************************************)

(* The timers of the table. *)
Timers == [id : 1..MaxSets, period : Nat]

(* Each id has one timer. *)
OneEach(s) == \A i, j \in 1..Len(s) : s[i].id = s[j].id => i = j

(* A timer is owed only firings of timers that stand before it, with a     *)
(* period that is no longer.                                               *)
OwedBefore(s, o) ==
  \A i \in 1..Len(s) : \A x \in o[s[i].id] :
    \E j \in 1..(i - 1) : s[j].id = x /\ s[j].period <= s[i].period

(* The inductive invariant. That a timer is owed firings by those before   *)
(* it only is what makes the prefix that events() offers safe.             *)
LinearInv ==
  /\ linear \in [events : Seq(Timers), id : 0..MaxSets]
  /\ DOMAIN owed = 1..MaxSets
  /\ \A i \in 1..Len(linear.events) : linear.events[i].id <= linear.id
  /\ OneEach(linear.events)
  /\ OwedBefore(linear.events, owed)

LEMMA TimerAt ==
  ASSUME NEW s \in Seq(Timers), NEW i \in 1..Len(s)
  PROVE  s[i] \in Timers /\ s[i].period \in Nat /\ s[i].id \in 1..MaxSets
<1>1. s[i] \in Timers
  OBVIOUS
<1> QED
  BY <1>1 DEF Timers

(* The table without the timer at place i. *)
LEMMA Removed ==
  ASSUME NEW s \in Seq(Timers), NEW i \in 1..Len(s)
  PROVE  LET r == Seqs!RemoveAt(s, i) IN
         /\ r \in Seq(Timers) /\ Len(r) = Len(s) - 1
         /\ \A k \in 1..Len(s) - 1 : r[k] = IF k < i THEN s[k] ELSE s[k + 1]
<1> DEFINE a == SubSeq(s, 1, i - 1)
           b == SubSeq(s, i + 1, Len(s))
           r == Seqs!RemoveAt(s, i)
<1>1. Len(s) \in Nat /\ \A k \in 1..Len(s) : s[k] \in Timers
  OBVIOUS
<1>2. a \in Seq(Timers) /\ Len(a) = i - 1 /\ \A k \in 1..(i - 1) : a[k] = s[k]
  <2>1. \A k \in 1..(i - 1) : s[k] \in Timers
    BY <1>1
  <2>2. a \in Seq(Timers) /\ Len(a) = (IF 1 <= i - 1 THEN (i - 1) - 1 + 1 ELSE 0)
        /\ \A k \in 1..((i - 1) - 1 + 1) : a[k] = s[1 + k - 1]
    BY <2>1, <1>1, SubSeqProperties
  <2> HIDE DEF a
  <2>3. Len(a) = i - 1
    BY <2>2, <1>1
  <2>4. ASSUME NEW k \in 1..(i - 1) PROVE a[k] = s[k]
    <3>1. k \in 1..((i - 1) - 1 + 1) /\ 1 + k - 1 = k
      BY <1>1
    <3> QED
      BY <3>1, <2>2
  <2> QED
    BY <2>2, <2>3, <2>4
<1>3. b \in Seq(Timers) /\ Len(b) = Len(s) - i /\ \A k \in 1..(Len(s) - i) : b[k] = s[i + k]
  <2>1. \A k \in (i + 1)..Len(s) : s[k] \in Timers
    BY <1>1
  <2>2. b \in Seq(Timers) /\ Len(b) = (IF i + 1 <= Len(s) THEN Len(s) - (i + 1) + 1 ELSE 0)
        /\ \A k \in 1..(Len(s) - (i + 1) + 1) : b[k] = s[(i + 1) + k - 1]
    BY <2>1, <1>1, SubSeqProperties
  <2> HIDE DEF b
  <2>3. Len(b) = Len(s) - i
    BY <2>2, <1>1
  <2>4. ASSUME NEW k \in 1..(Len(s) - i) PROVE b[k] = s[i + k]
    <3>1. k \in 1..(Len(s) - (i + 1) + 1) /\ (i + 1) + k - 1 = i + k
      BY <1>1
    <3> QED
      BY <3>1, <2>2
  <2> QED
    BY <2>2, <2>3, <2>4
<1>4. r = a \o b
  BY DEF Seqs!RemoveAt
<1> HIDE DEF a, b, r
<1>5. r \in Seq(Timers) /\ Len(r) = Len(a) + Len(b)
      /\ \A k \in 1..Len(a) + Len(b) : r[k] = IF k <= Len(a) THEN a[k] ELSE b[k - Len(a)]
  BY <1>2, <1>3, <1>4, ConcatProperties
<1>6. Len(r) = Len(s) - 1
  BY <1>1, <1>2, <1>3, <1>5
<1>7. ASSUME NEW k \in 1..Len(s) - 1 PROVE r[k] = IF k < i THEN s[k] ELSE s[k + 1]
  <2>1. k \in 1..Len(a) + Len(b)
    BY <1>1, <1>2, <1>3
  <2>2. CASE k < i
    <3>1. k <= Len(a) /\ k \in 1..(i - 1)
      BY <2>2, <1>1, <1>2
    <3> QED
      BY <2>1, <2>2, <3>1, <1>2, <1>5
  <2>3. CASE ~(k < i)
    <3>1. ~(k <= Len(a)) /\ k - Len(a) = k - i + 1 /\ k - i + 1 \in 1..(Len(s) - i) /\ i + (k - i + 1) = k + 1
      BY <2>3, <1>1, <1>2
    <3> QED
      BY <2>1, <2>3, <3>1, <1>3, <1>5
  <2> QED
    BY <2>2, <2>3
<1> QED
  BY <1>5, <1>6, <1>7 DEF r

(* Nobody is owed the timer at place p any more. *)
Forgiven(s, p, o, o2) == \A i \in 1..Len(s) : i # p => o2[s[i].id] = o[s[i].id] \ {s[p].id}

(* What is left of the table without the timer at place p keeps its order. *)
LEMMA RestRight ==
  ASSUME NEW s \in Seq(Timers), OneEach(s), NEW o, OwedBefore(s, o), NEW p \in 1..Len(s), NEW o2, Forgiven(s, p, o, o2)
  PROVE  LET r == Seqs!RemoveAt(s, p) IN
         /\ OneEach(r) /\ OwedBefore(r, o2)
         /\ \A k \in 1..Len(r) : \E i \in 1..Len(s) : i # p /\ r[k] = s[i]
         /\ \A i \in 1..Len(s) : i # p => \E k \in 1..Len(r) : r[k] = s[i]
<1> DEFINE r == Seqs!RemoveAt(s, p)
           Place(k) == IF k < p THEN k ELSE k + 1
<1>1. Len(s) \in Nat /\ p \in Nat
  OBVIOUS
<1>2. r \in Seq(Timers) /\ Len(r) = Len(s) - 1 /\ \A k \in 1..Len(s) - 1 : r[k] = IF k < p THEN s[k] ELSE s[k + 1]
  BY Removed
<1> HIDE DEF r
<1>3. ASSUME NEW k \in 1..Len(r) PROVE Place(k) \in 1..Len(s) /\ Place(k) # p /\ r[k] = s[Place(k)]
  BY <1>1, <1>2
<1>4. OneEach(r)
  <2> SUFFICES ASSUME NEW i \in 1..Len(r), NEW j \in 1..Len(r), r[i].id = r[j].id PROVE i = j
    BY DEF OneEach
  <2>1. r[i] = s[Place(i)] /\ r[j] = s[Place(j)] /\ Place(i) \in 1..Len(s) /\ Place(j) \in 1..Len(s)
    BY <1>3
  <2> HIDE DEF At
  <2>2. Place(i) = Place(j)
    BY <2>1 DEF OneEach
  <2> QED
    BY <2>2, <1>1 DEF At
<1>5. OwedBefore(r, o2)
  <2> SUFFICES ASSUME NEW i \in 1..Len(r), NEW x \in o2[r[i].id]
               PROVE  \E j \in 1..(i - 1) : r[j].id = x /\ r[j].period <= r[i].period
    BY DEF OwedBefore
  <2>1. r[i] = s[Place(i)] /\ Place(i) \in 1..Len(s) /\ Place(i) # p
    BY <1>3
  <2>2. x \in o[s[Place(i)].id] /\ x # s[p].id
    <3> HIDE DEF At
    <3> QED
      BY <2>1 DEF Forgiven
  <2>3. PICK q \in 1..(Place(i) - 1) : s[q].id = x /\ s[q].period <= s[Place(i)].period
    <3> HIDE DEF At
    <3> QED
      BY <2>1, <2>2 DEF OwedBefore
  <2>4. q # p /\ q < Place(i) /\ q \in Nat
    BY <2>1, <2>2, <2>3
  <2> DEFINE j == IF q < p THEN q ELSE q - 1
  <2>5. j \in 1..(i - 1) /\ j \in 1..Len(r) /\ Place(j) = q
    BY <1>1, <1>2, <2>1, <2>3, <2>4
  <2>6. r[j] = s[q]
    BY <1>3, <2>5
  <2> HIDE DEF j, At
  <2> QED
    BY <2>1, <2>3, <2>5, <2>6
<1>6. ASSUME NEW i \in 1..Len(s), i # p PROVE \E k \in 1..Len(r) : r[k] = s[i]
  <2> DEFINE k == IF i < p THEN i ELSE i - 1
  <2>1. k \in 1..Len(r) /\ Place(k) = i
    BY <1>1, <1>2, <1>6
  <2>2. r[k] = s[i]
    BY <1>3, <2>1
  <2> QED
    BY <2>1, <2>2
<1>7. ASSUME NEW k \in 1..Len(r) PROVE \E i \in 1..Len(s) : i # p /\ r[k] = s[i]
  <2>1. r[k] = s[Place(k)] /\ Place(k) \in 1..Len(s) /\ Place(k) # p
    BY <1>3
  <2> HIDE DEF At
  <2> QED
    BY <2>1
<1> QED
  BY <1>4, <1>5, <1>6, <1>7 DEF r

(* A timer that is armed goes to the end; all that it is owed is there. *)
LEMMA ArmedRight ==
  ASSUME NEW s \in Seq(Timers), OneEach(s), NEW o, OwedBefore(s, o), NEW e \in Timers,
         \A i \in 1..Len(s) : s[i].id # e.id,
         \A x \in o[e.id] : \E i \in 1..Len(s) : s[i].id = x /\ s[i].period <= e.period
  PROVE  OneEach(Append(s, e)) /\ OwedBefore(Append(s, e), o)
<1> DEFINE t == Append(s, e)
<1>1. t \in Seq(Timers) /\ Len(t) = Len(s) + 1 /\ t[Len(s) + 1] = e /\ (\A i \in 1..Len(s) : t[i] = s[i]) /\ Len(s) \in Nat
  BY AppendProperties
<1> HIDE DEF t
<1>2. \A i \in 1..Len(t) : i \in 1..Len(s) \/ i = Len(s) + 1
  BY <1>1
<1>3. OneEach(t)
  <2> SUFFICES ASSUME NEW i \in 1..Len(t), NEW j \in 1..Len(t), t[i].id = t[j].id PROVE i = j
    BY DEF OneEach
  <2> QED
    BY <1>1, <1>2 DEF OneEach
<1>4. OwedBefore(t, o)
  <2> SUFFICES ASSUME NEW i \in 1..Len(t), NEW x \in o[t[i].id]
               PROVE  \E j \in 1..(i - 1) : t[j].id = x /\ t[j].period <= t[i].period
    BY DEF OwedBefore
  <2>1. CASE i \in 1..Len(s)
    <3>1. t[i] = s[i]
      BY <1>1, <2>1
    <3>2. PICK j \in 1..(i - 1) : s[j].id = x /\ s[j].period <= s[i].period
      BY <3>1, <2>1 DEF OwedBefore
    <3>3. t[j] = s[j]
      BY <1>1, <2>1
    <3> QED
      BY <3>1, <3>2, <3>3
  <2>2. CASE i = Len(s) + 1
    <3>1. t[i] = e
      BY <1>1, <2>2
    <3>2. PICK j \in 1..Len(s) : s[j].id = x /\ s[j].period <= e.period
      BY <3>1
    <3>3. t[j] = s[j] /\ j \in 1..(i - 1)
      BY <1>1, <2>2
    <3> QED
      BY <3>1, <3>2, <3>3
  <2> QED
    BY <1>2, <2>1, <2>2
<1> QED
  BY <1>3, <1>4 DEF t

(* Where the timer of id is. *)
LEMMA PlaceOf ==
  ASSUME LinearInv, NEW e \in Seqs!ToSet(linear.events)
  PROVE  \E p \in 1..Len(linear.events) :
           /\ linear.events[p] = e /\ e \in Timers
           /\ LinearUnset(linear, e.id).events = Seqs!RemoveAt(linear.events, p)
           /\ LinearUnset(linear, e.id).id = linear.id
           /\ LinearStep(linear, e.id).events = Append(Seqs!RemoveAt(linear.events, p), e)
           /\ LinearStep(linear, e.id).id = linear.id
           /\ LinearUnset(linear, e.id) \in [events : Seq(Timers), id : 0..MaxSets]
           /\ LinearStep(linear, e.id) \in [events : Seq(Timers), id : 0..MaxSets]
<1> DEFINE s == linear.events
<1>1. s \in Seq(Timers) /\ OneEach(s) /\ linear \in [events : Seq(Timers), id : 0..MaxSets]
  BY DEF LinearInv
<1>2. DOMAIN s = 1..Len(s)
  BY <1>1
<1>3. PICK p \in 1..Len(s) : s[p] = e
  BY <1>2 DEF Seqs!ToSet
<1>4. Armed(linear, e.id) = {p}
  BY <1>1, <1>2, <1>3 DEF Armed, OneEach
<1>5. (CHOOSE i \in Armed(linear, e.id) : TRUE) = p
  BY <1>4
<1>6. e \in Timers
  BY <1>1, <1>3, TimerAt
<1> DEFINE r == Seqs!RemoveAt(s, p)
<1>7. r \in Seq(Timers)
  BY <1>1, Removed
<1>8. LinearUnset(linear, e.id) = [linear EXCEPT !.events = r]
  BY <1>5 DEF LinearUnset
<1>9. LinearStep(linear, e.id) = [LinearUnset(linear, e.id) EXCEPT !.events = Append(@, e)]
  BY <1>3, <1>5 DEF LinearStep
<1> HIDE DEF r
<1>10. LinearUnset(linear, e.id).events = r /\ LinearUnset(linear, e.id).id = linear.id
       /\ LinearUnset(linear, e.id) \in [events : Seq(Timers), id : 0..MaxSets]
  BY <1>1, <1>7, <1>8
<1>11. Append(r, e) \in Seq(Timers)
  BY <1>6, <1>7, AppendProperties
<1>12. LinearStep(linear, e.id).events = Append(r, e) /\ LinearStep(linear, e.id).id = linear.id
       /\ LinearStep(linear, e.id) \in [events : Seq(Timers), id : 0..MaxSets]
  BY <1>1, <1>9, <1>10, <1>11
<1> QED
  BY <1>3, <1>6, <1>10, <1>12 DEF r

(* The timers that DueBefore names are in the table. *)
LEMMA DueAre ==
  ASSUME LinearInv, NEW i, NEW period, NEW x \in DueBefore(linear, i, period)
  PROVE  \E j \in 1..Len(linear.events) :
           linear.events[j].id = x /\ x # i /\ linear.events[j].period <= period
<1> DEFINE s == linear.events
<1>1. PICK f \in Seqs!ToSet(s) : f.id = x /\ f.id # i /\ f.period <= period
  BY DEF DueBefore
<1>2. DOMAIN s = 1..Len(s)
  BY DEF LinearInv
<1> QED
  BY <1>1, <1>2 DEF Seqs!ToSet

LEMMA NodeSetsRight ==
  ASSUME LinearInv, NEW period \in LinearPeriods, NodeSets(period)
  PROVE  LinearInv'
<1> DEFINE s == linear.events
           n == linear.id + 1
           e == [id |-> n, period |-> period]
<1>1. s \in Seq(Timers) /\ OneEach(s) /\ OwedBefore(s, owed) /\ linear.id \in 0..MaxSets /\ Len(s) \in Nat
      /\ DOMAIN owed = 1..MaxSets /\ \A i \in 1..Len(s) : s[i].id <= linear.id
  BY DEF LinearInv
<1>2. n \in 1..MaxSets /\ e \in Timers
  BY <1>1, LinearAssumption DEF NodeSets, Timers
<1>3. linear' = [events |-> Append(s, e), id |-> n]
      /\ owed' = [owed EXCEPT ![n] = DueBefore(linear, n, period)]
  BY DEF NodeSets, LinearSet
<1>4. \A i \in 1..Len(s) : s[i].id # e.id /\ s[i].id \in 1..MaxSets
  BY <1>1, TimerAt
<1>5. owed'[n] = DueBefore(linear, n, period) /\ DOMAIN owed' = 1..MaxSets
      /\ \A i \in 1..Len(s) : owed'[s[i].id] = owed[s[i].id]
  BY <1>1, <1>2, <1>3, <1>4
<1>6. OwedBefore(s, owed')
  BY <1>1, <1>5 DEF OwedBefore
<1>7. \A x \in owed'[e.id] : \E i \in 1..Len(s) : s[i].id = x /\ s[i].period <= e.period
  BY <1>5, DueAre
<1>8. OneEach(Append(s, e)) /\ OwedBefore(Append(s, e), owed')
  BY <1>1, <1>2, <1>4, <1>6, <1>7, ArmedRight
<1>9. Append(s, e) \in Seq(Timers) /\ Len(Append(s, e)) = Len(s) + 1 /\ Append(s, e)[Len(s) + 1] = e
      /\ \A i \in 1..Len(s) : Append(s, e)[i] = s[i]
  BY <1>1, <1>2, AppendProperties
<1> DEFINE t == Append(s, e)
<1>10. linear'.events = t /\ linear'.id = n /\ linear' \in [events : Seq(Timers), id : 0..MaxSets]
  BY <1>2, <1>3, <1>9
<1>11. ASSUME NEW i \in 1..Len(t) PROVE t[i].id <= n
  <2>1. CASE i = Len(s) + 1
    BY <2>1, <1>2, <1>9
  <2>2. CASE i # Len(s) + 1
    <3>1. i \in 1..Len(s)
      BY <2>2, <1>1, <1>9
    <3>2. t[i].id = s[i].id /\ s[i].id <= linear.id /\ s[i].id \in Nat
      BY <3>1, <1>1, <1>4, <1>9
    <3> QED
      BY <3>2, <1>1
  <2> QED
    BY <2>1, <2>2
<1> HIDE DEF t, n
<1> QED
  BY <1>5, <1>8, <1>10, <1>11 DEF LinearInv, t

LEMMA NodeUnsetsRight ==
  ASSUME LinearInv, NEW e \in Seqs!ToSet(linear.events), NodeUnsets(e)
  PROVE  LinearInv'
<1> DEFINE s == linear.events
<1>1. s \in Seq(Timers) /\ OneEach(s) /\ OwedBefore(s, owed) /\ DOMAIN owed = 1..MaxSets
      /\ \A i \in 1..Len(s) : s[i].id <= linear.id
  BY DEF LinearInv
<1>2. PICK p \in 1..Len(s) :
        /\ s[p] = e
        /\ LinearUnset(linear, e.id).events = Seqs!RemoveAt(s, p)
        /\ LinearUnset(linear, e.id).id = linear.id
        /\ LinearUnset(linear, e.id) \in [events : Seq(Timers), id : 0..MaxSets]
  BY PlaceOf
<1> DEFINE r == Seqs!RemoveAt(s, p)
<1>3. linear'.events = r /\ linear'.id = linear.id /\ linear' \in [events : Seq(Timers), id : 0..MaxSets]
      /\ owed' = [i \in DOMAIN owed |-> owed[i] \ {e.id}]
  BY <1>2 DEF NodeUnsets
<1>4. \A i \in 1..Len(s) : s[i].id \in 1..MaxSets
  BY <1>1, TimerAt
<1>5. Forgiven(s, p, owed, owed')
  BY <1>1, <1>2, <1>3, <1>4 DEF Forgiven
<1>6. OneEach(r) /\ OwedBefore(r, owed') /\ \A k \in 1..Len(r) : \E i \in 1..Len(s) : i # p /\ r[k] = s[i]
  BY <1>1, <1>5, RestRight
<1> HIDE DEF r
<1>7. \A k \in 1..Len(r) : r[k].id <= linear.id
  BY <1>1, <1>6
<1> QED
  BY <1>1, <1>3, <1>6, <1>7 DEF LinearInv

LEMMA SearchFiresRight ==
  ASSUME LinearInv, NEW e \in Seqs!ToSet(linear.events), SearchFires(e)
  PROVE  LinearInv'
<1> DEFINE s == linear.events
<1>1. s \in Seq(Timers) /\ OneEach(s) /\ OwedBefore(s, owed) /\ DOMAIN owed = 1..MaxSets
      /\ \A i \in 1..Len(s) : s[i].id <= linear.id
  BY DEF LinearInv
<1>2. PICK p \in 1..Len(s) :
        /\ s[p] = e /\ e \in Timers
        /\ LinearStep(linear, e.id).events = Append(Seqs!RemoveAt(s, p), e)
        /\ LinearStep(linear, e.id).id = linear.id
        /\ LinearStep(linear, e.id) \in [events : Seq(Timers), id : 0..MaxSets]
  BY PlaceOf
<1> DEFINE r == Seqs!RemoveAt(s, p)
<1>3. linear'.events = Append(r, e) /\ linear'.id = linear.id /\ linear' \in [events : Seq(Timers), id : 0..MaxSets]
      /\ owed' = [i \in DOMAIN owed |->
                    IF i = e.id THEN DueBefore(linear, e.id, e.period) ELSE owed[i] \ {e.id}]
  BY <1>2 DEF SearchFires
<1>4. \A i \in 1..Len(s) : s[i].id \in 1..MaxSets
  BY <1>1, TimerAt
<1>5. \A i \in 1..Len(s) : i # p => s[i].id # e.id
  BY <1>1, <1>2 DEF OneEach
<1>6. Forgiven(s, p, owed, owed')
  BY <1>1, <1>2, <1>3, <1>4, <1>5 DEF Forgiven
<1>7. owed'[e.id] = DueBefore(linear, e.id, e.period) /\ DOMAIN owed' = 1..MaxSets
  BY <1>1, <1>2, <1>3 DEF Timers
<1> DEFINE o2 == owed'
<1> HIDE DEF s, o2
<1>8. OneEach(r) /\ OwedBefore(r, o2) /\ (\A k \in 1..Len(r) : \E i \in 1..Len(s) : i # p /\ r[k] = s[i])
      /\ (\A i \in 1..Len(s) : i # p => \E k \in 1..Len(r) : r[k] = s[i])
  <2>1. Forgiven(s, p, owed, o2)
    BY <1>6 DEF o2
  <2> QED
    BY <1>1, <2>1, RestRight
<1> USE DEF s, o2
<1>9. r \in Seq(Timers)
  BY <1>1, Removed
<1> HIDE DEF r
<1>10. ASSUME NEW k \in 1..Len(r) PROVE r[k].id # e.id /\ r[k].id <= linear.id
  <2>1. PICK i \in 1..Len(s) : i # p /\ r[k] = s[i]
    BY <1>8
  <2> QED
    BY <1>1, <1>5, <2>1
<1>11. ASSUME NEW x \in owed'[e.id] PROVE \E k \in 1..Len(r) : r[k].id = x /\ r[k].period <= e.period
  <2>1. PICK j \in 1..Len(s) : s[j].id = x /\ x # e.id /\ s[j].period <= e.period
    BY <1>7, DueAre
  <2>2. j # p
    BY <2>1, <1>2
  <2>3. PICK k \in 1..Len(r) : r[k] = s[j]
    BY <2>2, <1>8
  <2> QED
    BY <2>1, <2>3
<1>12. OneEach(Append(r, e)) /\ OwedBefore(Append(r, e), owed')
  BY <1>2, <1>8, <1>9, <1>10, <1>11, ArmedRight
<1> DEFINE t == Append(r, e)
<1>13. Len(t) = Len(r) + 1 /\ t[Len(r) + 1] = e /\ (\A i \in 1..Len(r) : t[i] = r[i]) /\ Len(r) \in Nat
  BY <1>2, <1>9, AppendProperties
<1> HIDE DEF t
<1>14. ASSUME NEW i \in 1..Len(t) PROVE t[i].id <= linear.id
  <2>1. CASE i = Len(r) + 1
    BY <2>1, <1>1, <1>2, <1>13
  <2>2. CASE i # Len(r) + 1
    <3>1. i \in 1..Len(r)
      BY <2>2, <1>13
    <3> QED
      BY <3>1, <1>10, <1>13
  <2> QED
    BY <2>1, <2>2
<1> QED
  BY <1>3, <1>7, <1>12, <1>14 DEF LinearInv, t

(* In a prefix in which every period is less than the one before, it is    *)
(* less than all before.                                                   *)
LEMMA Decreasing ==
  ASSUME NEW s \in Seq(Timers), NEW i \in 1..Len(s), \A k \in 2..i : s[k].period < s[k - 1].period,
         NEW j \in 1..(i - 1)
  PROVE  s[i].period < s[j].period
<1> DEFINE T == {k \in (j + 1)..i : ~(s[k].period < s[j].period)}
<1>1. SUFFICES ASSUME T # {} PROVE FALSE
  <2>1. i \in (j + 1)..i
    OBVIOUS
  <2> QED
    BY <2>1, <1>1
<1>2. T \subseteq Nat
  OBVIOUS
<1>3. PICK m \in T : \A k \in T : ~(<<k, m>> \in OpToRel(<, Nat))
  BY <1>1, <1>2, WFMin, NatLessThanWellFounded
<1>4. m \in (j + 1)..i /\ ~(s[m].period < s[j].period) /\ m \in Nat
  OBVIOUS
<1>5. s[m].period < s[m - 1].period
  BY <1>4
<1>6. m - 1 \notin T
  <2>1. m - 1 \in Nat /\ m - 1 < m
    BY <1>4
  <2>2. <<m - 1, m>> \in OpToRel(<, Nat)
    BY <1>4, <2>1 DEF OpToRel
  <2> HIDE DEF T
  <2> QED
    BY <2>2, <1>3
<1>7. s[m].period \in Nat /\ s[m - 1].period \in Nat /\ s[j].period \in Nat
  <2>1. m \in 1..Len(s) /\ m - 1 \in 1..Len(s) /\ j \in 1..Len(s)
    BY <1>4
  <2> QED
    BY <2>1, TimerAt
<1>8. m - 1 = j \/ m - 1 \in (j + 1)..i
  <2>1. m \in Nat /\ j + 1 <= m /\ m <= i
    BY <1>4
  <2> HIDE DEF T
  <2> QED
    BY <2>1
<1>9. m - 1 = j \/ s[m - 1].period < s[j].period
  <2>1. m - 1 \in (j + 1)..i => s[m - 1].period < s[j].period
    BY <1>6
  <2> QED
    BY <1>8, <2>1
<1> HIDE DEF T
<1>10. CASE m - 1 = j
  BY <1>4, <1>5, <1>10
<1>11. CASE s[m - 1].period < s[j].period
  <2> DEFINE a == s[m].period
             b == s[m - 1].period
             c == s[j].period
  <2>1. a < b /\ b < c /\ ~(a < c) /\ a \in Nat /\ b \in Nat /\ c \in Nat
    BY <1>4, <1>5, <1>7, <1>11
  <2> HIDE DEF a, b, c
  <2> QED
    BY <2>1
<1> QED
  BY <1>9, <1>10, <1>11

LEMMA NoneOvertakes == ASSUME LinearInv PROVE NoOvertaking
<1> DEFINE s == linear.events
<1>1. s \in Seq(Timers) /\ OwedBefore(s, owed) /\ DOMAIN s = 1..Len(s)
  BY DEF LinearInv
<1> SUFFICES ASSUME NEW i \in 1..Len(s), \A k \in 2..i : s[k].period < s[k - 1].period, NEW x \in owed[s[i].id]
             PROVE  FALSE
  BY <1>1 DEF NoOvertaking, LinearEvents
<1>2. PICK j \in 1..(i - 1) : s[j].id = x /\ s[j].period <= s[i].period
  BY <1>1 DEF OwedBefore
<1>3. s[i].period < s[j].period
  BY <1>1, Decreasing
<1>4. s[i].period \in Nat /\ s[j].period \in Nat
  <2>1. j \in 1..Len(s)
    BY <1>1
  <2> QED
    BY <2>1, <1>1, TimerAt
<1> QED
  BY <1>2, <1>3, <1>4

(***************************************************************************)
(* Every table that setting, unsetting and firing can make satisfies       *)
(* LinearInv: what a timer is owed stands before it (set, unset and step   *)
(* of linear.rs).                                                          *)
(***************************************************************************)
THEOREM LinearInvariance == LinearSpec => []LinearInv
<1>1. LinearInit => LinearInv
  BY LinearAssumption DEF LinearInit, LinearNew, LinearInv, OneEach, OwedBefore
<1>2. ASSUME LinearInv, [LinearNext]_linearVars PROVE LinearInv'
  <2>1. CASE UNCHANGED linearVars
    BY <1>2, <2>1 DEF LinearInv, linearVars
  <2> QED
    BY <1>2, <2>1, NodeSetsRight, NodeUnsetsRight, SearchFiresRight DEF LinearNext
<1> QED
  BY <1>1, <1>2, PTL DEF LinearSpec

(***************************************************************************)
(* events() of linear.rs offers no timer before one that every clock fires *)
(* first: from one firing to the next of a timer, each timer with a period *)
(* that is no longer fires as well, or is unset.                           *)
(***************************************************************************)
THEOREM NothingOvertakes == LinearSpec => []NoOvertaking
<1>1. LinearInv => NoOvertaking
  BY NoneOvertakes
<1> QED
  BY <1>1, LinearInvariance, PTL

-----------------------------------------------------------------------------
(***************************************************************************)
(* Boson: the clock of an event is an exact account of the increments in   *)
(* its past.                                                               *)
(***************************************************************************)
(* The increments that counters account for. *)
PastOf(counters) == {x \in Counters \X (1..U32Max) : x[2] <= counters[x[1]]}

(* The clock of an event is proved for the program's circuit, and its past *)
(* is what its counters say. The order of clocks is then the order of      *)
(* pasts (PastsOrdered).                                                   *)
Exact(event) ==
  /\ event.clock.circuit = Circuit
  /\ event.clock.counters \in [Counters -> 0..U32Max]
  /\ event.past = PastOf(event.clock.counters)

(* The inductive invariant: every event held or published is exact. *)
BosonInv ==
  /\ DOMAIN held = Counters
  /\ \A i \in Counters : Exact(held[i])
  /\ \A e \in published : Exact(e)
  /\ AssertionsHold

(* Counters are ordered, counter by counter, as the pasts they account for *)
(* are.                                                                    *)
LEMMA PastsOrdered ==
  ASSUME NEW c \in [Counters -> 0..U32Max], NEW d \in [Counters -> 0..U32Max]
  PROVE  (\A i \in Counters : c[i] <= d[i]) <=> PastOf(c) \subseteq PastOf(d)
<1>1. ASSUME \A i \in Counters : c[i] <= d[i], NEW x \in PastOf(c) PROVE x \in PastOf(d)
  <2>1. x \in Counters \X (1..U32Max) /\ x[1] \in Counters /\ x[2] \in 1..U32Max /\ x[2] <= c[x[1]]
    BY DEF PastOf
  <2>2. c[x[1]] \in 0..U32Max /\ d[x[1]] \in 0..U32Max /\ c[x[1]] <= d[x[1]]
    BY <1>1, <2>1
  <2>3. x[2] <= d[x[1]]
    BY <2>1, <2>2, CountersAssumption
  <2> QED
    BY <2>1, <2>3 DEF PastOf
<1>2. ASSUME PastOf(c) \subseteq PastOf(d), NEW i \in Counters PROVE c[i] <= d[i]
  <2>1. c[i] \in 0..U32Max /\ d[i] \in 0..U32Max
    OBVIOUS
  <2>2. CASE c[i] = 0
    BY <2>1, <2>2, CountersAssumption
  <2>3. CASE c[i] # 0
    <3>1. <<i, c[i]>> \in PastOf(c)
      BY <2>1, <2>3, CountersAssumption DEF PastOf
    <3> QED
      BY <1>2, <3>1 DEF PastOf
  <2> QED
    BY <2>2, <2>3
<1> QED
  BY <1>1, <1>2

LEMMA ColumnSize ==
  ASSUME NEW i, NEW n \in Nat
  PROVE  Cardinality({i} \X (1..n)) = n
<1>1. IsFiniteSet({i}) /\ Cardinality({i}) = 1
  BY FS_Singleton
<1>2. IsFiniteSet(1..n) /\ Cardinality(1..n) = n
  BY FS_Interval
<1>3. Cardinality({i} \X (1..n)) = 1 * n
  BY <1>1, <1>2, FS_Product
<1> QED
  BY <1>3

(* The increments of i in a past are as many as the counter of i says. *)
LEMMA MadeBy ==
  ASSUME NEW c \in [Counters -> 0..U32Max], NEW i \in Counters
  PROVE  Cardinality({x \in PastOf(c) : x[1] = i}) = c[i]
<1>1. c[i] \in 0..U32Max /\ c[i] \in Nat
  BY CountersAssumption
<1>2. {x \in PastOf(c) : x[1] = i} = {i} \X (1..c[i])
  BY <1>1, CountersAssumption DEF PastOf
<1> QED
  BY <1>1, <1>2, ColumnSize

LEMMA PublishRight ==
  ASSUME BosonInv, NEW i \in Counters \ panicked, NEW event, Exact(event), Publish(i, event),
         panicked' = panicked
  PROVE  BosonInv'
  BY DEF BosonInv, Publish, AssertionsHold

(* update with no clock to merge: the output of increment is the counter   *)
(* plus one, or the addition overflows and the prover panics.              *)
LEMMA IncrementRight ==
  ASSUME BosonInv, NEW i \in Counters \ panicked, NEW index \in Counters, Increment(i, index)
  PROVE  BosonInv'
<1> DEFINE clock == held[i].clock
           c == clock.counters
           counter == c[index] + 1
           output == OutputCounters(clock, clock, index, counter)
           made == Cardinality({x \in held[i].past : x[1] = i}) + 1
           new == [c EXCEPT ![index] = counter]
           event == [clock |-> [counters |-> output, circuit |-> Circuit],
                     past |-> held[i].past \cup {<<i, made>>}]
<1>1. Exact(held[i]) /\ c \in [Counters -> 0..U32Max] /\ c[index] \in 0..U32Max /\ counter \in Nat
  BY CountersAssumption DEF BosonInv, Exact
<1>2. CASE counter > U32Max
  <2>1. c[index] = U32Max
    BY <1>1, <1>2, CountersAssumption
  <2>2. BosonPanic(i)
    BY <1>2 DEF Increment
  <2> QED
    BY <2>1, <2>2 DEF BosonPanic, BosonInv, AssertionsHold
<1>3. CASE counter <= U32Max /\ ~Provable(clock, clock, index, index_secret(i))
  <2>1. UNCHANGED bosonVars
    BY <1>1, <1>3, CountersAssumption DEF Increment
  <2> QED
    BY <2>1 DEF bosonVars, BosonInv, AssertionsHold
<1>4. CASE counter <= U32Max /\ Provable(clock, clock, index, index_secret(i))
  <2>1. i = index
    BY <1>4 DEF Provable, UpdatedKey, public_key, index_secret
  <2>2. output = new
    <3>1. ASSUME NEW j \in Counters PROVE output[j] = new[j]
      <4>1. c[j] \in 0..U32Max /\ c[j] \in Nat
        BY <1>1, CountersAssumption
      <4> QED
        BY <1>1, <4>1, CountersAssumption DEF OutputCounters, Maximum
    <3> QED
      BY <1>1, <3>1 DEF OutputCounters
  <2>3. made = counter
    BY <1>1, <2>1, MadeBy DEF Exact
  <2>4. new \in [Counters -> 0..U32Max]
    BY <1>1, <1>4, CountersAssumption
  <2>5. PastOf(c) \cup {<<i, counter>>} = PastOf(new)
    <3>1. <<i, counter>> \in Counters \X (1..U32Max)
      BY <1>1, <1>4, CountersAssumption
    <3>2. ASSUME NEW j \in Counters, NEW n \in 1..U32Max
          PROVE  n <= new[j] <=> (n <= c[j] \/ <<j, n>> = <<i, counter>>)
      <4>1. CASE j = i
        BY <1>1, <2>1, <4>1, CountersAssumption
      <4>2. CASE j # i
        BY <1>1, <2>1, <4>2
      <4> QED
        BY <4>1, <4>2
    <3> HIDE DEF new, counter
    <3> QED
      BY <3>1, <3>2 DEF PastOf
  <2>6. event.clock.circuit = Circuit /\ event.clock.counters = output
        /\ event.past = held[i].past \cup {<<i, made>>} /\ held[i].past = PastOf(c)
    BY <1>1 DEF Exact
  <2>7. Publish(i, event) /\ panicked' = panicked
    BY <1>1, <1>4, <2>2, CountersAssumption DEF Increment
  <2> HIDE DEF event, output, made, new, counter
  <2>8. Exact(event)
    BY <2>2, <2>3, <2>4, <2>5, <2>6 DEF Exact
  <2> QED
    BY <2>7, <2>8, PublishRight
<1> QED
  BY <1>1, <1>2, <1>3, <1>4, CountersAssumption

(* update with a clock to merge: the maximum, counter by counter, accounts *)
(* for the union of the pasts.                                             *)
LEMMA MergeRight ==
  ASSUME BosonInv, NEW i \in Counters \ panicked,
         NEW e \in published \cup {[clock |-> OtherGenesis, past |-> {}]}, Merge(i, e)
  PROVE  BosonInv'
<1> DEFINE clock1 == held[i].clock
           clock2 == e.clock
           c == clock1.counters
           d == clock2.counters
           output == OutputCounters(clock1, clock2, S + 1, U32Max)
           event == [clock |-> [counters |-> output, circuit |-> Circuit],
                     past |-> held[i].past \cup e.past]
<1>1. CASE ~Provable(clock1, clock2, S + 1, DUMMY_SECRET)
  <2>1. UNCHANGED bosonVars
    BY <1>1 DEF Merge
  <2> QED
    BY <2>1 DEF bosonVars, BosonInv, AssertionsHold
<1>2. CASE Provable(clock1, clock2, S + 1, DUMMY_SECRET)
  <2>1. Exact(held[i]) /\ Exact(e)
    BY <1>2 DEF BosonInv, Provable, Verify, OtherGenesis, Circuit
  <2>2. /\ c \in [Counters -> 0..U32Max] /\ d \in [Counters -> 0..U32Max]
        /\ held[i].past = PastOf(c) /\ e.past = PastOf(d)
    BY <2>1 DEF Exact
  <2>3. S + 1 \notin Counters
    BY CountersAssumption DEF Counters
  <2>4. \A j \in Counters : output[j] = Maximum(c[j], d[j])
    BY <2>3 DEF OutputCounters
  <2>5. /\ output \in [Counters -> 0..U32Max]
        /\ \A j \in Counters : \A n \in 1..U32Max : n <= output[j] <=> n <= c[j] \/ n <= d[j]
    <3>1. ASSUME NEW j \in Counters
          PROVE  /\ output[j] \in 0..U32Max
                 /\ \A n \in 1..U32Max : n <= output[j] <=> n <= c[j] \/ n <= d[j]
      <4>1. c[j] \in 0..U32Max /\ d[j] \in 0..U32Max
        BY <2>2
      <4> QED
        BY <2>4, <4>1, CountersAssumption DEF Maximum
    <3> QED
      BY <3>1 DEF OutputCounters
  <2>6. PastOf(output) = PastOf(c) \cup PastOf(d)
    <3> HIDE DEF output
    <3> QED
      BY <2>5 DEF PastOf
  <2>7. event.clock.circuit = Circuit /\ event.clock.counters = output
        /\ event.past = held[i].past \cup e.past
    OBVIOUS
  <2>8. Publish(i, event) /\ panicked' = panicked
    BY <1>2, <2>4 DEF Merge
  <2> HIDE DEF event, output
  <2>9. Exact(event)
    BY <2>2, <2>5, <2>6, <2>7 DEF Exact
  <2> QED
    BY <2>8, <2>9, PublishRight
<1> QED
  BY <1>1, <1>2

(***************************************************************************)
(* Every event that a node holds or publishes carries the exact account of *)
(* its past, whatever clocks are merged in whatever order (update,         *)
(* increment and merge of boson/src/lib.rs).                               *)
(***************************************************************************)
THEOREM BosonInvariance == BosonSpec => []BosonInv
<1>1. BosonInit => BosonInv
  <2> SUFFICES ASSUME BosonInit PROVE BosonInv
    OBVIOUS
  <2> DEFINE event == [clock |-> Genesis, past |-> {}]
  <2>1. Exact(event)
    BY CountersAssumption DEF Exact, Genesis, PastOf
  <2> QED
    BY <2>1 DEF BosonInit, BosonInv, AssertionsHold
<1>2. BosonInv /\ [BosonNext]_bosonVars => BosonInv'
  <2> SUFFICES ASSUME BosonInv, [BosonNext]_bosonVars PROVE BosonInv'
    OBVIOUS
  <2>1. CASE UNCHANGED bosonVars
    BY <2>1 DEF bosonVars, BosonInv, AssertionsHold
  <2> QED
    BY <2>1, IncrementRight, MergeRight DEF BosonNext
<1> QED
  BY <1>1, <1>2, PTL DEF BosonSpec

(***************************************************************************)
(* Comparing the clocks of two published events tells whether the past of  *)
(* one is within the past of the other, and no prover meets the assertions *)
(* on the counters it proved (lib.rs:306, 346); it panics at a counter     *)
(* that has reached its limit only, where the addition of increment        *)
(* overflows.                                                              *)
(***************************************************************************)
THEOREM ClocksAreSound == BosonSpec => []ClocksSound
<1>1. BosonInv => ClocksOrderEvents
  <2> SUFFICES ASSUME BosonInv, NEW e \in published, NEW f \in published
               PROVE  Leq(e.clock, f.clock) <=> e.past \subseteq f.past
    BY DEF ClocksOrderEvents
  <2>1. Exact(e) /\ Exact(f)
    BY DEF BosonInv
  <2> QED
    BY <2>1, PastsOrdered DEF Exact, Leq
<1>2. BosonInv => ClocksSound
  BY <1>1 DEF BosonInv, ClocksSound
<1> QED
  BY <1>2, BosonInvariance, PTL

-----------------------------------------------------------------------------
(***************************************************************************)
(* Search.  The invariant is told of a system y, the table disc of what is *)
(* discovered, the queues qs, the workers wk and the flag fl, so that it   *)
(* speaks of one state at a time.                                          *)
(***************************************************************************)

(* Where a worker is that works on a level, and where one is between the   *)
(* barrier and the next level; the walkers of a random search.             *)
Working == {"pop", "expand", "check", "leave", "arrive", "wait"}
Gate == {"flag", "empty", "sleep", "quit", "exit"}
Roaming == {"probe", "walk", "done", "exit"}

EventType == [fails : BOOLEAN, to : Nodes \cup {None}]
InfoType == [prev : Nodes \cup {None}, depth : 0..MaxDepth]
WorkerType ==
    [pc : Working \cup Gate \cup Roaming, queue : 1..2, depth : 0..MaxDepth - 1,
     state : Nodes \cup {None}, events : SUBSET EventType, next : Nodes \cup {None},
     trace : Seq(Nodes)]

SearchShape ==
    /\ sys \in Systems
    /\ discovered \in [Nodes -> {None} \cup InfoType]
    /\ queues \in [1..2 -> Seq(Nodes)]
    /\ flag \in BOOLEAN
    /\ worker \in [Workers -> WorkerType]
    /\ waiting = {w \in Workers : At(w, "wait")}
    /\ main \in {"wait", "stop", "join", "return"}

(* What the definitions of Search say of the system at hand, said of y.    *)
Open(y) == {Initial} \cup (Nodes \ (y.prune \cup y.bad \cup y.goal))

Moves(y, n) == {[fails |-> FALSE, to |-> m] : m \in y.succ[n]}
                  \cup (IF n \in y.fails THEN {[fails |-> TRUE, to |-> None]} ELSE {})

Reach(y) ==
    LET f[k \in 0..MaxDepth] ==
            IF k = 0 THEN {Initial}
            ELSE f[k - 1] \cup UNION {y.succ[n] : n \in f[k - 1] \cap Open(y)}
    IN  f

Known(disc) == {n \in Nodes : disc[n] # None}

Elements(s) == {s[i] : i \in DOMAIN s}

Works(r) == r.pc \in Working

(* Workers of one level have one depth and one queue; those that work are  *)
(* a level ahead of those that are still between the levels.               *)
Abreast(wk) ==
    \A v, w \in Workers :
        /\ (Works(wk[v]) <=> Works(wk[w])) =>
              wk[v].depth = wk[w].depth /\ wk[v].queue = wk[w].queue
        /\ Works(wk[v]) /\ ~Works(wk[w]) =>
              wk[v].depth = wk[w].depth + 1 /\ wk[v].queue = 3 - wk[w].queue

(* What a worker is at, and why it left its level.                         *)
WorkerRight(y, disc, qs, fl, r) ==
    /\ r.pc \in Working \cup Gate
    /\ r.pc \in {"expand", "check"} =>
          /\ r.state \in Known(disc) \cap Open(y) /\ disc[r.state].depth = r.depth
          /\ r.events \subseteq Moves(y, r.state)
    /\ r.pc = "check" => r.next \in Known(disc) /\ disc[r.next].depth = r.depth + 1
    /\ r.pc \in {"arrive", "wait"} => fl \/ qs[r.queue] = <<>>
    /\ r.pc = "sleep" => r.depth + 1 # MaxDepth

FoundRight(y, disc) ==
    /\ Initial \in Known(disc) /\ disc[Initial].depth = 0
    /\ \A n \in Known(disc) \ {Initial} :
          /\ disc[n].depth >= 1
          /\ n \in Reach(y)[disc[n].depth] \ Reach(y)[disc[n].depth - 1]
          /\ disc[n].prev \in Known(disc) /\ n \in y.succ[disc[n].prev]
          /\ disc[disc[n].prev].depth + 1 = disc[n].depth

Interrupted(wk, fl) == fl \/ \E v \in Workers : wk[v].pc = "leave"

(* Everything within k events was seen, and nothing before was reported.   *)
Clean(y, disc, k) ==
    /\ Reach(y)[k] \subseteq Known(disc)
    /\ Reach(y)[k] \cap (y.bad \cup y.goal) \subseteq {Initial}
    /\ k >= 1 => Reach(y)[k - 1] \cap Open(y) \cap y.fails = {}

Queued(y, disc, queue, k) ==
    \A m \in Elements(queue) : m \in Known(disc) \cap Open(y) /\ disc[m].depth = k /\ k # MaxDepth

Checking(wk, n) == \E v \in Workers : wk[v].pc = "check" /\ wk[v].next = n

Expanding(wk, n, e) ==
    \E v \in Workers : wk[v].pc \in {"expand", "check"} /\ wk[v].state = n /\ e \in wk[v].events

(* The states of the level that are left are queued or being expanded, the *)
(* ones of the next level queued or being checked.                         *)
Remaining(y, disc, qs, wk, fl, d, q) ==
    \A m \in Reach(y)[d] \cap Open(y) : \A e \in Moves(y, m) :
        \/ ~e.fails /\ e.to \in Known(disc)
        \/ m \in Elements(qs[q])
        \/ Expanding(wk, m, e)
        \/ Interrupted(wk, fl)

Coming(y, disc, qs, wk, d, q) ==
    \A m \in Known(disc) \cap Open(y) :
        disc[m].depth = d + 1 /\ d + 1 # MaxDepth => m \in Elements(qs[3 - q]) \/ Checking(wk, m)

Reporting(y, disc, wk, fl, d) ==
    \A m \in Known(disc) \cap (y.bad \cup y.goal) :
        disc[m].depth = d + 1 => Checking(wk, m) \/ Interrupted(wk, fl)

LevelRight(y, disc, qs, wk, fl, d, q) ==
    /\ Clean(y, disc, d)
    /\ \A n \in Known(disc) : disc[n].depth <= d + 1
    /\ Queued(y, disc, qs[q], d) /\ Queued(y, disc, qs[3 - q], d + 1)
    /\ Remaining(y, disc, qs, wk, fl, d, q)
    /\ Coming(y, disc, qs, wk, d, q)
    /\ Reporting(y, disc, wk, fl, d)

LevelsRight(y, disc, qs, wk, fl) ==
    \A w \in Workers : Works(wk[w]) => LevelRight(y, disc, qs, wk, fl, wk[w].depth, wk[w].queue)

(* A worker that found the search not ended is to go on with a level that  *)
(* is complete.                                                            *)
Passed(fl, r) == r.pc \in {"empty", "sleep"} \/ (r.pc = "flag" /\ ~fl)

Halted(wk) == \A v \in Workers : ~Works(wk[v])

NextRight(y, disc, qs, d, q) ==
    /\ \A n \in Known(disc) : disc[n].depth <= d + 1
    /\ qs[q] = <<>> /\ Queued(y, disc, qs[3 - q], d + 1)
    /\ \A m \in Known(disc) \cap Open(y) :
          disc[m].depth = d + 1 /\ d + 1 # MaxDepth => m \in Elements(qs[3 - q])

PassedRight(y, disc, qs, wk, fl) ==
    \A w \in Workers :
        Passed(fl, wk[w]) =>
            /\ Clean(y, disc, wk[w].depth + 1)
            /\ Halted(wk) => NextRight(y, disc, qs, wk[w].depth, wk[w].queue)

(* The sleep is long enough. *)
PromptRight(y, wk) ==
    y.prompt => \A v, w \in Workers : Works(wk[v]) => wk[w].pc \notin {"flag", "empty"}

(* Without a time limit: who ends the search is seen by all at one barrier.*)
Signalled(wk, fl) == Interrupted(wk, fl) \/ \E v \in Workers : wk[v].pc = "quit"

Together(wk, fl) ==
    \A v, w \in Workers :
        /\ wk[v].pc = "exit" => fl
        /\ wk[v].pc \in {"exit", "quit"} => ~Works(wk[w]) /\ wk[w].pc # "sleep"

Decided(qs, wk, fl) ==
    Halted(wk) => \A w \in Workers :
        /\ wk[w].pc \in {"empty", "sleep"} /\ fl => qs[3 - wk[w].queue] = <<>>
        /\ wk[w].pc = "sleep" => qs[3 - wk[w].queue] # <<>>
        /\ wk[w].pc = "quit" => qs[3 - wk[w].queue] = <<>>

(* What may be reported.                                                   *)
ResultRight(y, disc, res) ==
    \/ res \in {None, Timeout}
    \/ res = SpaceExhausted /\ (y.prompt => Clean(y, disc, MaxDepth))
    \/ \E n \in Known(disc) :
          \/ res = Error(n) /\ disc[n].depth < MaxDepth /\ Clean(y, disc, disc[n].depth)
          \/ /\ res \in {InvariantViolation(n), GoalFound(n)}
             /\ disc[n].depth >= 1 /\ Clean(y, disc, disc[n].depth - 1)

FinishRight ==
    sys.prompt /\ ~sys.limit =>
        /\ result # None \/ main # "wait" => Signalled(worker, flag)
        /\ Together(worker, flag)
        /\ Decided(queues, worker, flag)

BreadthInv ==
    /\ FoundRight(sys, discovered)
    /\ \A w \in Workers : WorkerRight(sys, discovered, queues, flag, worker[w])
    /\ Abreast(worker)
    /\ LevelsRight(sys, discovered, queues, worker, flag)
    /\ PassedRight(sys, discovered, queues, worker, flag)
    /\ PromptRight(sys, worker)
    /\ FinishRight
    /\ ResultRight(sys, discovered, result) /\ ResultRight(sys, discovered, outcome)

(* A walk leads from the initial state through states that are expanded.   *)
Way(trace) == <<Initial>> \o trace

WayRight(y, trace) ==
    \A i \in 1..Len(trace) : Way(trace)[i] \in Open(y) /\ Way(trace)[i + 1] \in y.succ[Way(trace)[i]]

WalkerRight(y, r) ==
    /\ r.pc \in Roaming
    /\ r.pc = "walk" => /\ WayRight(y, r.trace) /\ Len(r.trace) = r.depth
                        /\ r.state = Way(r.trace)[Len(r.trace) + 1] /\ r.state \in Open(y)

WalkedRight(y, res) ==
    \/ res \in {None, Timeout}
    \/ /\ res.trace \in Seq(Nodes) /\ WayRight(y, res.trace) /\ Len(res.trace) <= MaxDepth
       /\ LET last == Way(res.trace)[Len(res.trace) + 1]
          IN  \/ res.kind = "Error" /\ last \in y.fails /\ Len(res.trace) < MaxDepth
              \/ res.kind = "InvariantViolation" /\ last \in y.bad
              \/ res.kind = "GoalFound" /\ last \in y.goal \ y.bad

RandomInv ==
    /\ \A w \in Workers : WalkerRight(sys, worker[w])
    /\ Known(discovered) = {Initial}
    /\ WalkedRight(sys, result) /\ WalkedRight(sys, outcome)

SearchInv == SearchShape /\ IF sys.random THEN RandomInv ELSE BreadthInv

-----------------------------------------------------------------------------
LEMMA LeastNumber ==
  ASSUME NEW T \in SUBSET Nat, T # {}
  PROVE  \E n \in T : \A m \in T : n <= m
<1>1. PICK n \in T : \A m \in T : ~(<<m, n>> \in OpToRel(<, Nat))
  BY NatLessThanWellFounded, WFMin
<1>2. ASSUME NEW m \in T, m < n PROVE FALSE
  <2>1. <<m, n>> \in OpToRel(<, Nat)
    BY <1>2 DEF OpToRel
  <2> QED
    BY <1>1, <2>1
<1>3. \A m \in T : n <= m
  BY <1>2
<1> QED
  BY <1>3

LEMMA SystemIs ==
  ASSUME NEW y \in Systems
  PROVE  /\ Initial \in Nodes /\ y.succ \in [Nodes -> SUBSET Nodes]
         /\ y.fails \subseteq Nodes /\ y.bad \subseteq Nodes /\ y.goal \subseteq Nodes
         /\ y.random \in BOOLEAN /\ y.limit \in BOOLEAN /\ y.prompt \in BOOLEAN
         /\ Open(y) \subseteq Nodes /\ Initial \in Open(y)
  BY SystemsAssumption DEF Open

(* The function that is meant is there: up to any depth, since there is no *)
(* least one where it fails to be.                                         *)
LEMMA ReachIs ==
  ASSUME NEW y \in Systems
  PROVE  /\ Reach(y) \in [0..MaxDepth -> SUBSET Nodes]
         /\ Reach(y)[0] = {Initial}
         /\ \A k \in 1..MaxDepth :
               Reach(y)[k] = Reach(y)[k - 1] \cup UNION {y.succ[n] : n \in Reach(y)[k - 1] \cap Open(y)}
<1> DEFINE More(ms) == ms \cup UNION {y.succ[n] : n \in ms \cap Open(y)}
           Right(f, m) == /\ f \in [0..m -> SUBSET Nodes] /\ f[0] = {Initial}
                          /\ \A k \in 1..m : f[k] = More(f[k - 1])
           T == {m \in Nat : ~ \E f : Right(f, m)}
<1>1. MaxDepth \in Nat
  BY DepthAssumption
<1>2. \A ms \in SUBSET Nodes : More(ms) \in SUBSET Nodes
  BY SystemIs
<1>3. ASSUME NEW m \in T, \A n \in T : m <= n PROVE FALSE
  <2>1. CASE m = 0
    <3> DEFINE f == [k \in 0..0 |-> {Initial}]
    <3>1. Right(f, 0)
      BY SystemIs
    <3> QED
      BY <2>1, <3>1
  <2>2. CASE m # 0
    <3>0. m \in Nat /\ m - 1 \in Nat
      BY <2>2
    <3>1. m - 1 \in Nat /\ m - 1 \notin T
      <4> HIDE DEF T
      <4> QED
        BY <3>0, <1>3
    <3>2. PICK g : Right(g, m - 1)
      BY <3>1
    <3> HIDE DEF More
    <3> DEFINE f == [k \in 0..m |-> IF k = m THEN More(g[m - 1]) ELSE g[k]]
    <3>3. g[m - 1] \in SUBSET Nodes
      BY <3>1, <3>2
    <3>4. More(g[m - 1]) \in SUBSET Nodes
      BY <3>3, <1>2
    <3>5. f \in [0..m -> SUBSET Nodes]
      BY <3>1, <3>2, <3>4
    <3>6. f[0] = {Initial}
      BY <2>2, <3>2
    <3>7. ASSUME NEW k \in 1..m PROVE f[k] = More(f[k - 1])
      <4>1. k - 1 \in 0..m /\ k - 1 # m
        OBVIOUS
      <4>2. f[k - 1] = g[k - 1]
        BY <4>1
      <4>3. CASE k = m
        BY <4>2, <4>3
      <4>4. CASE k # m
        <5>1. k \in 1..m - 1
          BY <4>4
        <5>2. f[k] = g[k]
          BY <4>4
        <5> QED
          BY <5>1, <5>2, <4>2, <3>2
      <4> QED
        BY <4>3, <4>4
    <3>8. Right(f, m)
      BY <3>5, <3>6, <3>7
    <3> QED
      BY <3>8
  <2> QED
    BY <2>1, <2>2
<1>4. T = {}
  <2>1. T \in SUBSET Nat
    OBVIOUS
  <2> HIDE DEF T
  <2> QED
    BY <2>1, <1>3, LeastNumber
<1>5. PICK f : Right(f, MaxDepth)
  BY <1>1, <1>4
<1> HIDE DEF T
<1>6. f = [k \in 0..MaxDepth |-> IF k = 0 THEN {Initial} ELSE More(f[k - 1])]
  <2>1. ASSUME NEW k \in 0..MaxDepth PROVE f[k] = IF k = 0 THEN {Initial} ELSE More(f[k - 1])
    BY <1>1, <1>5
  <2> HIDE DEF More
  <2> QED
    BY <2>1, <1>5
<1> DEFINE r == Reach(y)
<1>7. r = [k \in 0..MaxDepth |-> IF k = 0 THEN {Initial} ELSE More(r[k - 1])]
  BY <1>6 DEF Reach
<1> HIDE DEF r
<1>8. r[0] = {Initial} /\ \A k \in 1..MaxDepth : r[k] = More(r[k - 1])
  BY <1>1, <1>7
<1>9. r \in [0..MaxDepth -> SUBSET Nodes]
  <2> DEFINE Wrong == {k \in Nat : k \in 0..MaxDepth /\ ~(r[k] \in SUBSET Nodes)}
  <2>1. ASSUME NEW k \in Wrong, \A n \in Wrong : k <= n PROVE FALSE
    <3>1. k # 0
      BY <1>8, SystemIs
    <3>2. k - 1 \in Nat /\ k - 1 \in 0..MaxDepth /\ k \in 1..MaxDepth
      BY <3>1, <1>1
    <3>3. r[k - 1] \in SUBSET Nodes
      BY <3>2, <2>1
    <3> QED
      BY <3>2, <3>3, <1>8, <1>2
  <2>2. Wrong \in SUBSET Nat
    OBVIOUS
  <2>3. Wrong = {}
    <3> HIDE DEF Wrong
    <3> QED
      BY <2>1, <2>2, LeastNumber
  <2>4. \A k \in 0..MaxDepth : r[k] \in SUBSET Nodes
    BY <2>3, <1>1
  <2>5. DOMAIN r = 0..MaxDepth
    BY <1>7
  <2>6. r = [k \in 0..MaxDepth |-> r[k]]
    BY <1>7
  <2> QED
    BY <2>4, <2>6
<1> QED
  BY <1>8, <1>9 DEF r

LEMMA ReachGrows ==
  ASSUME NEW y \in Systems, NEW j \in 0..MaxDepth, NEW k \in 0..MaxDepth, j <= k
  PROVE  Reach(y)[j] \subseteq Reach(y)[k]
<1> DEFINE Wrong == {m \in Nat : m \in j..MaxDepth /\ ~(Reach(y)[j] \subseteq Reach(y)[m])}
<1>1. MaxDepth \in Nat /\ j \in Nat
  BY DepthAssumption
<1>2. ASSUME NEW m \in Wrong, \A n \in Wrong : m <= n PROVE FALSE
  <2>1. m # j
    OBVIOUS
  <2>2. m - 1 \in Nat /\ m - 1 \in j..MaxDepth /\ m \in 1..MaxDepth
    BY <2>1, <1>1
  <2>3. Reach(y)[j] \subseteq Reach(y)[m - 1]
    BY <2>2, <1>2
  <2>4. Reach(y)[m - 1] \subseteq Reach(y)[m]
    BY <2>2, ReachIs
  <2> QED
    BY <2>3, <2>4
<1>3. Wrong \in SUBSET Nat
  OBVIOUS
<1>4. Wrong = {}
  <2> HIDE DEF Wrong
  <2> QED
    BY <1>2, <1>3, LeastNumber
<1> QED
  BY <1>1, <1>4

(* Nothing new to expand at a depth means nothing new beyond it.           *)
LEMMA ReachStops ==
  ASSUME NEW y \in Systems, NEW k \in 1..MaxDepth,
         Reach(y)[k] \cap Open(y) \subseteq Reach(y)[k - 1]
  PROVE  Reach(y)[MaxDepth] = Reach(y)[k]
<1> DEFINE Wrong == {m \in Nat : m \in k..MaxDepth /\ Reach(y)[m] # Reach(y)[k]}
           R == Reach(y)
<1>1. MaxDepth \in Nat /\ k \in Nat /\ k - 1 \in 0..MaxDepth
  BY DepthAssumption
<1>2. ASSUME NEW m \in Wrong, \A n \in Wrong : m <= n PROVE FALSE
  <2>1. m # k
    OBVIOUS
  <2>2. m - 1 \in Nat /\ m - 1 \in k..MaxDepth /\ m \in 1..MaxDepth
    BY <2>1, <1>1
  <2>3. R[m - 1] = R[k]
    BY <2>2, <1>2
  <2>4. R[m] = R[k] \cup UNION {y.succ[n] : n \in R[k] \cap Open(y)}
    BY <2>2, <2>3, ReachIs
  <2>5. R[k] = R[k - 1] \cup UNION {y.succ[n] : n \in R[k - 1] \cap Open(y)}
    BY ReachIs
  <2>6. R[k] \cap Open(y) = R[k - 1] \cap Open(y)
    BY <2>5
  <2> HIDE DEF R
  <2>7. R[m] = R[k]
    BY <2>4, <2>5, <2>6
  <2> QED
    BY <2>7 DEF R
<1>3. Wrong \in SUBSET Nat
  OBVIOUS
<1>4. Wrong = {}
  <2> HIDE DEF Wrong
  <2> QED
    BY <1>2, <1>3, LeastNumber
<1> QED
  BY <1>1, <1>4

(* The depth of a state says how far it is. *)
LEMMA FoundIn ==
  ASSUME NEW y \in Systems, NEW disc \in [Nodes -> {None} \cup InfoType], FoundRight(y, disc),
         NEW n \in Known(disc), NEW k \in 0..MaxDepth
  PROVE  /\ disc[n].depth \in 0..MaxDepth
         /\ n \in Reach(y)[k] <=> disc[n].depth <= k
<1>1. disc[n] \in InfoType
  BY DEF Known
<1>2. disc[n].depth \in 0..MaxDepth
  BY <1>1 DEF InfoType
<1> DEFINE e == disc[n].depth
<1>3. MaxDepth \in Nat
  BY DepthAssumption
<1>4. CASE n = Initial
  <2>1. e = 0 /\ 0 \in 0..MaxDepth /\ 0 <= k
    BY <1>3, <1>4 DEF FoundRight
  <2>2. n \in Reach(y)[0]
    BY <1>4, ReachIs
  <2>3. n \in Reach(y)[k]
    BY <2>1, <2>2, ReachGrows
  <2> QED
    BY <1>2, <2>1, <2>3
<1>5. CASE n # Initial
  <2>1. e >= 1 /\ n \in Reach(y)[e] /\ n \notin Reach(y)[e - 1]
    BY <1>5 DEF FoundRight
  <2>2. CASE e <= k
    <3>1. Reach(y)[e] \subseteq Reach(y)[k]
      BY <2>2, <1>2, ReachGrows
    <3> QED
      BY <2>1, <2>2, <3>1, <1>2
  <2>3. CASE ~(e <= k)
    <3>1. k <= e - 1 /\ e - 1 \in 0..MaxDepth
      BY <2>3, <1>2, <1>3
    <3>2. Reach(y)[k] \subseteq Reach(y)[e - 1]
      BY <3>1, ReachGrows
    <3> QED
      BY <2>1, <2>3, <3>2, <1>2
  <2> QED
    BY <2>2, <2>3
<1> QED
  BY <1>4, <1>5

-----------------------------------------------------------------------------
(* What steps leave as it was, or change in one way.                       *)
LEMMA CleanGrows ==
  ASSUME NEW y, NEW disc, NEW disc2, NEW k, Known(disc) \subseteq Known(disc2), Clean(y, disc, k)
  PROVE  Clean(y, disc2, k)
  BY DEF Clean

LEMMA ResultGrows ==
  ASSUME NEW y, NEW disc, NEW disc2, NEW res, Known(disc) \subseteq Known(disc2),
         \A n \in Known(disc) : disc2[n] = disc[n], ResultRight(y, disc, res)
  PROVE  ResultRight(y, disc2, res)
<1>1. \A k : Clean(y, disc, k) => Clean(y, disc2, k)
  BY CleanGrows
<1>2. CASE res \in {None, Timeout}
  BY <1>2 DEF ResultRight
<1>3. CASE res = SpaceExhausted /\ (y.prompt => Clean(y, disc, MaxDepth))
  BY <1>1, <1>3 DEF ResultRight
<1>4. CASE \E n \in Known(disc) :
          \/ res = Error(n) /\ disc[n].depth < MaxDepth /\ Clean(y, disc, disc[n].depth)
          \/ /\ res \in {InvariantViolation(n), GoalFound(n)}
             /\ disc[n].depth >= 1 /\ Clean(y, disc, disc[n].depth - 1)
  <2>1. PICK n \in Known(disc) :
          \/ res = Error(n) /\ disc[n].depth < MaxDepth /\ Clean(y, disc, disc[n].depth)
          \/ /\ res \in {InvariantViolation(n), GoalFound(n)}
             /\ disc[n].depth >= 1 /\ Clean(y, disc, disc[n].depth - 1)
    BY <1>4
  <2>2. n \in Known(disc2) /\ disc2[n] = disc[n]
    OBVIOUS
  <2> QED
    BY <2>1, <2>2, <1>1 DEF ResultRight
<1> QED
  BY <1>2, <1>3, <1>4 DEF ResultRight

LEMMA LevelStays ==
  ASSUME NEW y, NEW disc, NEW qs, NEW wk, NEW wk2, NEW fl, NEW fl2, NEW d, NEW q,
         LevelRight(y, disc, qs, wk, fl, d, q),
         Interrupted(wk, fl) => Interrupted(wk2, fl2),
         \A v \in Workers : wk[v].pc = "check" => wk2[v] = wk[v],
         \A v \in Workers : wk[v].pc = "expand" => wk2[v] = wk[v] \/ wk[v].events = {}
  PROVE  LevelRight(y, disc, qs, wk2, fl2, d, q)
<1>1. \A m : Checking(wk, m) => Checking(wk2, m)
  BY DEF Checking
<1>2. \A m, e : Expanding(wk, m, e) => Expanding(wk2, m, e)
  BY DEF Expanding
<1>3. Remaining(y, disc, qs, wk2, fl2, d, q)
  BY <1>2 DEF LevelRight, Remaining
<1>4. Coming(y, disc, qs, wk2, d, q)
  BY <1>1 DEF LevelRight, Coming
<1>5. Reporting(y, disc, wk2, fl2, d)
  BY <1>1 DEF LevelRight, Reporting
<1> QED
  BY <1>3, <1>4, <1>5 DEF LevelRight

(* When all are at the barrier and nothing was found the level is complete.*)
LEMMA LevelDone ==
  ASSUME NEW y \in Systems, NEW disc \in [Nodes -> {None} \cup InfoType], FoundRight(y, disc),
         NEW qs, NEW wk, NEW fl, NEW d \in 0..MaxDepth - 1, NEW q,
         LevelRight(y, disc, qs, wk, fl, d, q), ~fl, qs[q] = <<>>,
         \A v \in Workers : wk[v].pc \in {"arrive", "wait"}
  PROVE  Clean(y, disc, d + 1) /\ NextRight(y, disc, qs, d, q)
<1> DEFINE R == Reach(y)
<1>1. MaxDepth \in Nat /\ d + 1 \in 1..MaxDepth /\ (d + 1) - 1 = d /\ d \in 0..MaxDepth
      /\ d + 1 \in 0..MaxDepth
  BY DepthAssumption
<1>2. /\ \A m : ~Checking(wk, m)
      /\ \A m, e : ~Expanding(wk, m, e)
      /\ ~Interrupted(wk, fl)
  BY DEF Checking, Expanding, Interrupted
<1>3. Elements(qs[q]) = {}
  BY DEF Elements
<1>4. \A m \in R[d] \cap Open(y) : \A e \in Moves(y, m) : ~e.fails /\ e.to \in Known(disc)
  BY <1>2, <1>3 DEF LevelRight, Remaining
<1>5. \A m \in R[d] \cap Open(y) : m \notin y.fails /\ y.succ[m] \subseteq Known(disc)
  <2> SUFFICES ASSUME NEW m \in R[d] \cap Open(y)
               PROVE  m \notin y.fails /\ y.succ[m] \subseteq Known(disc)
    OBVIOUS
  <2>1. ASSUME m \in y.fails PROVE FALSE
    <3>1. [fails |-> TRUE, to |-> None] \in Moves(y, m)
      BY <2>1 DEF Moves
    <3> QED
      BY <3>1, <1>4
  <2>2. ASSUME NEW n \in y.succ[m] PROVE n \in Known(disc)
    <3>1. [fails |-> FALSE, to |-> n] \in Moves(y, m)
      BY <2>2 DEF Moves
    <3> QED
      BY <3>1, <1>4
  <2> QED
    BY <2>1, <2>2
<1>6. Clean(y, disc, d) /\ \A n \in Known(disc) : disc[n].depth <= d + 1
  BY DEF LevelRight
<1>7. R[d + 1] = R[d] \cup UNION {y.succ[n] : n \in R[d] \cap Open(y)}
  BY <1>1, ReachIs
<1>8. R[d + 1] \subseteq Known(disc)
  BY <1>5, <1>6, <1>7 DEF Clean
<1>9. R[d + 1] \cap (y.bad \cup y.goal) \subseteq {Initial}
  <2> SUFFICES ASSUME NEW m \in R[d + 1], m \in y.bad \cup y.goal, m # Initial PROVE FALSE
    OBVIOUS
  <2>1. m \in Known(disc)
    BY <1>8
  <2>2. disc[m].depth # d + 1
    BY <2>1, <1>2 DEF LevelRight, Reporting
  <2>3. disc[m].depth \in 0..MaxDepth /\ disc[m].depth <= d + 1
    BY <2>1, <1>1, <1>6, FoundIn
  <2>4. disc[m].depth <= d
    BY <2>2, <2>3, <1>1
  <2>5. m \in R[d]
    BY <2>1, <2>4, <1>1, FoundIn
  <2> QED
    BY <2>5, <1>6 DEF Clean
<1>10. R[(d + 1) - 1] \cap Open(y) \cap y.fails = {}
  BY <1>1, <1>5
<1>11. Clean(y, disc, d + 1)
  BY <1>8, <1>9, <1>10 DEF Clean
<1>12. Queued(y, disc, qs[3 - q], d + 1)
  BY DEF LevelRight
<1>13. \A m \in Known(disc) \cap Open(y) :
          disc[m].depth = d + 1 /\ d + 1 # MaxDepth => m \in Elements(qs[3 - q])
  BY <1>2 DEF LevelRight, Coming
<1> QED
  BY <1>6, <1>11, <1>12, <1>13 DEF NextRight

(* The first worker after the barrier begins the next one.                 *)
LEMMA LevelBegins ==
  ASSUME NEW y \in Systems, NEW disc \in [Nodes -> {None} \cup InfoType], FoundRight(y, disc),
         NEW qs, NEW wk, NEW fl, NEW d \in 0..MaxDepth - 1, NEW q \in 1..2, d + 1 # MaxDepth,
         Clean(y, disc, d + 1), NextRight(y, disc, qs, d, q)
  PROVE  LevelRight(y, disc, qs, wk, fl, d + 1, 3 - q)
<1> DEFINE R == Reach(y)
<1>1. /\ MaxDepth \in Nat /\ d + 1 \in 1..MaxDepth /\ (d + 1) - 1 = d /\ d \in 0..MaxDepth
      /\ d + 1 \in 0..MaxDepth /\ 3 - (3 - q) = q
  BY DepthAssumption
<1>2. \A n \in Known(disc) : disc[n].depth \in 0..MaxDepth /\ disc[n].depth <= d + 1
  BY <1>1, FoundIn DEF NextRight
<1>3. \A n \in Known(disc) : disc[n].depth <= (d + 1) + 1 /\ disc[n].depth # (d + 1) + 1
  BY <1>1, <1>2
<1>4. Elements(qs[q]) = {}
  BY DEF NextRight, Elements
<1>5. Queued(y, disc, qs[3 - q], d + 1) /\ Queued(y, disc, qs[3 - (3 - q)], (d + 1) + 1)
  BY <1>1, <1>4 DEF NextRight, Queued
<1>6. ASSUME NEW m \in R[d + 1] \cap Open(y), NEW e \in Moves(y, m)
      PROVE  (~e.fails /\ e.to \in Known(disc)) \/ m \in Elements(qs[3 - q])
  <2>1. m \in Known(disc)
    BY DEF Clean
  <2>2. CASE m \in R[d]
    <3>1. m \notin y.fails
      BY <2>2, <1>1 DEF Clean
    <3>2. PICK n \in y.succ[m] : e = [fails |-> FALSE, to |-> n]
      BY <3>1 DEF Moves
    <3>3. R[d + 1] = R[d] \cup UNION {y.succ[k] : k \in R[d] \cap Open(y)}
      BY <1>1, ReachIs
    <3>4. n \in R[d + 1]
      BY <2>2, <3>3
    <3>5. n \in Known(disc)
      BY <3>4 DEF Clean
    <3> QED
      BY <3>2, <3>5
  <2>3. CASE m \notin R[d]
    <3>1. ~(disc[m].depth <= d)
      BY <2>1, <2>3, <1>1, FoundIn
    <3>2. disc[m].depth = d + 1
      BY <2>1, <3>1, <1>1, <1>2
    <3> QED
      BY <2>1, <3>2 DEF NextRight
  <2> QED
    BY <2>2, <2>3
<1>7. Remaining(y, disc, qs, wk, fl, d + 1, 3 - q)
  BY <1>6 DEF Remaining
<1>8. Coming(y, disc, qs, wk, d + 1, 3 - q)
  BY <1>3 DEF Coming
<1>9. Reporting(y, disc, wk, fl, d + 1)
  BY <1>3 DEF Reporting
<1> QED
  BY <1>3, <1>5, <1>7, <1>8, <1>9 DEF LevelRight

(* With nothing queued for the next level all was seen.                    *)
LEMMA NothingLeft ==
  ASSUME NEW y \in Systems, NEW disc \in [Nodes -> {None} \cup InfoType], FoundRight(y, disc),
         NEW qs, NEW d \in 0..MaxDepth - 1, NEW q \in 1..2,
         Clean(y, disc, d + 1), NextRight(y, disc, qs, d, q), qs[3 - q] = <<>>
  PROVE  Clean(y, disc, MaxDepth)
<1> DEFINE R == Reach(y)
<1>1. /\ MaxDepth \in Nat /\ d + 1 \in 1..MaxDepth /\ (d + 1) - 1 = d /\ d \in 0..MaxDepth
      /\ d + 1 \in 0..MaxDepth
  BY DepthAssumption
<1>2. CASE d + 1 = MaxDepth
  BY <1>2
<1>3. CASE d + 1 # MaxDepth
  <2>1. Elements(qs[3 - q]) = {}
    BY DEF Elements
  <2>2. \A m \in Known(disc) \cap Open(y) : disc[m].depth # d + 1
    BY <1>3, <2>1 DEF NextRight
  <2>3. \A m \in R[d + 1] \cap Open(y) : m \in R[d]
    <3> SUFFICES ASSUME NEW m \in R[d + 1] \cap Open(y) PROVE m \in R[d]
      OBVIOUS
    <3>1. m \in Known(disc)
      BY DEF Clean
    <3>2. disc[m].depth \in 0..MaxDepth /\ disc[m].depth <= d + 1
      BY <3>1, <1>1, FoundIn
    <3>3. disc[m].depth <= d
      BY <3>1, <3>2, <2>2, <1>1
    <3> QED
      BY <3>1, <3>3, <1>1, FoundIn
  <2>4. R[d + 1] \cap Open(y) \subseteq R[(d + 1) - 1]
    BY <2>3, <1>1
  <2>5. R[MaxDepth] = R[d + 1]
    BY <2>4, <1>1, ReachStops
  <2>6. MaxDepth - 1 \in 0..MaxDepth /\ MaxDepth \in 0..MaxDepth /\ MaxDepth - 1 <= MaxDepth
    BY <1>1
  <2>7. R[MaxDepth - 1] \subseteq R[d + 1]
    BY <2>5, <2>6, ReachGrows
  <2>8. R[MaxDepth - 1] \cap Open(y) \cap y.fails \subseteq R[d] \cap Open(y) \cap y.fails
    BY <2>3, <2>7
  <2>9. R[d] \cap Open(y) \cap y.fails = {}
    BY <1>1 DEF Clean
  <2> QED
    BY <2>5, <2>8, <2>9 DEF Clean
<1> QED
  BY <1>2, <1>3

-----------------------------------------------------------------------------
(* Steps that change neither what is discovered nor the queues, and leave  *)
(* every worker on its level.                                              *)
Alike(wk, wk2) ==
    \A v \in Workers :
        /\ Works(wk2[v]) <=> Works(wk[v])
        /\ wk2[v].depth = wk[v].depth /\ wk2[v].queue = wk[v].queue
        /\ wk[v].pc = "check" => wk2[v] = wk[v]
        /\ wk[v].pc = "expand" => wk2[v] = wk[v] \/ wk[v].events = {}

LEMMA AbreastStays ==
  ASSUME NEW wk, NEW wk2, Abreast(wk), Alike(wk, wk2)
  PROVE  Abreast(wk2)
  BY DEF Abreast, Alike

LEMMA LevelsStay ==
  ASSUME NEW y, NEW disc, NEW qs, NEW wk, NEW wk2, NEW fl, NEW fl2,
         LevelsRight(y, disc, qs, wk, fl), Alike(wk, wk2),
         Interrupted(wk, fl) => Interrupted(wk2, fl2)
  PROVE  LevelsRight(y, disc, qs, wk2, fl2)
<1> SUFFICES ASSUME NEW w \in Workers, Works(wk2[w])
             PROVE  LevelRight(y, disc, qs, wk2, fl2, wk2[w].depth, wk2[w].queue)
  BY DEF LevelsRight
<1>1. Works(wk[w]) /\ wk2[w].depth = wk[w].depth /\ wk2[w].queue = wk[w].queue
  BY DEF Alike
<1>2. LevelRight(y, disc, qs, wk, fl, wk[w].depth, wk[w].queue)
  BY <1>1 DEF LevelsRight
<1>3. /\ \A v \in Workers : wk[v].pc = "check" => wk2[v] = wk[v]
      /\ \A v \in Workers : wk[v].pc = "expand" => wk2[v] = wk[v] \/ wk[v].events = {}
  BY DEF Alike
<1>4. LevelRight(y, disc, qs, wk2, fl2, wk[w].depth, wk[w].queue)
  BY <1>2, <1>3, LevelStays
<1> QED
  BY <1>1, <1>4

LEMMA PassedStays ==
  ASSUME NEW y, NEW disc, NEW qs, NEW wk, NEW wk2, NEW fl, NEW fl2,
         PassedRight(y, disc, qs, wk, fl), Alike(wk, wk2),
         \A v \in Workers : Passed(fl2, wk2[v]) => Passed(fl, wk[v])
  PROVE  PassedRight(y, disc, qs, wk2, fl2)
<1>1. Halted(wk2) => Halted(wk)
  BY DEF Halted, Alike
<1>2. \A v \in Workers : wk2[v].depth = wk[v].depth /\ wk2[v].queue = wk[v].queue
  BY DEF Alike
<1> QED
  BY <1>1, <1>2 DEF PassedRight

LEMMA QuietKeeps ==
  ASSUME SearchInv, ~sys.random, SearchShape', UNCHANGED <<sys, discovered, queues>>,
         Alike(worker, worker'), Interrupted(worker, flag) => Interrupted(worker', flag'),
         \A v \in Workers : Passed(flag', worker'[v]) => Passed(flag, worker[v]),
         \A v \in Workers : WorkerRight(sys, discovered, queues, flag', worker'[v]),
         PromptRight(sys, worker'), FinishRight',
         ResultRight(sys, discovered, result'), ResultRight(sys, discovered, outcome')
  PROVE  SearchInv'
<1>1. /\ FoundRight(sys, discovered) /\ Abreast(worker)
      /\ LevelsRight(sys, discovered, queues, worker, flag)
      /\ PassedRight(sys, discovered, queues, worker, flag)
  BY DEF SearchInv, BreadthInv
<1>2. Abreast(worker')
  BY <1>1, AbreastStays
<1>3. LevelsRight(sys, discovered, queues, worker', flag')
  BY <1>1, LevelsStay
<1>4. PassedRight(sys, discovered, queues, worker', flag')
  BY <1>1, PassedStays
<1>5. sys' = sys /\ discovered' = discovered /\ queues' = queues
  OBVIOUS
<1> QED
  BY <1>1, <1>2, <1>3, <1>4, <1>5 DEF SearchInv, BreadthInv

(* What a change of the program counter of a worker is.                    *)
MovedTo(wk, w, pc, wk2) == wk2 = [wk EXCEPT ![w] = [wk[w] EXCEPT !.pc = pc]]

LEMMA GotoIs ==
  ASSUME NEW wk \in [Workers -> WorkerType], NEW w \in Workers,
         NEW pc \in Working \cup Gate \cup Roaming, NEW wk2, MovedTo(wk, w, pc, wk2)
  PROVE  /\ wk2 \in [Workers -> WorkerType]
         /\ \A v \in Workers : v # w => wk2[v] = wk[v]
         /\ wk2[w].pc = pc /\ wk2[w].queue = wk[w].queue /\ wk2[w].depth = wk[w].depth
         /\ wk2[w].state = wk[w].state /\ wk2[w].events = wk[w].events
         /\ wk2[w].next = wk[w].next /\ wk2[w].trace = wk[w].trace
<1>1. wk[w] \in WorkerType
  OBVIOUS
<1>2. wk2[w] = [wk[w] EXCEPT !.pc = pc] /\ \A v \in Workers : v # w => wk2[v] = wk[v]
  BY DEF MovedTo
<1>3. wk2[w] \in WorkerType
  BY <1>1, <1>2 DEF WorkerType
<1>4. wk2 \in [Workers -> WorkerType]
  BY <1>3 DEF MovedTo
<1> QED
  BY <1>1, <1>2, <1>4 DEF WorkerType

LEMMA FinishWorks ==
  ASSUME NEW w \in Workers, FinishRight, sys' = sys,
         Works(worker[w]), Works(worker'[w]), \A v \in Workers : v # w => worker'[v] = worker[v],
         flag => flag', Interrupted(worker, flag) => Interrupted(worker', flag'),
         \/ result' = result /\ main' = main
         \/ Interrupted(worker', flag')
  PROVE  FinishRight'
<1> SUFFICES ASSUME sys.prompt, ~sys.limit
             PROVE  /\ result' # None \/ main' # "wait" => Signalled(worker', flag')
                    /\ Together(worker', flag')
                    /\ Decided(queues', worker', flag')
  BY DEF FinishRight
<1>1. /\ result # None \/ main # "wait" => Signalled(worker, flag)
      /\ Together(worker, flag)
  BY DEF FinishRight
<1>2. Signalled(worker, flag) => Signalled(worker', flag')
  BY DEF Signalled, Works, Working
<1>3. result' # None \/ main' # "wait" => Signalled(worker', flag')
  BY <1>1, <1>2 DEF Signalled
<1>4. worker'[w].pc \notin {"exit", "quit", "sleep"}
  BY DEF Works, Working
<1>5. Together(worker', flag')
  BY <1>1, <1>4 DEF Together
<1>6. ~Halted(worker')
  BY DEF Halted
<1>7. Decided(queues', worker', flag')
  BY <1>6 DEF Decided
<1> QED
  BY <1>3, <1>5, <1>7

LEMMA PromptWorks ==
  ASSUME NEW w \in Workers, NEW y, NEW wk, NEW wk2, PromptRight(y, wk), Works(wk[w]), Works(wk2[w]),
         \A v \in Workers : v # w => wk2[v] = wk[v]
  PROVE  PromptRight(y, wk2)
<1>1. wk2[w].pc \notin {"flag", "empty"}
  BY DEF Works, Working
<1> QED
  BY <1>1 DEF PromptRight

-----------------------------------------------------------------------------
(* The steps one by one.                                                   *)
LEMMA BreadthIs ==
  ASSUME SearchInv, ~sys.random
  PROVE  /\ SearchShape /\ BreadthInv
         /\ \A w \in Workers : /\ worker[w] \in WorkerType
                               /\ WorkerRight(sys, discovered, queues, flag, worker[w])
                               /\ worker[w].pc \in Working \cup Gate
                               /\ Works(worker[w]) <=> worker[w].pc \in Working
                               /\ worker[w].pc \in Gate <=> worker[w].pc \notin Working
<1>1. SearchShape /\ BreadthInv
  BY DEF SearchInv
<1>2. ASSUME NEW w \in Workers
      PROVE  worker[w] \in WorkerType /\ WorkerRight(sys, discovered, queues, flag, worker[w])
  BY <1>1 DEF SearchShape, BreadthInv
<1>3. ASSUME NEW w \in Workers PROVE worker[w].pc \in Working \cup Gate
  BY <1>2 DEF WorkerRight
<1>4. Working \cap Gate = {}
  BY DEF Working, Gate
<1> QED
  BY <1>1, <1>2, <1>3, <1>4 DEF Works

(* A worker moves on its level and nothing else but the flag changes.      *)
LEMMA WorkingKeeps ==
  ASSUME SearchInv, ~sys.random, NEW w \in Workers, NEW pc \in Working,
         UNCHANGED <<sys, discovered, queues, result, main, outcome>>,
         MovedTo(worker, w, pc, worker'),
         worker[w].pc \in Working, worker[w].pc # "check",
         worker[w].pc = "expand" => worker[w].events = {},
         pc \notin {"expand", "check"}, pc \in {"arrive", "wait"} => flag' \/ queues[worker[w].queue] = <<>>,
         flag' \in BOOLEAN, flag => flag', worker[w].pc = "leave" => flag',
         waiting' = IF pc = "wait" THEN waiting \cup {w} ELSE waiting, worker[w].pc # "wait"
  PROVE  SearchInv'
<1>1. /\ SearchShape /\ BreadthInv
      /\ \A v \in Workers : WorkerRight(sys, discovered, queues, flag, worker[v])
  BY BreadthIs
<1>2. worker \in [Workers -> WorkerType]
  BY <1>1 DEF SearchShape
<1>3. pc \in Working \cup Gate \cup Roaming
  OBVIOUS
<1>4. /\ worker' \in [Workers -> WorkerType]
      /\ \A v \in Workers : v # w => worker'[v] = worker[v]
      /\ worker'[w].pc = pc /\ worker'[w].queue = worker[w].queue
      /\ worker'[w].depth = worker[w].depth
  BY <1>2, <1>3, GotoIs
<1>5. Works(worker[w]) /\ Works(worker'[w])
  BY <1>4 DEF Works
<1>6. Alike(worker, worker')
  BY <1>4, <1>5 DEF Alike
<1>7. Interrupted(worker, flag) => Interrupted(worker', flag')
  BY <1>4 DEF Interrupted
<1>8. SearchShape'
  <2>1. (waiting = {v \in Workers : At(v, "wait")})'
    <3>1. waiting = {v \in Workers : worker[v].pc = "wait"}
      BY <1>1 DEF SearchShape, At
    <3>2. waiting' = {v \in Workers : worker'[v].pc = "wait"}
      BY <3>1, <1>4
    <3> QED
      BY <3>2 DEF At
  <2> QED
    BY <1>1, <1>4, <2>1 DEF SearchShape
<1>9. \A v \in Workers : Passed(flag', worker'[v]) => Passed(flag, worker[v])
  BY <1>4 DEF Passed, Working
<1>10. WorkerRight(sys, discovered, queues, flag', worker'[w])
  BY <1>4 DEF WorkerRight, Working
<1>11. \A v \in Workers : WorkerRight(sys, discovered, queues, flag', worker'[v])
  BY <1>1, <1>4, <1>10 DEF WorkerRight
<1>12. PromptRight(sys, worker')
  <2>1. PromptRight(sys, worker)
    BY <1>1 DEF BreadthInv
  <2> QED
    BY <2>1, <1>4, <1>5, PromptWorks
<1>13. FinishRight'
  <2>1. FinishRight
    BY <1>1 DEF BreadthInv
  <2>2. sys' = sys /\ result' = result /\ main' = main
    OBVIOUS
  <2> QED
    BY <2>1, <2>2, <1>4, <1>5, <1>7, FinishWorks
<1>14. ResultRight(sys, discovered, result') /\ ResultRight(sys, discovered, outcome')
  BY <1>1 DEF BreadthInv
<1> QED
  BY <1>6, <1>7, <1>8, <1>9, <1>11, <1>12, <1>13, <1>14, QuietKeeps

LEMMA RaiseFlagLeaving ==
  ASSUME SearchInv, ~sys.random, NEW w \in Workers, RaiseFlag(w), At(w, "leave")
  PROVE  SearchInv'
<1>1. /\ UNCHANGED <<sys, discovered, queues, result, main, outcome>> /\ waiting' = waiting
      /\ MovedTo(worker, w, "arrive", worker') /\ flag' = TRUE /\ worker[w].pc = "leave"
  BY DEF RaiseFlag, Goto, Becomes, At, MovedTo
<1>2. "arrive" \in Working /\ worker[w].pc \in Working
  BY <1>1 DEF Working
<1> QED
  BY <1>1, <1>2, WorkingKeeps

LEMMA EndStateKeeps ==
  ASSUME SearchInv, ~sys.random, NEW w \in Workers, EndState(w)
  PROVE  SearchInv'
<1> DEFINE pc == IF flag THEN "arrive" ELSE "pop"
<1>1. /\ UNCHANGED <<sys, discovered, queues, result, main, outcome>> /\ waiting' = waiting
      /\ MovedTo(worker, w, pc, worker') /\ flag' = flag
      /\ worker[w].pc = "expand" /\ worker[w].events = {}
  BY DEF EndState, Goto, Becomes, At, MovedTo
<1>2. pc \in Working /\ worker[w].pc \in Working
  BY <1>1 DEF Working
<1>3. flag \in BOOLEAN
  BY BreadthIs DEF SearchShape
<1> QED
  BY <1>1, <1>2, <1>3, WorkingKeeps

LEMMA ArriveWaiting ==
  ASSUME SearchInv, ~sys.random, NEW w \in Workers, Arrive(w), waiting \cup {w} # Workers
  PROVE  SearchInv'
<1>1. /\ UNCHANGED <<sys, discovered, queues, result, main, outcome>>
      /\ waiting' = waiting \cup {w}
      /\ MovedTo(worker, w, "wait", worker') /\ flag' = flag
      /\ worker[w].pc = "arrive"
  BY DEF Arrive, Goto, Becomes, At, MovedTo
<1>2. "wait" \in Working /\ worker[w].pc \in Working
  BY <1>1 DEF Working
<1>3. flag \in BOOLEAN
  BY BreadthIs DEF SearchShape
<1>4. flag \/ queues[worker[w].queue] = <<>>
  BY <1>1, BreadthIs DEF WorkerRight
<1> QED
  BY <1>1, <1>2, <1>3, <1>4, WorkingKeeps

(* A worker moves between the levels. *)
LEMMA GateKeeps ==
  ASSUME SearchInv, ~sys.random, NEW w \in Workers, NEW pc \in Gate,
         UNCHANGED <<sys, discovered, queues, waiting, main, outcome>>,
         MovedTo(worker, w, pc, worker'),
         worker[w].pc \in Gate, pc # "flag", pc = "sleep" => worker[w].depth + 1 # MaxDepth,
         pc = "empty" => ~flag /\ worker[w].pc = "flag",
         pc = "sleep" => worker[w].pc = "empty",
         flag' \in BOOLEAN, flag => flag',
         ResultRight(sys, discovered, result'), FinishRight'
  PROVE  SearchInv'
<1>1. /\ SearchShape /\ BreadthInv
      /\ \A v \in Workers : WorkerRight(sys, discovered, queues, flag, worker[v])
  BY BreadthIs
<1>2. worker \in [Workers -> WorkerType]
  BY <1>1 DEF SearchShape
<1>3. pc \in Working \cup Gate \cup Roaming
  OBVIOUS
<1>4. /\ worker' \in [Workers -> WorkerType]
      /\ \A v \in Workers : v # w => worker'[v] = worker[v]
      /\ worker'[w].pc = pc /\ worker'[w].queue = worker[w].queue
      /\ worker'[w].depth = worker[w].depth
  BY <1>2, <1>3, GotoIs
<1>5. /\ ~Works(worker[w]) /\ ~Works(worker'[w])
      /\ worker[w].pc \notin {"check", "expand", "leave", "wait", "arrive"}
      /\ worker'[w].pc \notin {"check", "expand", "leave", "wait", "arrive"}
  BY <1>4 DEF Works, Working, Gate
<1>6. Alike(worker, worker')
  BY <1>4, <1>5 DEF Alike
<1>7. Interrupted(worker, flag) => Interrupted(worker', flag')
  BY <1>4, <1>5 DEF Interrupted
<1>8. SearchShape'
  <2>1. (waiting = {v \in Workers : At(v, "wait")})'
    <3>1. waiting = {v \in Workers : worker[v].pc = "wait"}
      BY <1>1 DEF SearchShape, At
    <3>2. waiting' = {v \in Workers : worker'[v].pc = "wait"}
      BY <3>1, <1>4, <1>5
    <3> QED
      BY <3>2 DEF At
  <2> QED
    BY <1>1, <1>4, <2>1 DEF SearchShape
<1>9. \A v \in Workers : Passed(flag', worker'[v]) => Passed(flag, worker[v])
  <2>1. Passed(flag', worker'[w]) => Passed(flag, worker[w])
    BY <1>4 DEF Passed
  <2>2. \A v \in Workers : v # w => (Passed(flag', worker'[v]) => Passed(flag, worker[v]))
    BY <1>4 DEF Passed
  <2> QED
    BY <2>1, <2>2
<1>10. WorkerRight(sys, discovered, queues, flag', worker'[w])
  BY <1>3, <1>4, <1>5 DEF WorkerRight
<1>11. \A v \in Workers : WorkerRight(sys, discovered, queues, flag', worker'[v])
  BY <1>1, <1>4, <1>10 DEF WorkerRight
<1>12. PromptRight(sys, worker')
  <2>1. PromptRight(sys, worker)
    BY <1>1 DEF BreadthInv
  <2>2. pc = "empty" => worker[w].pc = "flag"
    OBVIOUS
  <2> QED
    BY <2>1, <2>2, <1>4, <1>5 DEF PromptRight
<1>13. ResultRight(sys, discovered, outcome')
  BY <1>1 DEF BreadthInv
<1> QED
  BY <1>6, <1>7, <1>8, <1>9, <1>11, <1>12, <1>13, QuietKeeps

(* What is known of the others from a worker that is between the levels.   *)
LEMMA GateIs ==
  ASSUME SearchInv, ~sys.random, sys.prompt, NEW w \in Workers,
         worker[w].pc \in {"flag", "empty"} \/ (worker[w].pc \in {"quit", "exit"} /\ ~sys.limit)
  PROVE  /\ Halted(worker)
         /\ \A v \in Workers : worker[v].queue = worker[w].queue /\ worker[v].depth = worker[w].depth
<1>1. BreadthInv
  BY BreadthIs
<1>2. Halted(worker)
  <2>1. CASE worker[w].pc \in {"flag", "empty"}
    <3>1. PromptRight(sys, worker)
      BY <1>1 DEF BreadthInv
    <3> QED
      BY <2>1, <3>1 DEF PromptRight, Halted
  <2>2. CASE worker[w].pc \in {"quit", "exit"} /\ ~sys.limit
    <3>1. Together(worker, flag)
      BY <1>1, <2>2 DEF BreadthInv, FinishRight
    <3> QED
      BY <2>2, <3>1 DEF Together, Halted
  <2> QED
    BY <2>1, <2>2
<1>3. Abreast(worker)
  BY <1>1 DEF BreadthInv
<1> QED
  BY <1>2, <1>3 DEF Halted, Abreast

LEMMA FinishIs ==
  ASSUME SearchInv, ~sys.random, sys.prompt, ~sys.limit
  PROVE  /\ result # None \/ main # "wait" => Signalled(worker, flag)
         /\ Together(worker, flag)
         /\ Decided(queues, worker, flag)
<1>1. FinishRight
  BY BreadthIs DEF BreadthInv
<1> QED
  BY <1>1 DEF FinishRight

LEMMA RaiseFlagQuitting ==
  ASSUME SearchInv, ~sys.random, NEW w \in Workers, RaiseFlag(w), At(w, "quit")
  PROVE  SearchInv'
<1>1. /\ UNCHANGED <<sys, discovered, queues, result, waiting, main, outcome>>
      /\ MovedTo(worker, w, "exit", worker') /\ flag' = TRUE /\ worker[w].pc = "quit"
  BY DEF RaiseFlag, Goto, Becomes, At, MovedTo
<1>2. "exit" \in Gate /\ worker[w].pc \in Gate
  BY <1>1 DEF Gate
<1>3. ResultRight(sys, discovered, result')
  BY <1>1, BreadthIs DEF BreadthInv
<1>4. worker \in [Workers -> WorkerType]
  BY BreadthIs DEF SearchShape
<1>5. /\ \A v \in Workers : v # w => worker'[v] = worker[v]
      /\ worker'[w].pc = "exit" /\ worker'[w].queue = worker[w].queue
  BY <1>1, <1>2, <1>4, GotoIs
<1>6. ~Works(worker'[w]) /\ ~Works(worker[w])
  BY <1>1, <1>5 DEF Works, Working
<1>7. FinishRight'
  <2> SUFFICES ASSUME sys.prompt, ~sys.limit
               PROVE  /\ Signalled(worker', flag') /\ Together(worker', flag')
                      /\ Decided(queues', worker', flag')
    BY <1>1 DEF FinishRight
  <2>1. Signalled(worker', flag')
    BY <1>1 DEF Signalled, Interrupted
  <2>2. Together(worker, flag) /\ Decided(queues, worker, flag)
    BY FinishIs
  <2>3. Together(worker', flag')
    BY <1>1, <1>5, <1>6, <2>2 DEF Together
  <2>4. Halted(worker) /\ \A v \in Workers : worker[v].queue = worker[w].queue
    BY <1>1, GateIs
  <2>5. queues[3 - worker[w].queue] = <<>>
    BY <1>1, <2>2, <2>4 DEF Decided
  <2>6. ASSUME NEW v \in Workers
        PROVE  /\ worker'[v].queue = worker[w].queue
               /\ worker'[v].pc # "sleep"
    BY <1>1, <1>5, <2>2, <2>4 DEF Together
  <2>7. Decided(queues', worker', flag')
    BY <1>1, <2>5, <2>6 DEF Decided
  <2> QED
    BY <2>1, <2>3, <2>7
<1> QED
  BY <1>1, <1>2, <1>3, <1>7, GateKeeps

LEMMA CheckFlagKeeps ==
  ASSUME SearchInv, ~sys.random, NEW w \in Workers, CheckFlag(w)
  PROVE  SearchInv'
<1> DEFINE pc == IF flag THEN "exit" ELSE "empty"
<1>1. /\ UNCHANGED <<sys, discovered, queues, result, waiting, main, outcome>>
      /\ MovedTo(worker, w, pc, worker') /\ flag' = flag /\ worker[w].pc = "flag"
  BY DEF CheckFlag, Goto, Becomes, At, MovedTo
<1>2. pc \in Gate /\ worker[w].pc \in Gate
  BY <1>1 DEF Gate
<1>3. ResultRight(sys, discovered, result')
  BY <1>1, BreadthIs DEF BreadthInv
<1>4. worker \in [Workers -> WorkerType] /\ flag \in BOOLEAN
  BY BreadthIs DEF SearchShape
<1>5. /\ \A v \in Workers : v # w => worker'[v] = worker[v]
      /\ worker'[w].pc = pc /\ worker'[w].queue = worker[w].queue
  BY <1>1, <1>2, <1>4, GotoIs
<1>6. ~Works(worker'[w]) /\ ~Works(worker[w])
  BY <1>1, <1>5 DEF Works, Working
<1>7. FinishRight'
  <2> SUFFICES ASSUME sys.prompt, ~sys.limit
               PROVE  /\ result # None \/ main # "wait" => Signalled(worker', flag')
                      /\ Together(worker', flag') /\ Decided(queues', worker', flag')
    BY <1>1 DEF FinishRight
  <2>1. /\ result # None \/ main # "wait" => Signalled(worker, flag)
        /\ Together(worker, flag) /\ Decided(queues, worker, flag)
    BY FinishIs
  <2>2. Signalled(worker, flag) => Signalled(worker', flag')
    BY <1>1, <1>5 DEF Signalled, Interrupted
  <2>3. Halted(worker)
    BY <1>1, GateIs
  <2>4. flag => \A v \in Workers : worker[v].pc # "sleep"
    BY <2>1, <2>3 DEF Decided
  <2>5. Together(worker', flag')
    BY <1>1, <1>5, <1>6, <2>1, <2>3, <2>4 DEF Together, Halted
  <2>6. Decided(queues', worker', flag')
    <3>1. \A v \in Workers : v # w =>
            /\ worker'[v].pc \in {"empty", "sleep"} /\ flag' => queues[3 - worker'[v].queue] = <<>>
            /\ worker'[v].pc = "sleep" => queues[3 - worker'[v].queue] # <<>>
            /\ worker'[v].pc = "quit" => queues[3 - worker'[v].queue] = <<>>
      BY <1>1, <1>5, <2>1, <2>3 DEF Decided
    <3>2. /\ ~(worker'[w].pc \in {"empty", "sleep"} /\ flag')
          /\ worker'[w].pc \notin {"sleep", "quit"}
      BY <1>1, <1>5
    <3> QED
      BY <1>1, <3>1, <3>2 DEF Decided
  <2> QED
    BY <2>1, <2>2, <2>5, <2>6
<1> QED
  BY <1>1, <1>2, <1>3, <1>4, <1>7, GateKeeps

(* What is queued when a worker looks: states of the next level, which the *)
(* search goes on with.                                                    *)
LEMMA NextDepth ==
  ASSUME SearchInv, ~sys.random, NEW w \in Workers, Passed(flag, worker[w]),
         queues[3 - worker[w].queue] # <<>>
  PROVE  worker[w].depth + 1 # MaxDepth
<1>1. BreadthInv /\ worker[w] \in WorkerType /\ queues \in [1..2 -> Seq(Nodes)]
      /\ \A v \in Workers : worker[v] \in WorkerType
  BY BreadthIs DEF SearchShape
<1>2. /\ 3 - worker[w].queue \in 1..2 /\ worker[w].depth \in 0..MaxDepth - 1
      /\ \A v \in Workers : worker[v].depth \in 0..MaxDepth - 1
  BY <1>1 DEF WorkerType
<1>3. CASE Halted(worker)
  <2>1. NextRight(sys, discovered, queues, worker[w].depth, worker[w].queue)
    BY <1>1, <1>3 DEF BreadthInv, PassedRight
  <2>2. queues[3 - worker[w].queue] \in Seq(Nodes)
    BY <1>1, <1>2
  <2>3. 1 \in DOMAIN queues[3 - worker[w].queue]
    BY <2>2
  <2>4. queues[3 - worker[w].queue][1] \in Elements(queues[3 - worker[w].queue])
    BY <2>3 DEF Elements
  <2> QED
    BY <2>1, <2>4 DEF NextRight, Queued
<1>4. CASE ~Halted(worker)
  <2>1. PICK v \in Workers : Works(worker[v])
    BY <1>4 DEF Halted
  <2>2. ~Works(worker[w])
    BY DEF Passed, Works, Working
  <2>3. worker[v].depth = worker[w].depth + 1
    BY <1>1, <2>1, <2>2 DEF BreadthInv, Abreast
  <2> QED
    BY <1>2, <2>3, DepthAssumption
<1> QED
  BY <1>3, <1>4

LEMMA CheckEmptyKeeps ==
  ASSUME SearchInv, ~sys.random, NEW w \in Workers, CheckEmpty(w)
  PROVE  SearchInv'
<1> DEFINE q == 3 - worker[w].queue
<1>1. /\ UNCHANGED <<sys, discovered, queues, waiting, main, outcome>>
      /\ flag' = flag /\ worker[w].pc = "empty"
  BY DEF CheckEmpty, At
<1>2. /\ SearchShape /\ BreadthInv /\ worker[w] \in WorkerType
      /\ worker \in [Workers -> WorkerType] /\ flag \in BOOLEAN
  BY BreadthIs DEF SearchShape
<1>3. Passed(flag, worker[w]) /\ worker[w].pc \in Gate
  BY <1>1 DEF Passed, Gate
<1>4. /\ sys \in Systems /\ discovered \in [Nodes -> {None} \cup InfoType]
      /\ FoundRight(sys, discovered)
  BY <1>2 DEF SearchShape, BreadthInv
<1>5. worker[w].queue \in 1..2 /\ worker[w].depth \in 0..MaxDepth - 1
  BY <1>2 DEF WorkerType
<1>6. CASE queues[q] = <<>>
  <2>1. /\ MovedTo(worker, w, "quit", worker')
        /\ result' = IF result = None THEN SpaceExhausted ELSE result
    BY <1>6 DEF CheckEmpty, SearchFinish, Goto, Becomes, MovedTo, PushingQueue
  <2>2. "quit" \in Gate
    BY DEF Gate
  <2>3. /\ \A v \in Workers : v # w => worker'[v] = worker[v]
        /\ worker'[w].pc = "quit" /\ worker'[w].queue = worker[w].queue
    BY <1>2, <2>1, <2>2, GotoIs
  <2>4. sys.prompt => Clean(sys, discovered, MaxDepth)
    <3> SUFFICES ASSUME sys.prompt PROVE Clean(sys, discovered, MaxDepth)
      OBVIOUS
    <3>1. Halted(worker)
      BY <1>1, GateIs
    <3>2. PassedRight(sys, discovered, queues, worker, flag)
      BY <1>2 DEF BreadthInv
    <3>3. /\ Clean(sys, discovered, worker[w].depth + 1)
          /\ NextRight(sys, discovered, queues, worker[w].depth, worker[w].queue)
      BY <1>3, <3>1, <3>2 DEF PassedRight
    <3> QED
      BY <1>4, <1>5, <1>6, <3>3, NothingLeft
  <2>5. ResultRight(sys, discovered, result')
    <3>1. ResultRight(sys, discovered, result)
      BY <1>2 DEF BreadthInv
    <3>2. ResultRight(sys, discovered, SpaceExhausted)
      BY <2>4 DEF ResultRight
    <3> QED
      BY <2>1, <3>1, <3>2
  <2>6. FinishRight'
    <3> SUFFICES ASSUME sys.prompt, ~sys.limit
                 PROVE  /\ Signalled(worker', flag')
                        /\ Together(worker', flag') /\ Decided(queues', worker', flag')
      BY <1>1 DEF FinishRight
    <3>1. Together(worker, flag) /\ Decided(queues, worker, flag)
      BY FinishIs
    <3>2. Signalled(worker', flag')
      BY <2>3 DEF Signalled
    <3>3. Halted(worker) /\ \A v \in Workers : worker[v].queue = worker[w].queue
      BY <1>1, GateIs
    <3>4. \A v \in Workers : worker[v].pc # "sleep"
      BY <1>6, <3>1, <3>3 DEF Decided
    <3>5. ~Works(worker'[w])
      BY <2>3 DEF Works, Working
    <3>6. Together(worker', flag')
      BY <1>1, <2>3, <3>1, <3>3, <3>4, <3>5 DEF Together, Halted
    <3>7. \A v \in Workers : worker'[v].queue = worker[w].queue /\ worker'[v].pc # "sleep"
      BY <2>3, <3>3, <3>4
    <3>8. Decided(queues', worker', flag')
      BY <1>1, <1>6, <3>7 DEF Decided
    <3> QED
      BY <3>2, <3>6, <3>8
  <2> QED
    BY <1>1, <1>2, <1>3, <2>1, <2>2, <2>5, <2>6, GateKeeps
<1>7. CASE queues[q] # <<>>
  <2>1. worker[w].depth + 1 # MaxDepth
    BY <1>3, <1>7, NextDepth
  <2>2. MovedTo(worker, w, "sleep", worker') /\ result' = result
    BY <1>7, <2>1 DEF CheckEmpty, Goto, Becomes, MovedTo, PushingQueue
  <2>3. "sleep" \in Gate
    BY DEF Gate
  <2>4. /\ \A v \in Workers : v # w => worker'[v] = worker[v]
        /\ worker'[w].pc = "sleep" /\ worker'[w].queue = worker[w].queue
    BY <1>2, <2>2, <2>3, GotoIs
  <2>5. ResultRight(sys, discovered, result')
    BY <1>2, <2>2 DEF BreadthInv
  <2>6. FinishRight'
    <3> SUFFICES ASSUME sys.prompt, ~sys.limit
                 PROVE  /\ result # None \/ main # "wait" => Signalled(worker', flag')
                        /\ Together(worker', flag') /\ Decided(queues', worker', flag')
      BY <1>1, <2>2 DEF FinishRight
    <3>1. /\ result # None \/ main # "wait" => Signalled(worker, flag)
          /\ Together(worker, flag) /\ Decided(queues, worker, flag)
      BY FinishIs
    <3>2. Signalled(worker, flag) => Signalled(worker', flag')
      BY <1>1, <2>4 DEF Signalled, Interrupted
    <3>3. Halted(worker) /\ \A v \in Workers : worker[v].queue = worker[w].queue
      BY <1>1, GateIs
    <3>4. ~flag
      BY <1>1, <1>7, <3>1, <3>3 DEF Decided
    <3>5. \A v \in Workers : worker[v].pc \notin {"quit", "exit"}
      BY <1>7, <3>1, <3>3, <3>4 DEF Decided, Together
    <3>6. \A v \in Workers : worker'[v].pc \notin {"quit", "exit"}
      BY <2>4, <3>5
    <3>7. Together(worker', flag')
      BY <3>6 DEF Together
    <3>8. \A v \in Workers : worker'[v].queue = worker[w].queue
      BY <2>4, <3>3
    <3>9. Decided(queues', worker', flag')
      BY <1>1, <1>7, <3>4, <3>6, <3>8 DEF Decided
    <3> QED
      BY <3>1, <3>2, <3>7, <3>9
  <2> QED
    BY <1>1, <1>2, <1>3, <2>1, <2>2, <2>3, <2>5, <2>6, GateKeeps
<1> QED
  BY <1>6, <1>7

(* The main thread. *)
LEMMA MainKeeps ==
  ASSUME SearchInv, ~sys.random, UNCHANGED <<sys, discovered, queues, worker, waiting>>,
         main' \in {"wait", "stop", "join", "return"}, flag' \in BOOLEAN, flag => flag',
         ResultRight(sys, discovered, result'), ResultRight(sys, discovered, outcome'),
         FinishRight'
  PROVE  SearchInv'
<1>1. /\ SearchShape /\ BreadthInv
      /\ \A v \in Workers : WorkerRight(sys, discovered, queues, flag, worker[v])
  BY BreadthIs
<1>2. worker' = worker
  OBVIOUS
<1>3. SearchShape'
  <2>1. \A v \in Workers : At(v, "wait")' <=> At(v, "wait")
    BY <1>2 DEF At
  <2>2. (waiting = {v \in Workers : At(v, "wait")})'
    BY <1>1, <1>2 DEF SearchShape, At
  <2> QED
    BY <1>1, <1>2, <2>2 DEF SearchShape
<1>4. Alike(worker, worker')
  BY <1>2 DEF Alike
<1>5. Interrupted(worker, flag) => Interrupted(worker', flag')
  BY <1>2 DEF Interrupted
<1>6. \A v \in Workers : Passed(flag', worker'[v]) => Passed(flag, worker[v])
  BY <1>2 DEF Passed
<1>7. \A v \in Workers : WorkerRight(sys, discovered, queues, flag', worker'[v])
  BY <1>1, <1>2 DEF WorkerRight
<1>8. PromptRight(sys, worker')
  BY <1>1, <1>2 DEF BreadthInv
<1> QED
  BY <1>3, <1>4, <1>5, <1>6, <1>7, <1>8, QuietKeeps

LEMMA TakeResultKeeps ==
  ASSUME SearchInv, ~sys.random, TakeResult
  PROVE  SearchInv'
<1>1. /\ UNCHANGED <<sys, discovered, queues, worker, waiting>> /\ flag' = flag
      /\ main' = "stop" /\ result # None /\ result' = None /\ outcome' = result
  BY DEF TakeResult
<1>2. SearchShape /\ BreadthInv /\ flag \in BOOLEAN
  BY BreadthIs DEF SearchShape
<1>3. ResultRight(sys, discovered, result') /\ ResultRight(sys, discovered, outcome')
  BY <1>1, <1>2 DEF BreadthInv, ResultRight
<1>4. FinishRight'
  <2> SUFFICES ASSUME sys.prompt, ~sys.limit
               PROVE  /\ Signalled(worker', flag') /\ Together(worker', flag')
                      /\ Decided(queues', worker', flag')
    BY <1>1 DEF FinishRight
  <2> QED
    BY <1>1, FinishIs
<1> QED
  BY <1>1, <1>2, <1>3, <1>4, MainKeeps

LEMMA TimeOutKeeps ==
  ASSUME SearchInv, ~sys.random, TimeOut
  PROVE  SearchInv'
<1>1. /\ UNCHANGED <<sys, discovered, queues, worker, waiting>> /\ flag' = flag
      /\ main' = "stop" /\ result' = result /\ outcome' = Timeout /\ sys.limit
  BY DEF TimeOut
<1>2. SearchShape /\ BreadthInv /\ flag \in BOOLEAN
  BY BreadthIs DEF SearchShape
<1>3. ResultRight(sys, discovered, result') /\ ResultRight(sys, discovered, outcome')
  BY <1>1, <1>2 DEF BreadthInv, ResultRight
<1>4. FinishRight'
  BY <1>1 DEF FinishRight
<1> QED
  BY <1>1, <1>2, <1>3, <1>4, MainKeeps

LEMMA StopKeeps ==
  ASSUME SearchInv, ~sys.random, Stop
  PROVE  SearchInv'
<1>1. /\ UNCHANGED <<sys, discovered, queues, worker, waiting>> /\ flag' = TRUE
      /\ main = "stop" /\ main' = "join" /\ result' = result /\ outcome' = outcome
  BY DEF Stop
<1>2. SearchShape /\ BreadthInv /\ flag \in BOOLEAN
  BY BreadthIs DEF SearchShape
<1>3. ResultRight(sys, discovered, result') /\ ResultRight(sys, discovered, outcome')
  BY <1>1, <1>2 DEF BreadthInv
<1>4. FinishRight'
  <2> SUFFICES ASSUME sys.prompt, ~sys.limit
               PROVE  /\ Signalled(worker', flag') /\ Together(worker', flag')
                      /\ Decided(queues', worker', flag')
    BY <1>1 DEF FinishRight
  <2>1. /\ Signalled(worker, flag) /\ Together(worker, flag) /\ Decided(queues, worker, flag)
    BY <1>1, FinishIs
  <2>2. Signalled(worker', flag')
    BY <1>1 DEF Signalled, Interrupted
  <2>3. Together(worker', flag')
    BY <1>1, <2>1 DEF Together
  <2>4. ASSUME Halted(worker), NEW v \in Workers, worker[v].pc \in {"empty", "sleep"}
        PROVE  queues[3 - worker[v].queue] = <<>>
    <3>1. CASE flag
      BY <3>1, <2>1, <2>4 DEF Decided
    <3>2. CASE ~flag
      <4>1. ~Works(worker[v]) /\ \A u \in Workers : worker[u].pc = "leave" => Works(worker[u])
        BY <2>4 DEF Works, Working
      <4>2. PICK u \in Workers : worker[u].pc = "quit"
        BY <2>1, <2>4, <3>2, <4>1 DEF Signalled, Interrupted, Halted
      <4>3. queues[3 - worker[u].queue] = <<>>
        BY <2>1, <2>4, <4>2 DEF Decided
      <4>4. worker[v].queue = worker[u].queue
        BY <1>2, <2>4 DEF BreadthInv, Abreast, Halted
      <4> QED
        BY <4>3, <4>4
    <3> QED
      BY <3>1, <3>2
  <2>5. Decided(queues', worker', flag')
    BY <1>1, <2>1, <2>4 DEF Decided
  <2> QED
    BY <2>2, <2>3, <2>5
<1> QED
  BY <1>1, <1>2, <1>3, <1>4, MainKeeps

LEMMA JoinKeeps ==
  ASSUME SearchInv, ~sys.random, Join
  PROVE  SearchInv'
<1>1. /\ UNCHANGED <<sys, discovered, queues, worker, waiting>> /\ flag' = flag
      /\ main = "join" /\ main' = "return" /\ result' = result /\ outcome' = outcome
  BY DEF Join
<1>2. SearchShape /\ BreadthInv /\ flag \in BOOLEAN
  BY BreadthIs DEF SearchShape
<1>3. ResultRight(sys, discovered, result') /\ ResultRight(sys, discovered, outcome')
  BY <1>1, <1>2 DEF BreadthInv
<1>4. FinishRight'
  <2> SUFFICES ASSUME sys.prompt, ~sys.limit
               PROVE  /\ Signalled(worker', flag') /\ Together(worker', flag')
                      /\ Decided(queues', worker', flag')
    BY <1>1 DEF FinishRight
  <2> QED
    BY <1>1, FinishIs
<1> QED
  BY <1>1, <1>2, <1>3, <1>4, MainKeeps

(* A worker goes on to the next level: the first one, or after another.    *)
LEMMA SwapKeeps ==
  ASSUME SearchInv, ~sys.random, NEW w \in Workers, Swap(w)
  PROVE  SearchInv'
<1> DEFINE d == worker[w].depth
           q == worker[w].queue
<1>1. /\ sys' = sys /\ discovered' = discovered /\ queues' = queues /\ waiting' = waiting
      /\ result' = result /\ main' = main /\ outcome' = outcome /\ flag' = flag
      /\ worker[w].pc = "sleep"
      /\ sys.prompt => \A v \in Workers : worker[v].pc # "flag" /\ worker[v].pc # "empty"
  BY DEF Swap, At
<1>2. /\ SearchShape /\ BreadthInv
      /\ worker \in [Workers -> WorkerType] /\ flag \in BOOLEAN
      /\ sys \in Systems /\ discovered \in [Nodes -> {None} \cup InfoType]
      /\ \A v \in Workers : WorkerRight(sys, discovered, queues, flag, worker[v])
  BY BreadthIs DEF SearchShape
<1>3. d + 1 # MaxDepth
  BY <1>1, <1>2 DEF WorkerRight
<1>4. worker[w] \in WorkerType
  BY <1>2
<1>5. d \in 0..MaxDepth - 1 /\ q \in 1..2 /\ MaxDepth \in Nat
  BY <1>4, DepthAssumption DEF WorkerType
<1>6. d + 1 \in 0..MaxDepth - 1 /\ 3 - q \in 1..2
  BY <1>3, <1>5
<1>7. /\ worker' \in [Workers -> WorkerType]
      /\ \A v \in Workers : v # w => worker'[v] = worker[v]
      /\ worker'[w].pc = "pop" /\ worker'[w].queue = 3 - q /\ worker'[w].depth = d + 1
  <2> DEFINE r == [worker[w] EXCEPT !.pc = "pop", !.queue = 3 - q, !.depth = d + 1]
  <2>1. worker' = [worker EXCEPT ![w] = r]
    BY DEF Swap, Becomes, PushingQueue
  <2>2. r \in WorkerType /\ r.pc = "pop" /\ r.queue = 3 - q /\ r.depth = d + 1
    BY <1>4, <1>6 DEF WorkerType, Working
  <2> HIDE DEF r
  <2> QED
    BY <1>2, <2>1, <2>2
<1>8. Works(worker'[w]) /\ ~Works(worker[w])
  BY <1>1, <1>7 DEF Works, Working
<1>9. SearchShape'
  <2>1. waiting = {v \in Workers : worker[v].pc = "wait"}
    BY <1>2 DEF SearchShape, At
  <2>2. waiting' = {v \in Workers : worker'[v].pc = "wait"}
    BY <2>1, <1>1, <1>7
  <2>3. (waiting = {v \in Workers : At(v, "wait")})'
    BY <2>2 DEF At
  <2> QED
    BY <1>1, <1>2, <1>7, <2>3 DEF SearchShape
<1>10. \A v \in Workers : WorkerRight(sys, discovered, queues, flag', worker'[v])
  <2>1. WorkerRight(sys, discovered, queues, flag', worker'[w])
    BY <1>7 DEF WorkerRight, Working
  <2> QED
    BY <1>1, <1>2, <1>7, <2>1
<1>11. /\ \A v \in Workers : Works(worker[v]) => worker[v].depth = d + 1 /\ worker[v].queue = 3 - q
       /\ \A v \in Workers : ~Works(worker[v]) => worker[v].depth = d /\ worker[v].queue = q
  BY <1>2, <1>8 DEF BreadthInv, Abreast
<1>12. /\ \A v \in Workers : Works(worker'[v]) => worker'[v].depth = d + 1 /\ worker'[v].queue = 3 - q
       /\ \A v \in Workers : ~Works(worker'[v]) => worker'[v].depth = d /\ worker'[v].queue = q
  BY <1>7, <1>8, <1>11
<1>13. Abreast(worker')
  BY <1>12 DEF Abreast
<1>14. LevelRight(sys, discovered, queues, worker', flag', d + 1, 3 - q)
  <2>1. CASE Halted(worker)
    <3>1. Passed(flag, worker[w])
      BY <1>1 DEF Passed
    <3>2. PassedRight(sys, discovered, queues, worker, flag) /\ FoundRight(sys, discovered)
      BY <1>2 DEF BreadthInv
    <3>3. Clean(sys, discovered, d + 1) /\ NextRight(sys, discovered, queues, d, q)
      BY <2>1, <3>1, <3>2 DEF PassedRight
    <3> QED
      BY <1>2, <1>3, <1>5, <3>2, <3>3, LevelBegins
  <2>2. CASE ~Halted(worker)
    <3>1. PICK v \in Workers : Works(worker[v])
      BY <2>2 DEF Halted
    <3>2. LevelsRight(sys, discovered, queues, worker, flag)
      BY <1>2 DEF BreadthInv
    <3>3. LevelRight(sys, discovered, queues, worker, flag, worker[v].depth, worker[v].queue)
      BY <3>1, <3>2 DEF LevelsRight
    <3>4. worker[v].depth = d + 1 /\ worker[v].queue = 3 - q
      BY <3>1, <1>11
    <3>5. LevelRight(sys, discovered, queues, worker, flag, d + 1, 3 - q)
      BY <3>3, <3>4
    <3>6. Interrupted(worker, flag) => Interrupted(worker', flag')
      BY <1>1, <1>7 DEF Interrupted
    <3>7. \A v1 \in Workers : worker[v1].pc = "check" => worker'[v1] = worker[v1]
      BY <1>1, <1>7
    <3>8. \A v1 \in Workers : worker[v1].pc = "expand" => worker'[v1] = worker[v1] \/ worker[v1].events = {}
      BY <1>1, <1>7
    <3> QED
      BY <3>5, <3>6, <3>7, <3>8, LevelStays
  <2> QED
    BY <2>1, <2>2
<1>15. LevelsRight(sys, discovered, queues, worker', flag')
  BY <1>12, <1>14 DEF LevelsRight
<1>16. PassedRight(sys, discovered, queues, worker', flag')
  <2>1. PassedRight(sys, discovered, queues, worker, flag)
    BY <1>2 DEF BreadthInv
  <2>2. ~Halted(worker')
    BY <1>8 DEF Halted
  <2>3. ~Passed(flag', worker'[w])
    BY <1>7 DEF Passed
  <2> QED
    BY <1>1, <1>7, <2>1, <2>2, <2>3 DEF PassedRight
<1>17. PromptRight(sys, worker')
  BY <1>1, <1>7 DEF PromptRight
<1>18. FinishRight'
  <2> SUFFICES ASSUME sys.prompt, ~sys.limit
               PROVE  /\ result # None \/ main # "wait" => Signalled(worker', flag')
                      /\ Together(worker', flag') /\ Decided(queues', worker', flag')
    BY <1>1 DEF FinishRight
  <2>1. /\ result # None \/ main # "wait" => Signalled(worker, flag)
        /\ Together(worker, flag)
    BY FinishIs
  <2>2. Signalled(worker, flag) => Signalled(worker', flag')
    BY <1>1, <1>7 DEF Signalled, Interrupted
  <2>3. \A v \in Workers : worker[v].pc \notin {"quit", "exit"}
    BY <1>1, <2>1 DEF Together
  <2>4. Together(worker', flag')
    BY <1>7, <2>3 DEF Together
  <2>5. Decided(queues', worker', flag')
    BY <1>8 DEF Decided, Halted
  <2> QED
    BY <2>1, <2>2, <2>4, <2>5
<1>19. /\ FoundRight(sys, discovered)
       /\ ResultRight(sys, discovered, result) /\ ResultRight(sys, discovered, outcome)
  BY <1>2 DEF BreadthInv
<1> QED
  BY <1>1, <1>9, <1>10, <1>13, <1>15, <1>16, <1>17, <1>18, <1>19 DEF SearchInv, BreadthInv

(* The barrier opens. *)
LEMMA ReleaseKeeps ==
  ASSUME SearchInv, ~sys.random, NEW w \in Workers, Arrive(w), waiting \cup {w} = Workers
  PROVE  SearchInv'
<1>1. /\ sys' = sys /\ discovered' = discovered /\ queues' = queues /\ waiting' = {}
      /\ result' = result /\ main' = main /\ outcome' = outcome /\ flag' = flag
      /\ worker[w].pc = "arrive"
      /\ worker' = [v \in Workers |-> [worker[v] EXCEPT !.pc = "flag"]]
  BY DEF Arrive, At
<1>2. /\ SearchShape /\ BreadthInv
      /\ worker \in [Workers -> WorkerType] /\ flag \in BOOLEAN
      /\ sys \in Systems /\ discovered \in [Nodes -> {None} \cup InfoType]
      /\ \A v \in Workers : WorkerRight(sys, discovered, queues, flag, worker[v])
  BY BreadthIs DEF SearchShape
<1>3. \A v \in Workers : worker[v].pc \in {"arrive", "wait"}
  <2>1. waiting = {v \in Workers : worker[v].pc = "wait"}
    BY <1>2 DEF SearchShape, At
  <2> QED
    BY <1>1, <2>1
<1>4. ASSUME NEW v \in Workers
      PROVE  /\ worker'[v] \in WorkerType /\ worker'[v].pc = "flag"
             /\ worker'[v].depth = worker[v].depth /\ worker'[v].queue = worker[v].queue
  <2> DEFINE r == [worker[v] EXCEPT !.pc = "flag"]
  <2>1. worker'[v] = r
    BY <1>1
  <2>2. worker[v] \in WorkerType
    BY <1>2
  <2>3. /\ r \in WorkerType /\ r.pc = "flag"
        /\ r.depth = worker[v].depth /\ r.queue = worker[v].queue
    BY <2>2 DEF WorkerType, Gate
  <2> HIDE DEF r
  <2> QED
    BY <2>1, <2>3
<1>5. \A v \in Workers : Works(worker[v]) /\ ~Works(worker'[v])
  BY <1>3, <1>4 DEF Works, Working
<1>6. SearchShape'
  <2>1. worker' \in [Workers -> WorkerType]
    <3>1. worker' = [v \in Workers |-> worker'[v]]
      BY <1>1
    <3> QED
      BY <1>4, <3>1
  <2>2. waiting' = {v \in Workers : worker'[v].pc = "wait"}
    BY <1>1, <1>4
  <2>3. (waiting = {v \in Workers : At(v, "wait")})'
    BY <2>2 DEF At
  <2> QED
    BY <1>1, <1>2, <2>1, <2>3 DEF SearchShape
<1>7. \A v \in Workers : WorkerRight(sys, discovered, queues, flag', worker'[v])
  BY <1>4 DEF WorkerRight, Gate
<1>8. Abreast(worker')
  <2>1. Abreast(worker)
    BY <1>2 DEF BreadthInv
  <2> QED
    BY <1>4, <1>5, <2>1 DEF Abreast
<1>9. LevelsRight(sys, discovered, queues, worker', flag')
  BY <1>5 DEF LevelsRight
<1>10. ASSUME NEW v \in Workers, ~flag
       PROVE  /\ Clean(sys, discovered, worker[v].depth + 1)
              /\ NextRight(sys, discovered, queues, worker[v].depth, worker[v].queue)
  <2>1. LevelsRight(sys, discovered, queues, worker, flag) /\ FoundRight(sys, discovered)
    BY <1>2 DEF BreadthInv
  <2>2. LevelRight(sys, discovered, queues, worker, flag, worker[v].depth, worker[v].queue)
    BY <2>1, <1>5 DEF LevelsRight
  <2>3. queues[worker[v].queue] = <<>>
    BY <1>2, <1>3, <1>10 DEF WorkerRight
  <2>4. worker[v] \in WorkerType
    BY <1>2
  <2>5. worker[v].depth \in 0..MaxDepth - 1
    BY <2>4 DEF WorkerType
  <2> QED
    BY <1>2, <1>3, <1>10, <2>1, <2>2, <2>3, <2>5, LevelDone
<1>11. PassedRight(sys, discovered, queues, worker', flag')
  <2>1. \A v \in Workers : Passed(flag', worker'[v]) => ~flag
    BY <1>1, <1>4 DEF Passed
  <2> QED
    BY <2>1, <1>4, <1>10 DEF PassedRight
<1>12. PromptRight(sys, worker')
  BY <1>5 DEF PromptRight
<1>13. FinishRight'
  <2> SUFFICES ASSUME sys.prompt, ~sys.limit
               PROVE  /\ result # None \/ main # "wait" => Signalled(worker', flag')
                      /\ Together(worker', flag') /\ Decided(queues', worker', flag')
    BY <1>1 DEF FinishRight
  <2>1. result # None \/ main # "wait" => Signalled(worker, flag)
    BY FinishIs
  <2>2. Signalled(worker, flag) => Signalled(worker', flag')
    BY <1>1, <1>3 DEF Signalled, Interrupted
  <2>3. Together(worker', flag') /\ Decided(queues', worker', flag')
    BY <1>4 DEF Together, Decided
  <2> QED
    BY <2>1, <2>2, <2>3
<1>14. /\ FoundRight(sys, discovered)
       /\ ResultRight(sys, discovered, result) /\ ResultRight(sys, discovered, outcome)
  BY <1>2 DEF BreadthInv
<1> QED
  BY <1>1, <1>6, <1>7, <1>8, <1>9, <1>11, <1>12, <1>13, <1>14 DEF SearchInv, BreadthInv

-----------------------------------------------------------------------------
(* The steps of a level: what is discovered, or queued, grows.             *)
LEMMA HeadTail ==
  ASSUME NEW T, NEW s \in Seq(T), s # <<>>
  PROVE  /\ Head(s) \in T /\ Tail(s) \in Seq(T)
         /\ Head(s) \in Elements(s)
         /\ Elements(Tail(s)) \subseteq Elements(s)
         /\ Elements(s) \subseteq {Head(s)} \cup Elements(Tail(s))
<1>1. Len(s) \in Nat /\ Len(s) >= 1 /\ DOMAIN s = 1..Len(s) /\ Head(s) = s[1]
  OBVIOUS
<1>2. /\ Tail(s) \in Seq(T) /\ DOMAIN Tail(s) = 1..Len(s) - 1
      /\ \A i \in 1..Len(s) - 1 : Tail(s)[i] = s[i + 1]
  OBVIOUS
<1>3. \A i \in 1..Len(s) - 1 : i + 1 \in 1..Len(s)
  BY <1>1
<1>4. \A i \in 1..Len(s) : i # 1 => i - 1 \in 1..Len(s) - 1 /\ (i - 1) + 1 = i
  BY <1>1
<1>5. Elements(Tail(s)) \subseteq Elements(s)
  BY <1>1, <1>2, <1>3 DEF Elements
<1>6. Elements(s) \subseteq {Head(s)} \cup Elements(Tail(s))
  <2> SUFFICES ASSUME NEW i \in 1..Len(s), i # 1 PROVE s[i] \in Elements(Tail(s))
    BY <1>1 DEF Elements
  <2>1. i - 1 \in DOMAIN Tail(s) /\ Tail(s)[i - 1] = s[i]
    BY <1>2, <1>4
  <2> QED
    BY <2>1 DEF Elements
<1> QED
  BY <1>1, <1>2, <1>5, <1>6 DEF Elements

LEMMA Appended ==
  ASSUME NEW T, NEW s \in Seq(T), NEW x \in T
  PROVE  Append(s, x) \in Seq(T) /\ Elements(Append(s, x)) = Elements(s) \cup {x}
<1>1. /\ Append(s, x) \in Seq(T) /\ DOMAIN Append(s, x) = 1..Len(s) + 1 /\ Len(s) \in Nat
      /\ DOMAIN s = 1..Len(s) /\ Append(s, x)[Len(s) + 1] = x
      /\ \A i \in 1..Len(s) : Append(s, x)[i] = s[i]
  OBVIOUS
<1>2. \A i : i \in 1..Len(s) + 1 <=> i \in 1..Len(s) \/ i = Len(s) + 1
  BY <1>1
<1> QED
  BY <1>1, <1>2 DEF Elements

LEMMA LevelKeeps ==
  ASSUME SearchInv, ~sys.random, NEW w \in Workers, SearchShape',
         UNCHANGED <<sys, flag, main, outcome>>,
         Works(worker[w]), Works(worker'[w]),
         worker'[w].depth = worker[w].depth, worker'[w].queue = worker[w].queue,
         \A v \in Workers : v # w => worker'[v] = worker[v],
         Known(discovered) \subseteq Known(discovered'),
         \A n \in Known(discovered) : discovered'[n] = discovered[n],
         FoundRight(sys, discovered'),
         \A v \in Workers : WorkerRight(sys, discovered', queues', flag, worker'[v]),
         LevelRight(sys, discovered', queues', worker', flag, worker[w].depth, worker[w].queue),
         ResultRight(sys, discovered, result'),
         result' = result \/ Interrupted(worker', flag),
         Interrupted(worker, flag) => Interrupted(worker', flag)
  PROVE  SearchInv'
<1>1. BreadthInv
  BY BreadthIs
<1>2. sys' = sys /\ flag' = flag /\ main' = main /\ outcome' = outcome
  OBVIOUS
<1>3. /\ \A v \in Workers : Works(worker'[v]) <=> Works(worker[v])
      /\ \A v \in Workers : worker'[v].depth = worker[v].depth /\ worker'[v].queue = worker[v].queue
  OBVIOUS
<1>4. Abreast(worker')
  <2>1. Abreast(worker)
    BY <1>1 DEF BreadthInv
  <2> QED
    BY <1>3, <2>1 DEF Abreast
<1>5. LevelsRight(sys, discovered', queues', worker', flag)
  BY <1>3, <1>4 DEF LevelsRight, Abreast
<1>6. PassedRight(sys, discovered', queues', worker', flag)
  <2>1. PassedRight(sys, discovered, queues, worker, flag)
    BY <1>1 DEF BreadthInv
  <2>2. ~Halted(worker')
    BY DEF Halted
  <2>3. \A k : Clean(sys, discovered, k) => Clean(sys, discovered', k)
    BY CleanGrows
  <2>4. ~Passed(flag, worker'[w])
    BY DEF Passed, Works, Working
  <2>5. \A v \in Workers : Passed(flag, worker'[v]) => Clean(sys, discovered', worker'[v].depth + 1)
    BY <1>3, <2>1, <2>3, <2>4 DEF PassedRight
  <2> QED
    BY <2>2, <2>5 DEF PassedRight
<1>7. PromptRight(sys, worker')
  <2>1. PromptRight(sys, worker)
    BY <1>1 DEF BreadthInv
  <2> QED
    BY <2>1, PromptWorks
<1>8. FinishRight'
  <2>1. FinishRight
    BY <1>1 DEF BreadthInv
  <2>2. flag => flag'
    BY <1>2
  <2>3. Interrupted(worker, flag) => Interrupted(worker', flag')
    BY <1>2
  <2>4. (result' = result /\ main' = main) \/ Interrupted(worker', flag')
    BY <1>2
  <2> QED
    BY <1>2, <2>1, <2>2, <2>3, <2>4, FinishWorks
<1>9. ResultRight(sys, discovered', result') /\ ResultRight(sys, discovered', outcome')
  <2>1. ResultRight(sys, discovered, outcome')
    BY <1>1, <1>2 DEF BreadthInv
  <2> QED
    BY <2>1, ResultGrows
<1> QED
  BY <1>2, <1>4, <1>5, <1>6, <1>7, <1>8, <1>9 DEF SearchInv, BreadthInv

LEMMA LevelIs ==
  ASSUME SearchInv, ~sys.random, NEW w \in Workers, Works(worker[w])
  PROVE  /\ LevelRight(sys, discovered, queues, worker, flag, worker[w].depth, worker[w].queue)
         /\ worker[w].depth \in 0..MaxDepth - 1 /\ worker[w].queue \in 1..2
         /\ 3 - worker[w].queue \in 1..2 /\ 3 - worker[w].queue # worker[w].queue
         /\ MaxDepth \in Nat /\ worker[w].depth \in 0..MaxDepth /\ worker[w].depth + 1 \in 1..MaxDepth
         /\ \A v \in Workers : Works(worker[v]) =>
               worker[v].depth = worker[w].depth /\ worker[v].queue = worker[w].queue
         /\ sys \in Systems /\ discovered \in [Nodes -> {None} \cup InfoType]
         /\ queues \in [1..2 -> Seq(Nodes)] /\ worker \in [Workers -> WorkerType]
         /\ FoundRight(sys, discovered)
<1>1. SearchShape /\ BreadthInv /\ worker[w] \in WorkerType
  BY BreadthIs
<1>2. LevelRight(sys, discovered, queues, worker, flag, worker[w].depth, worker[w].queue)
  BY <1>1 DEF BreadthInv, LevelsRight
<1>3. worker[w].depth \in 0..MaxDepth - 1 /\ worker[w].queue \in 1..2 /\ MaxDepth \in Nat
  BY <1>1, DepthAssumption DEF WorkerType
<1>4. \A v \in Workers : Works(worker[v]) =>
         worker[v].depth = worker[w].depth /\ worker[v].queue = worker[w].queue
  BY <1>1 DEF BreadthInv, Abreast
<1> QED
  BY <1>1, <1>2, <1>3, <1>4 DEF SearchShape, BreadthInv

LEMMA MovesAre ==
  ASSUME NEW y \in Systems, NEW n \in Nodes
  PROVE  Moves(y, n) \in SUBSET EventType
<1>1. y.succ[n] \in SUBSET Nodes
  BY SystemIs
<1>2. ASSUME NEW e \in Moves(y, n) PROVE e \in EventType
  <2>1. CASE \E m \in y.succ[n] : e = [fails |-> FALSE, to |-> m]
    BY <1>1, <2>1 DEF EventType
  <2>2. CASE e = [fails |-> TRUE, to |-> None]
    BY <2>2 DEF EventType
  <2> QED
    BY <2>1, <2>2 DEF Moves
<1> QED
  BY <1>2

LEMMA EventsAre ==
  ASSUME NEW n
  PROVE  Events(n) = Moves(sys, n)
  BY DEF Events, Moves

LEMMA PopKeeps ==
  ASSUME SearchInv, ~sys.random, NEW w \in Workers, Pop(w)
  PROVE  SearchInv'
<1> DEFINE d == worker[w].depth
           q == worker[w].queue
           n == Head(queues[q])
<1>1. /\ UNCHANGED <<sys, discovered, result, waiting, main, outcome>> /\ flag' = flag
      /\ worker[w].pc = "pop" /\ sys' = sys /\ discovered' = discovered /\ result' = result
      /\ main' = main /\ outcome' = outcome /\ waiting' = waiting
  BY DEF Pop, At
<1>2. Works(worker[w]) /\ worker[w].pc \in Working
  BY <1>1 DEF Works, Working
<1>3. CASE queues[q] = <<>>
  <2>1. MovedTo(worker, w, "arrive", worker') /\ queues' = queues
    BY <1>3 DEF Pop, Queue, Goto, Becomes, MovedTo
  <2>2. "arrive" \in Working
    BY DEF Working
  <2>3. flag \in BOOLEAN
    BY BreadthIs DEF SearchShape
  <2> QED
    BY <1>1, <1>2, <1>3, <2>1, <2>2, <2>3, WorkingKeeps
<1>4. CASE queues[q] # <<>>
  <2>1. /\ LevelRight(sys, discovered, queues, worker, flag, d, q)
        /\ q \in 1..2 /\ 3 - q \in 1..2 /\ 3 - q # q
        /\ \A v \in Workers : Works(worker[v]) => worker[v].queue = q
        /\ sys \in Systems /\ queues \in [1..2 -> Seq(Nodes)] /\ worker \in [Workers -> WorkerType]
        /\ FoundRight(sys, discovered)
    BY <1>2, LevelIs
  <2>2. /\ n \in Nodes /\ Tail(queues[q]) \in Seq(Nodes) /\ n \in Elements(queues[q])
        /\ Elements(Tail(queues[q])) \subseteq Elements(queues[q])
        /\ Elements(queues[q]) \subseteq {n} \cup Elements(Tail(queues[q]))
    <3>1. queues[q] \in Seq(Nodes)
      BY <2>1
    <3> HIDE DEF n
    <3> QED
      BY <1>4, <3>1, HeadTail DEF n
  <2>3. n \in Known(discovered) \cap Open(sys) /\ discovered[n].depth = d
    BY <2>1, <2>2 DEF LevelRight, Queued
  <2>4. /\ queues' = [queues EXCEPT ![q] = Tail(queues[q])]
        /\ worker' = [worker EXCEPT ![w] =
              [worker[w] EXCEPT !.pc = "expand", !.state = n, !.events = Events(n)]]
    BY <1>4 DEF Pop, Queue, Becomes
  <2>5. Events(n) = Moves(sys, n) /\ Moves(sys, n) \in SUBSET EventType
    <3> HIDE DEF n
    <3> QED
      BY <2>1, <2>2, MovesAre, EventsAre
  <2> HIDE DEF n
  <2>6. /\ worker' \in [Workers -> WorkerType]
        /\ \A v \in Workers : v # w => worker'[v] = worker[v]
        /\ worker'[w].pc = "expand" /\ worker'[w].state = n /\ worker'[w].events = Moves(sys, n)
        /\ worker'[w].depth = d /\ worker'[w].queue = q
    <3> DEFINE r == [worker[w] EXCEPT !.pc = "expand", !.state = n, !.events = Events(n)]
    <3>1. worker[w] \in WorkerType
      BY <2>1
    <3>2. /\ r \in WorkerType /\ r.pc = "expand" /\ r.state = n /\ r.events = Events(n)
          /\ r.depth = d /\ r.queue = q
      BY <2>2, <2>5, <3>1 DEF WorkerType, Working
    <3>3. worker' = [worker EXCEPT ![w] = r]
      BY <2>4
    <3> HIDE DEF r
    <3> QED
      BY <2>1, <2>5, <3>2, <3>3
  <2>7. /\ queues' \in [1..2 -> Seq(Nodes)]
        /\ queues'[q] = Tail(queues[q]) /\ queues'[3 - q] = queues[3 - q]
    BY <2>1, <2>2, <2>4
  <2>8. Works(worker'[w])
    BY <2>6 DEF Works, Working
  <2>9. SearchShape'
    <3>1. SearchShape
      BY BreadthIs
    <3>2. waiting = {v \in Workers : worker[v].pc = "wait"}
      BY <3>1 DEF SearchShape, At
    <3>3. waiting' = {v \in Workers : worker'[v].pc = "wait"}
      BY <1>1, <2>6, <3>2
    <3>4. (waiting = {v \in Workers : At(v, "wait")})'
      BY <3>3 DEF At
    <3> QED
      BY <1>1, <2>6, <2>7, <3>1, <3>4 DEF SearchShape
  <2>10. \A v \in Workers : WorkerRight(sys, discovered, queues', flag, worker'[v])
    <3>1. WorkerRight(sys, discovered, queues', flag, worker'[w])
      BY <2>3, <2>6 DEF WorkerRight, Working
    <3>2. ASSUME NEW v \in Workers, v # w
          PROVE  WorkerRight(sys, discovered, queues', flag, worker'[v])
      <4>1. WorkerRight(sys, discovered, queues, flag, worker[v])
        BY BreadthIs
      <4>2. worker[v].pc \in {"arrive", "wait"} => flag
        <5>1. worker[v].pc \in {"arrive", "wait"} => worker[v].queue = q
          BY <2>1 DEF Works, Working
        <5> QED
          BY <1>4, <4>1, <5>1 DEF WorkerRight
      <4> QED
        BY <2>6, <3>2, <4>1, <4>2 DEF WorkerRight
    <3> QED
      BY <3>1, <3>2
  <2>11. Interrupted(worker, flag) => Interrupted(worker', flag)
    BY <1>1, <2>6 DEF Interrupted
  <2>12. LevelRight(sys, discovered, queues', worker', flag, d, q)
    <3>1. \A m : Checking(worker, m) => Checking(worker', m)
      BY <1>1, <2>6 DEF Checking
    <3>2. \A m, e : Expanding(worker, m, e) => Expanding(worker', m, e)
      BY <1>1, <2>6 DEF Expanding
    <3>3. \A e \in Moves(sys, n) : Expanding(worker', n, e)
      BY <2>6 DEF Expanding
    <3>4. Queued(sys, discovered, queues'[q], d) /\ Queued(sys, discovered, queues'[3 - q], d + 1)
      BY <2>1, <2>2, <2>7 DEF LevelRight, Queued
    <3>5. Remaining(sys, discovered, queues', worker', flag, d, q)
      <4>1. Remaining(sys, discovered, queues, worker, flag, d, q)
        BY <2>1 DEF LevelRight
      <4>2. \A m : m \in Elements(queues[q]) => m = n \/ m \in Elements(queues'[q])
        BY <2>2, <2>7
      <4> QED
        BY <2>11, <3>2, <3>3, <4>1, <4>2 DEF Remaining
    <3>6. Coming(sys, discovered, queues', worker', d, q)
      BY <2>1, <2>7, <3>1 DEF LevelRight, Coming
    <3>7. Reporting(sys, discovered, worker', flag, d)
      BY <2>1, <2>11, <3>1 DEF LevelRight, Reporting
    <3> QED
      BY <2>1, <3>4, <3>5, <3>6, <3>7 DEF LevelRight
  <2>13. ResultRight(sys, discovered, result')
    BY <1>1, BreadthIs DEF BreadthInv
  <2>14. discovered' = discovered /\ UNCHANGED <<sys, flag, main, outcome>>
    BY <1>1
  <2>15. /\ FoundRight(sys, discovered')
         /\ \A v \in Workers : WorkerRight(sys, discovered', queues', flag, worker'[v])
         /\ LevelRight(sys, discovered', queues', worker', flag, worker[w].depth, worker[w].queue)
    BY <2>1, <2>10, <2>12, <2>14
  <2>16. worker'[w].depth = worker[w].depth /\ worker'[w].queue = worker[w].queue
    BY <2>6
  <2>17. Known(discovered) \subseteq Known(discovered') /\ \A k \in Known(discovered) : discovered'[k] = discovered[k]
    BY <2>14
  <2> QED
    BY <1>1, <1>2, <2>6, <2>8, <2>9, <2>11, <2>13, <2>14, <2>15, <2>16, <2>17, LevelKeeps
<1> QED
  BY <1>3, <1>4

LEMMA ShapeKeeps ==
  ASSUME SearchShape, NEW w \in Workers, UNCHANGED <<sys, flag, waiting, main>>,
         discovered' \in [Nodes -> {None} \cup InfoType], queues' \in [1..2 -> Seq(Nodes)],
         worker' \in [Workers -> WorkerType], \A v \in Workers : v # w => worker'[v] = worker[v],
         worker[w].pc # "wait", worker'[w].pc # "wait"
  PROVE  SearchShape'
<1>1. waiting = {v \in Workers : worker[v].pc = "wait"}
  BY DEF SearchShape, At
<1>2. waiting' = {v \in Workers : worker'[v].pc = "wait"}
  BY <1>1
<1>3. (waiting = {v \in Workers : At(v, "wait")})'
  BY <1>2 DEF At
<1> QED
  BY <1>3 DEF SearchShape

(* A worker with a result leaves its level. *)
LEMMA LeaveKeeps ==
  ASSUME SearchInv, ~sys.random, NEW w \in Workers,
         UNCHANGED <<sys, discovered, queues, flag, waiting, main, outcome>>,
         MovedTo(worker, w, "leave", worker'), worker[w].pc \in {"expand", "check"},
         worker[w].pc = "check" => worker[w].next \notin Open(sys),
         ResultRight(sys, discovered, result')
  PROVE  SearchInv'
<1> DEFINE d == worker[w].depth
           q == worker[w].queue
<1>1. /\ sys' = sys /\ discovered' = discovered /\ queues' = queues /\ flag' = flag
      /\ main' = main /\ outcome' = outcome /\ waiting' = waiting
  OBVIOUS
<1>2. Works(worker[w]) /\ worker[w].pc # "wait"
  BY DEF Works, Working
<1>3. /\ LevelRight(sys, discovered, queues, worker, flag, d, q)
      /\ sys \in Systems /\ queues \in [1..2 -> Seq(Nodes)] /\ worker \in [Workers -> WorkerType]
      /\ discovered \in [Nodes -> {None} \cup InfoType] /\ FoundRight(sys, discovered)
  BY <1>2, LevelIs
<1>4. "leave" \in Working \cup Gate \cup Roaming /\ "leave" \in Working
  BY DEF Working
<1>5. /\ worker' \in [Workers -> WorkerType]
      /\ \A v \in Workers : v # w => worker'[v] = worker[v]
      /\ worker'[w].pc = "leave" /\ worker'[w].queue = q /\ worker'[w].depth = d
  BY <1>3, <1>4, GotoIs
<1>6. Works(worker'[w]) /\ worker'[w].pc # "wait"
  BY <1>4, <1>5 DEF Works
<1>7. SearchShape'
  <2>1. SearchShape
    BY BreadthIs
  <2> QED
    BY <1>1, <1>2, <1>3, <1>5, <1>6, <2>1, ShapeKeeps
<1>8. Interrupted(worker', flag)
  BY <1>5 DEF Interrupted
<1>9. LevelRight(sys, discovered, queues, worker', flag, d, q)
  <2>1. \A m \in Open(sys) : Checking(worker, m) => Checking(worker', m)
    BY <1>5 DEF Checking
  <2>2. Coming(sys, discovered, queues, worker', d, q)
    BY <1>3, <2>1 DEF LevelRight, Coming
  <2>3. Remaining(sys, discovered, queues, worker', flag, d, q) /\ Reporting(sys, discovered, worker', flag, d)
    BY <1>8 DEF Remaining, Reporting
  <2> QED
    BY <1>3, <2>2, <2>3 DEF LevelRight
<1>10. \A v \in Workers : WorkerRight(sys, discovered, queues, flag, worker'[v])
  <2>1. WorkerRight(sys, discovered, queues, flag, worker'[w])
    BY <1>5 DEF WorkerRight, Working
  <2> QED
    BY <1>5, <2>1, BreadthIs
<1>11. /\ FoundRight(sys, discovered')
       /\ \A v \in Workers : WorkerRight(sys, discovered', queues', flag, worker'[v])
       /\ LevelRight(sys, discovered', queues', worker', flag, worker[w].depth, worker[w].queue)
  BY <1>1, <1>3, <1>9, <1>10
<1>12. Known(discovered) \subseteq Known(discovered') /\ \A k \in Known(discovered) : discovered'[k] = discovered[k]
  BY <1>1
<1>13. worker'[w].depth = worker[w].depth /\ worker'[w].queue = worker[w].queue
  BY <1>5
<1>14. result' = result \/ Interrupted(worker', flag)
  BY <1>8
<1>15. Interrupted(worker, flag) => Interrupted(worker', flag)
  BY <1>8
<1>16. UNCHANGED <<sys, flag, main, outcome>>
  BY <1>1
<1> QED
  BY <1>2, <1>5, <1>6, <1>7, <1>11, <1>12, <1>13, <1>14, <1>15, <1>16, LevelKeeps

(* What is written down with a new state is right. *)
Inserted(y, disc, disc2, d, s, n) ==
    /\ s \in Known(disc) \cap Open(y) /\ disc[s].depth = d
    /\ n \in y.succ[s] /\ n \notin Known(disc)
    /\ disc2 = [disc EXCEPT ![n] = [prev |-> s, depth |-> d + 1]]

LEMMA FoundGrows ==
  ASSUME NEW y \in Systems, NEW disc \in [Nodes -> {None} \cup InfoType], FoundRight(y, disc),
         NEW d \in 0..MaxDepth - 1, Clean(y, disc, d), NEW s, NEW n, NEW disc2,
         Inserted(y, disc, disc2, d, s, n)
  PROVE  /\ disc2 \in [Nodes -> {None} \cup InfoType] /\ FoundRight(y, disc2)
         /\ n \in Nodes /\ Known(disc2) = Known(disc) \cup {n}
         /\ disc2[n] = [prev |-> s, depth |-> d + 1]
         /\ \A m \in Known(disc) : disc2[m] = disc[m]
<1> DEFINE info == [prev |-> s, depth |-> d + 1]
           R == Reach(y)
<1> USE DEF Inserted
<1>1. /\ MaxDepth \in Nat /\ d + 1 \in 1..MaxDepth /\ (d + 1) - 1 = d /\ d \in 0..MaxDepth
      /\ d + 1 \in 0..MaxDepth /\ d + 1 >= 1
  BY DepthAssumption
<1>2. s \in Nodes /\ n \in Nodes
  BY SystemIs DEF Known
<1>3. info \in InfoType /\ info.prev = s /\ info.depth = d + 1
  BY <1>1, <1>2 DEF InfoType
<1>4. info # None
  BY <1>3, NoneAssumption DEF InfoType
<1>5. disc2 = [disc EXCEPT ![n] = info]
  OBVIOUS
<1> HIDE DEF info
<1>6. disc2 \in [Nodes -> {None} \cup InfoType] /\ disc2[n] = info
      /\ \A m \in Nodes : m # n => disc2[m] = disc[m]
  BY <1>2, <1>3, <1>5
<1>7. Known(disc2) = Known(disc) \cup {n}
  BY <1>2, <1>4, <1>6 DEF Known
<1>8. \A m \in Known(disc) : m # n /\ disc2[m] = disc[m]
  BY <1>6 DEF Known
<1>9. n \in R[d + 1] \ R[d]
  <2>1. s \in R[d]
    BY <1>1, FoundIn
  <2>2. R[d + 1] = R[d] \cup UNION {y.succ[k] : k \in R[d] \cap Open(y)}
    BY <1>1, ReachIs
  <2>3. n \in R[d + 1]
    BY <2>1, <2>2
  <2>4. n \notin R[d]
    BY DEF Clean
  <2> QED
    BY <2>3, <2>4
<1>10. FoundRight(y, disc2)
  <2>1. Initial \in Known(disc2) /\ disc2[Initial].depth = 0
    BY <1>7, <1>8 DEF FoundRight
  <2>2. ASSUME NEW m \in Known(disc2) \ {Initial}
        PROVE  /\ disc2[m].depth >= 1
               /\ m \in R[disc2[m].depth] \ R[disc2[m].depth - 1]
               /\ disc2[m].prev \in Known(disc2) /\ m \in y.succ[disc2[m].prev]
               /\ disc2[disc2[m].prev].depth + 1 = disc2[m].depth
    <3>1. CASE m = n
      <4>1. disc2[s] = disc[s]
        BY <1>8
      <4>2. disc2[m].depth = d + 1 /\ disc2[m].prev = s
        BY <3>1, <1>3, <1>6
      <4> QED
        BY <3>1, <4>1, <4>2, <1>1, <1>7, <1>9
    <3>2. CASE m # n
      <4>1. m \in Known(disc) \ {Initial} /\ disc2[m] = disc[m]
        BY <3>2, <1>7, <1>8
      <4>2. /\ disc[m].depth >= 1
            /\ m \in R[disc[m].depth] \ R[disc[m].depth - 1]
            /\ disc[m].prev \in Known(disc) /\ m \in y.succ[disc[m].prev]
            /\ disc[disc[m].prev].depth + 1 = disc[m].depth
        BY <4>1 DEF FoundRight
      <4>3. disc2[disc[m].prev] = disc[disc[m].prev]
        BY <4>2, <1>8
      <4> QED
        BY <4>1, <4>2, <4>3, <1>7
    <3> QED
      BY <3>1, <3>2
  <2> QED
    BY <2>1, <2>2 DEF FoundRight
<1> QED
  BY <1>2, <1>6, <1>7, <1>8, <1>10 DEF info

LEMMA RightGrows ==
  ASSUME NEW y, NEW disc, NEW disc2, NEW qs, NEW fl, NEW r, WorkerRight(y, disc, qs, fl, r),
         Known(disc) \subseteq Known(disc2), \A m \in Known(disc) : disc2[m] = disc[m]
  PROVE  WorkerRight(y, disc2, qs, fl, r)
<1>1. r.pc \in {"expand", "check"} =>
          /\ r.state \in Known(disc2) \cap Open(y) /\ disc2[r.state].depth = r.depth
          /\ r.events \subseteq Moves(y, r.state)
  BY DEF WorkerRight
<1>2. r.pc = "check" => r.next \in Known(disc2) /\ disc2[r.next].depth = r.depth + 1
  BY DEF WorkerRight
<1> QED
  BY <1>1, <1>2 DEF WorkerRight

(* A worker takes an event that leads to n. *)
Took(wk, wk2, w, e) ==
    /\ wk[w].pc = "expand" /\ ~e.fails
    /\ \A v \in Workers : v # w => wk2[v] = wk[v]
    /\ wk2[w].pc \in {"expand", "check"} /\ wk2[w].state = wk[w].state
    /\ wk2[w].events = wk[w].events \ {e} /\ wk2[w].next = e.to

LEMMA LevelSteps ==
  ASSUME NEW w \in Workers, NEW y, NEW disc, NEW disc2, NEW qs, NEW wk, NEW wk2, NEW fl, NEW d \in Nat,
         NEW q, LevelRight(y, disc, qs, wk, fl, d, q), NEW e, Took(wk, wk2, w, e),
         Known(disc2) = Known(disc) \cup {e.to}, \A m \in Known(disc) : disc2[m] = disc[m],
         e.to \notin Known(disc) => wk2[w].pc = "check" /\ disc2[e.to].depth = d + 1
  PROVE  LevelRight(y, disc2, qs, wk2, fl, d, q)
<1> USE DEF Took
<1>1. Clean(y, disc2, d)
  BY CleanGrows DEF LevelRight
<1>2. \A n \in Known(disc2) : disc2[n].depth <= d + 1
  BY DEF LevelRight
<1>3. Queued(y, disc2, qs[q], d) /\ Queued(y, disc2, qs[3 - q], d + 1)
  BY DEF LevelRight, Queued
<1>4. \A m : Checking(wk, m) => Checking(wk2, m)
  BY DEF Checking
<1>5. \A m, f : Expanding(wk, m, f) => Expanding(wk2, m, f) \/ f = e
  BY DEF Expanding
<1>6. Interrupted(wk, fl) => Interrupted(wk2, fl)
  BY DEF Interrupted
<1>7. Remaining(y, disc2, qs, wk2, fl, d, q)
  <2>1. Remaining(y, disc, qs, wk, fl, d, q)
    BY DEF LevelRight
  <2> QED
    BY <1>5, <1>6, <2>1 DEF Remaining
<1>8. e.to \notin Known(disc) => Checking(wk2, e.to)
  BY DEF Checking
<1>9. Coming(y, disc2, qs, wk2, d, q)
  <2>1. Coming(y, disc, qs, wk, d, q)
    BY DEF LevelRight
  <2> QED
    BY <1>4, <1>8, <2>1 DEF Coming
<1>10. Reporting(y, disc2, wk2, fl, d)
  <2>1. Reporting(y, disc, wk, fl, d)
    BY DEF LevelRight
  <2> QED
    BY <1>4, <1>6, <1>8, <2>1 DEF Reporting
<1> QED
  BY <1>1, <1>2, <1>3, <1>7, <1>9, <1>10 DEF LevelRight

LEMMA FailKeeps ==
  ASSUME SearchInv, ~sys.random, NEW w \in Workers, NEW e, Step(w, e), e.fails
  PROVE  SearchInv'
<1> DEFINE n == worker[w].state
           d == worker[w].depth
<1>1. /\ UNCHANGED <<sys, discovered, queues, flag, waiting, main, outcome>>
      /\ worker[w].pc = "expand" /\ MovedTo(worker, w, "leave", worker')
      /\ result' = IF result = None THEN Error(n) ELSE result
  BY DEF Step, At, SearchFinish, Goto, Becomes, MovedTo
<1>2. Works(worker[w])
  BY <1>1 DEF Works, Working
<1>3. /\ Clean(sys, discovered, d) /\ d \in 0..MaxDepth - 1 /\ MaxDepth \in Nat
  BY <1>2, LevelIs DEF LevelRight
<1>4. n \in Known(discovered) /\ discovered[n].depth = d
  BY <1>1, BreadthIs DEF WorkerRight
<1>5. ResultRight(sys, discovered, Error(n))
  <2>1. discovered[n].depth < MaxDepth /\ Clean(sys, discovered, discovered[n].depth)
    BY <1>3, <1>4
  <2> QED
    BY <1>4, <2>1 DEF ResultRight
<1>6. ResultRight(sys, discovered, result)
  BY BreadthIs DEF BreadthInv
<1>7. ResultRight(sys, discovered, result')
  BY <1>1, <1>5, <1>6
<1> QED
  BY <1>1, <1>7, LeaveKeeps

LEMMA StepKeeps ==
  ASSUME SearchInv, ~sys.random, NEW w \in Workers, NEW e \in worker[w].events, Step(w, e), ~e.fails
  PROVE  SearchInv'
<1> DEFINE d == worker[w].depth
           q == worker[w].queue
           s == worker[w].state
           n == e.to
           pc == IF discovered[n] = None THEN "check" ELSE "expand"
<1>1. /\ UNCHANGED <<sys, queues, result, flag, waiting, main, outcome>>
      /\ worker[w].pc = "expand"
      /\ worker' = [worker EXCEPT ![w] =
            [worker[w] EXCEPT !.events = worker[w].events \ {e}, !.pc = pc, !.next = n]]
      /\ discovered' = IF discovered[n] # None THEN discovered
                       ELSE [discovered EXCEPT ![n] = [prev |-> s, depth |-> d + 1]]
  BY DEF Step, At, Becomes, Info
<1>2. /\ sys' = sys /\ queues' = queues /\ result' = result /\ flag' = flag /\ main' = main
      /\ outcome' = outcome /\ waiting' = waiting
  BY <1>1
<1>3. Works(worker[w]) /\ worker[w].pc # "wait"
  BY <1>1 DEF Works, Working
<1>4. /\ LevelRight(sys, discovered, queues, worker, flag, d, q)
      /\ d \in 0..MaxDepth - 1 /\ MaxDepth \in Nat
      /\ sys \in Systems /\ queues \in [1..2 -> Seq(Nodes)] /\ worker \in [Workers -> WorkerType]
      /\ discovered \in [Nodes -> {None} \cup InfoType] /\ FoundRight(sys, discovered)
  BY <1>3, LevelIs
<1>5. /\ s \in Known(discovered) \cap Open(sys) /\ discovered[s].depth = d /\ e \in Moves(sys, s)
  BY <1>1, BreadthIs DEF WorkerRight
<1>6. n \in sys.succ[s] /\ n \in Nodes
  <2>1. \E m \in sys.succ[s] : e = [fails |-> FALSE, to |-> m]
    BY <1>5 DEF Moves
  <2>2. n \in sys.succ[s]
    BY <2>1
  <2>3. sys.succ[s] \in SUBSET Nodes
    BY <1>4, <1>5, SystemIs DEF Known
  <2> QED
    BY <2>2, <2>3
<1>7. pc \in {"check", "expand"} /\ (discovered[n] = None => pc = "check")
      /\ (pc = "check" => discovered[n] = None)
  OBVIOUS
<1> HIDE DEF pc, n
<1>8. /\ worker' \in [Workers -> WorkerType]
      /\ \A v \in Workers : v # w => worker'[v] = worker[v]
      /\ worker'[w].pc = pc /\ worker'[w].state = s /\ worker'[w].events = worker[w].events \ {e}
      /\ worker'[w].next = n /\ worker'[w].depth = d /\ worker'[w].queue = q
  <2> DEFINE r == [worker[w] EXCEPT !.events = worker[w].events \ {e}, !.pc = pc, !.next = n]
  <2>1. worker[w] \in WorkerType
    BY <1>4
  <2>2. /\ r \in WorkerType /\ r.pc = pc /\ r.state = s /\ r.events = worker[w].events \ {e}
        /\ r.next = n /\ r.depth = d /\ r.queue = q
    BY <1>6, <1>7, <2>1 DEF WorkerType, Working
  <2>3. worker' = [worker EXCEPT ![w] = r]
    BY <1>1
  <2> HIDE DEF r
  <2> QED
    BY <1>4, <2>2, <2>3
<1>9. Works(worker'[w]) /\ worker'[w].pc # "wait"
  BY <1>7, <1>8 DEF Works, Working
<1>10. /\ discovered' \in [Nodes -> {None} \cup InfoType] /\ FoundRight(sys, discovered')
       /\ Known(discovered') = Known(discovered) \cup {n}
       /\ \A m \in Known(discovered) : discovered'[m] = discovered[m]
       /\ pc = "check" => discovered'[n].depth = d + 1
  <2>1. CASE n \in Known(discovered)
    <3>1. discovered' = discovered /\ pc # "check"
      BY <1>1, <1>7, <2>1 DEF Known
    <3> QED
      BY <1>4, <2>1, <3>1
  <2>2. CASE n \notin Known(discovered)
    <3>1. discovered' = [discovered EXCEPT ![n] = [prev |-> s, depth |-> d + 1]]
      BY <1>1, <1>6, <2>2 DEF Known
    <3>2. Clean(sys, discovered, d)
      BY <1>4 DEF LevelRight
    <3>3. /\ discovered' \in [Nodes -> {None} \cup InfoType] /\ FoundRight(sys, discovered')
          /\ Known(discovered') = Known(discovered) \cup {n}
          /\ discovered'[n] = [prev |-> s, depth |-> d + 1]
          /\ \A m \in Known(discovered) : discovered'[m] = discovered[m]
      <4> HIDE DEF d, s
      <4>1. Inserted(sys, discovered, discovered', d, s, n)
        BY <1>5, <1>6, <2>2, <3>1 DEF Inserted
      <4> QED
        BY <1>4, <3>2, <4>1, FoundGrows
    <3> QED
      BY <3>3
  <2> QED
    BY <2>1, <2>2
<1>11. n \notin Known(discovered) => pc = "check"
  BY <1>6, <1>7 DEF Known
<1>12. SearchShape'
  <2>1. SearchShape
    BY BreadthIs
  <2>2. queues' \in [1..2 -> Seq(Nodes)] /\ UNCHANGED <<sys, flag, waiting, main>>
    BY <1>2, <1>4
  <2> QED
    BY <1>3, <1>8, <1>9, <1>10, <2>1, <2>2, ShapeKeeps
<1>13. \A v \in Workers : WorkerRight(sys, discovered', queues', flag, worker'[v])
  <2>1. WorkerRight(sys, discovered', queues', flag, worker'[w])
    <3>1. worker'[w].pc \in Working \cup Gate /\ worker'[w].pc \notin {"arrive", "wait", "sleep"}
      BY <1>7, <1>8 DEF Working
    <3>2. /\ s \in Known(discovered') \cap Open(sys) /\ discovered'[s].depth = d
          /\ worker'[w].events \subseteq Moves(sys, s)
      <4>1. WorkerRight(sys, discovered, queues, flag, worker[w])
        BY BreadthIs
      <4>2. worker[w].events \subseteq Moves(sys, s)
        BY <1>1, <4>1 DEF WorkerRight
      <4> QED
        BY <1>5, <1>8, <1>10, <4>2
    <3>3. worker'[w].pc = "check" => n \in Known(discovered') /\ discovered'[n].depth = d + 1
      BY <1>8, <1>10
    <3> QED
      BY <1>8, <3>1, <3>2, <3>3 DEF WorkerRight
  <2>2. ASSUME NEW v \in Workers, v # w
        PROVE  WorkerRight(sys, discovered', queues', flag, worker'[v])
    <3>1. WorkerRight(sys, discovered, queues, flag, worker[v])
      BY BreadthIs
    <3>2. WorkerRight(sys, discovered', queues, flag, worker[v])
      BY <1>10, <3>1, RightGrows
    <3> QED
      BY <1>2, <1>8, <2>2, <3>2
  <2> QED
    BY <2>1, <2>2
<1>14. LevelRight(sys, discovered', queues', worker', flag, d, q)
  <2>1. d \in Nat
    BY <1>4
  <2>2. e.to = n /\ n \in Known(discovered')
    BY <1>10 DEF n
  <2>3. worker'[w].pc \in {"expand", "check"}
    BY <1>7, <1>8
  <2>4. n \notin Known(discovered) => worker'[w].pc = "check" /\ discovered'[n].depth = d + 1
    BY <1>8, <1>10, <1>11
  <2>5. Took(worker, worker', w, e)
    BY <1>1, <1>8, <2>2, <2>3 DEF Took
  <2>6. /\ Known(discovered') = Known(discovered) \cup {e.to}
        /\ e.to \notin Known(discovered) => worker'[w].pc = "check" /\ discovered'[e.to].depth = d + 1
    BY <1>10, <2>2, <2>4
  <2> HIDE DEF d, q
  <2>7. LevelRight(sys, discovered', queues, worker', flag, d, q)
    BY <1>4, <1>10, <2>1, <2>5, <2>6, LevelSteps
  <2> QED
    BY <1>2, <2>7
<1>15. ResultRight(sys, discovered, result')
  BY <1>2, BreadthIs DEF BreadthInv
<1>16. Interrupted(worker, flag) => Interrupted(worker', flag)
  BY <1>1, <1>8 DEF Interrupted
<1>17. UNCHANGED <<sys, flag, main, outcome>> /\ Known(discovered) \subseteq Known(discovered')
  BY <1>2, <1>10
<1>18. worker'[w].depth = worker[w].depth /\ worker'[w].queue = worker[w].queue
  BY <1>8
<1> QED
  BY <1>2, <1>3, <1>8, <1>9, <1>10, <1>12, <1>13, <1>14, <1>15, <1>16, <1>17, <1>18, LevelKeeps

LEMMA FoundBadKeeps ==
  ASSUME SearchInv, ~sys.random, NEW w \in Workers, Check(w),
         worker[w].next \in sys.bad \cup sys.goal
  PROVE  SearchInv'
<1> DEFINE n == worker[w].next
           d == worker[w].depth
<1>1. PICK res \in {InvariantViolation(n), GoalFound(n)} :
      /\ UNCHANGED <<sys, discovered, queues, flag, waiting, main, outcome>>
      /\ worker[w].pc = "check" /\ MovedTo(worker, w, "leave", worker')
      /\ result' = IF result = None THEN res ELSE result
  BY DEF Check, At, SearchFinish, Goto, Becomes, MovedTo
<1>2. Works(worker[w])
  BY <1>1 DEF Works, Working
<1>3. /\ Clean(sys, discovered, d) /\ d \in 0..MaxDepth - 1 /\ MaxDepth \in Nat
      /\ FoundRight(sys, discovered)
  BY <1>2, LevelIs DEF LevelRight
<1>4. n \in Known(discovered) /\ discovered[n].depth = d + 1
  BY <1>1, BreadthIs DEF WorkerRight
<1>5. ResultRight(sys, discovered, res)
  <2>1. discovered[n].depth >= 1 /\ discovered[n].depth - 1 = d
    BY <1>3, <1>4
  <2> QED
    BY <1>1, <1>3, <1>4, <2>1 DEF ResultRight
<1>6. ResultRight(sys, discovered, result)
  BY BreadthIs DEF BreadthInv
<1>7. ResultRight(sys, discovered, result')
  BY <1>1, <1>5, <1>6
<1>8. worker[w].next \notin Open(sys)
  <2>1. n # Initial
    BY <1>3, <1>4 DEF FoundRight
  <2> QED
    BY <2>1 DEF Open
<1> QED
  BY <1>1, <1>7, <1>8, LeaveKeeps

(* A new state is queued for the next level, or is not to be expanded. *)
Checked(y, qs, qs2, wk, wk2, w, n, d, q) ==
    /\ wk[w].pc = "check" /\ wk[w].next = n /\ n \notin y.bad /\ n \notin y.goal
    /\ \/ /\ Elements(qs2[3 - q]) = Elements(qs[3 - q]) \cup {n}
          /\ n \notin y.prune /\ d + 1 # MaxDepth
       \/ /\ Elements(qs2[3 - q]) = Elements(qs[3 - q])
          /\ n \in y.prune \/ d + 1 = MaxDepth
    /\ qs2[q] = qs[q]
    /\ \A v \in Workers : v # w => wk2[v] = wk[v]
    /\ wk2[w].pc = "expand" /\ wk2[w].state = wk[w].state /\ wk2[w].events = wk[w].events

LEMMA LevelPushes ==
  ASSUME NEW w \in Workers, NEW y, NEW disc, NEW qs, NEW qs2, NEW wk, NEW wk2, NEW fl,
         NEW d \in 0..MaxDepth - 1, NEW q \in 1..2, LevelRight(y, disc, qs, wk, fl, d, q),
         FoundRight(y, disc), NEW n \in Known(disc), disc[n].depth = d + 1,
         Checked(y, qs, qs2, wk, wk2, w, n, d, q)
  PROVE  LevelRight(y, disc, qs2, wk2, fl, d, q)
<1> USE DEF Checked
<1>1. \A m : Checking(wk, m) => Checking(wk2, m) \/ m = n
  BY DEF Checking
<1>2. \A m, f : Expanding(wk, m, f) => Expanding(wk2, m, f)
  BY DEF Expanding
<1>3. Interrupted(wk, fl) => Interrupted(wk2, fl)
  BY DEF Interrupted
<1>4. n # Initial
  BY DepthAssumption DEF FoundRight
<1>5. n \in Nodes
  BY DEF Known
<1>6. n \in Open(y) <=> n \notin y.prune
  BY <1>4, <1>5 DEF Open
<1>7. Queued(y, disc, qs2[q], d) /\ Queued(y, disc, qs2[3 - q], d + 1)
  <2>1. Queued(y, disc, qs[q], d) /\ Queued(y, disc, qs[3 - q], d + 1)
    BY DEF LevelRight
  <2> QED
    BY <1>6, <2>1 DEF Queued
<1>8. Remaining(y, disc, qs2, wk2, fl, d, q)
  <2>1. Remaining(y, disc, qs, wk, fl, d, q)
    BY DEF LevelRight
  <2> QED
    BY <1>2, <1>3, <2>1 DEF Remaining
<1>9. Coming(y, disc, qs2, wk2, d, q)
  <2>1. Coming(y, disc, qs, wk, d, q)
    BY DEF LevelRight
  <2> QED
    BY <1>1, <1>6, <2>1 DEF Coming
<1>10. Reporting(y, disc, wk2, fl, d)
  <2>1. Reporting(y, disc, wk, fl, d)
    BY DEF LevelRight
  <2> QED
    BY <1>1, <1>3, <2>1 DEF Reporting
<1> QED
  BY <1>7, <1>8, <1>9, <1>10 DEF LevelRight

LEMMA PushKeeps ==
  ASSUME SearchInv, ~sys.random, NEW w \in Workers, Check(w),
         worker[w].next \notin sys.bad, worker[w].next \notin sys.goal
  PROVE  SearchInv'
<1> DEFINE d == worker[w].depth
           q == worker[w].queue
           n == worker[w].next
<1>1. /\ UNCHANGED <<sys, discovered, result, flag, waiting, main, outcome>>
      /\ worker[w].pc = "check" /\ MovedTo(worker, w, "expand", worker')
      /\ queues' = IF Pushes(w, n) THEN [queues EXCEPT ![3 - q] = Append(queues[3 - q], n)]
                   ELSE queues
  BY DEF Check, At, Goto, Becomes, MovedTo, PushingQueue
<1>2. /\ sys' = sys /\ discovered' = discovered /\ result' = result /\ flag' = flag /\ main' = main
      /\ outcome' = outcome /\ waiting' = waiting
  BY <1>1
<1>3. Works(worker[w]) /\ worker[w].pc # "wait"
  BY <1>1 DEF Works, Working
<1>4. /\ LevelRight(sys, discovered, queues, worker, flag, d, q)
      /\ d \in 0..MaxDepth - 1 /\ MaxDepth \in Nat /\ q \in 1..2 /\ 3 - q \in 1..2 /\ 3 - q # q
      /\ sys \in Systems /\ queues \in [1..2 -> Seq(Nodes)] /\ worker \in [Workers -> WorkerType]
      /\ discovered \in [Nodes -> {None} \cup InfoType] /\ FoundRight(sys, discovered)
      /\ \A v \in Workers : Works(worker[v]) => worker[v].queue = q
  BY <1>3, LevelIs
<1>5. n \in Known(discovered) /\ discovered[n].depth = d + 1 /\ n \in Nodes
  BY <1>1, BreadthIs DEF WorkerRight, Known
<1>6. "expand" \in Working \cup Gate \cup Roaming /\ "expand" \in Working
  BY DEF Working
<1>7. /\ worker' \in [Workers -> WorkerType]
      /\ \A v \in Workers : v # w => worker'[v] = worker[v]
      /\ worker'[w].pc = "expand" /\ worker'[w].queue = q /\ worker'[w].depth = d
      /\ worker'[w].state = worker[w].state /\ worker'[w].events = worker[w].events
  BY <1>1, <1>4, <1>6, GotoIs
<1>8. Works(worker'[w]) /\ worker'[w].pc # "wait"
  BY <1>6, <1>7 DEF Works
<1>9. /\ queues' \in [1..2 -> Seq(Nodes)] /\ queues'[q] = queues[q]
      /\ \/ /\ Elements(queues'[3 - q]) = Elements(queues[3 - q]) \cup {n}
            /\ n \notin sys.prune /\ d + 1 # MaxDepth
         \/ /\ Elements(queues'[3 - q]) = Elements(queues[3 - q])
            /\ n \in sys.prune \/ d + 1 = MaxDepth
  <2>1. queues[3 - q] \in Seq(Nodes)
    BY <1>4
  <2>2. /\ Append(queues[3 - q], n) \in Seq(Nodes)
        /\ Elements(Append(queues[3 - q], n)) = Elements(queues[3 - q]) \cup {n}
    BY <1>5, <2>1, Appended
  <2>3. CASE Pushes(w, n)
    <3>1. n \notin sys.prune /\ d + 1 # MaxDepth
      BY <2>3 DEF Pushes
    <3>2. queues' = [queues EXCEPT ![3 - q] = Append(queues[3 - q], n)]
      BY <1>1, <2>3
    <3> HIDE DEF n
    <3>3. /\ queues' \in [1..2 -> Seq(Nodes)] /\ queues'[q] = queues[q]
          /\ queues'[3 - q] = Append(queues[3 - q], n)
      BY <1>4, <2>2, <3>2
    <3> QED
      BY <2>2, <3>1, <3>3
  <2>4. CASE ~Pushes(w, n)
    <3>1. n \in sys.prune \/ d + 1 = MaxDepth
      BY <2>4 DEF Pushes
    <3>2. queues' = queues
      BY <1>1, <2>4
    <3> QED
      BY <1>4, <3>1, <3>2
  <2> QED
    BY <2>3, <2>4
<1>10. SearchShape'
  <2>1. SearchShape
    BY BreadthIs
  <2>2. discovered' \in [Nodes -> {None} \cup InfoType] /\ UNCHANGED <<sys, flag, waiting, main>>
    BY <1>2, <1>4
  <2> QED
    BY <1>3, <1>7, <1>8, <1>9, <2>1, <2>2, ShapeKeeps
<1>11. \A v \in Workers : WorkerRight(sys, discovered, queues', flag, worker'[v])
  <2>1. WorkerRight(sys, discovered, queues', flag, worker'[w])
    <3>1. WorkerRight(sys, discovered, queues, flag, worker[w])
      BY BreadthIs
    <3> QED
      BY <1>1, <1>7, <3>1 DEF WorkerRight, Working
  <2>2. ASSUME NEW v \in Workers, v # w
        PROVE  WorkerRight(sys, discovered, queues', flag, worker'[v])
    <3>1. WorkerRight(sys, discovered, queues, flag, worker[v])
      BY BreadthIs
    <3>2. worker[v].pc \in {"arrive", "wait"} => worker[v].queue = q
      BY <1>4 DEF Works, Working
    <3>3. worker[v].pc \in {"arrive", "wait"} => flag \/ queues'[worker[v].queue] = <<>>
      BY <1>9, <3>1, <3>2 DEF WorkerRight
    <3> QED
      BY <1>7, <2>2, <3>1, <3>3 DEF WorkerRight
  <2> QED
    BY <2>1, <2>2
<1>12. LevelRight(sys, discovered, queues', worker', flag, d, q)
  <2>1. Checked(sys, queues, queues', worker, worker', w, n, d, q)
    BY <1>1, <1>7, <1>9 DEF Checked
  <2> HIDE DEF d, q, n
  <2>2. LevelRight(sys, discovered, queues', worker', flag, d, q)
    BY <1>4, <1>5, <2>1, LevelPushes
  <2> QED
    BY <1>2, <2>2
<1>13. ResultRight(sys, discovered, result')
  BY <1>2, BreadthIs DEF BreadthInv
<1>14. Interrupted(worker, flag) => Interrupted(worker', flag)
  BY <1>1, <1>7 DEF Interrupted
<1>15. UNCHANGED <<sys, flag, main, outcome>>
  BY <1>2
<1>16. worker'[w].depth = worker[w].depth /\ worker'[w].queue = worker[w].queue
  BY <1>7
<1>17. /\ FoundRight(sys, discovered')
       /\ \A v \in Workers : WorkerRight(sys, discovered', queues', flag, worker'[v])
       /\ LevelRight(sys, discovered', queues', worker', flag, worker[w].depth, worker[w].queue)
  BY <1>2, <1>4, <1>11, <1>12
<1>18. Known(discovered) \subseteq Known(discovered') /\ \A k \in Known(discovered) : discovered'[k] = discovered[k]
  BY <1>2
<1> QED
  BY <1>2, <1>3, <1>7, <1>8, <1>10, <1>13, <1>14, <1>15, <1>16, <1>17, <1>18, LevelKeeps

(* A step of a worker of a breadth-first search. *)
LEMMA WorkKeeps ==
  ASSUME SearchInv, ~sys.random, NEW w \in Workers, Work(w)
  PROVE  SearchInv'
<1>1. worker[w].pc \in Working \cup Gate
  BY BreadthIs
<1>2. worker[w].pc \notin {"probe", "walk", "done"}
  BY <1>1 DEF Working, Gate
<1>3. CASE RaiseFlag(w)
  <2>1. At(w, "leave") \/ At(w, "quit")
    BY <1>2, <1>3 DEF RaiseFlag, At
  <2> QED
    BY <1>3, <2>1, RaiseFlagLeaving, RaiseFlagQuitting
<1>4. CASE Check(w)
  BY <1>4, FoundBadKeeps, PushKeeps
<1>5. CASE \E e \in worker[w].events : Step(w, e)
  BY <1>5, FailKeeps, StepKeeps
<1>6. CASE Arrive(w)
  BY <1>6, ArriveWaiting, ReleaseKeeps
<1>7. ~Probe(w) /\ ~Walk(w)
  <2>1. Probe(w) => At(w, "probe")
    BY DEF Probe
  <2>2. Walk(w) => At(w, "walk")
    BY DEF Walk
  <2> QED
    BY <1>2, <2>1, <2>2 DEF At
<1>8. CASE Pop(w)
  BY <1>8, PopKeeps
<1>9. CASE EndState(w)
  BY <1>9, EndStateKeeps
<1>10. CASE CheckFlag(w)
  BY <1>10, CheckFlagKeeps
<1>11. CASE CheckEmpty(w)
  BY <1>11, CheckEmptyKeeps
<1>12. CASE Swap(w)
  BY <1>12, SwapKeeps
<1> QED
  BY <1>3, <1>4, <1>5, <1>6, <1>7, <1>8, <1>9, <1>10, <1>11, <1>12 DEF Work

-----------------------------------------------------------------------------
(* Random search *)

LEMMA WayIs ==
  ASSUME NEW t \in Seq(Nodes)
  PROVE  /\ Len(Way(t)) = Len(t) + 1 /\ Way(t)[1] = Initial
         /\ \A i \in 1..Len(t) : Way(t)[i + 1] = t[i]
         /\ \A i \in 1..Len(t) + 1 : Way(t)[i] \in Nodes
<1>1. Initial \in Nodes
  BY SystemsAssumption
<1>2. <<Initial>> \in Seq(Nodes) /\ Len(<<Initial>>) = 1 /\ <<Initial>>[1] = Initial
  BY <1>1
<1> DEFINE one == <<Initial>>
<1> HIDE DEF one
<1>3. one \in Seq(Nodes) /\ Len(one) = 1 /\ one[1] = Initial
  BY <1>2 DEF one
<1>4. /\ one \o t \in Seq(Nodes) /\ Len(one \o t) = Len(t) + 1 /\ (one \o t)[1] = Initial
      /\ \A i \in 1..Len(t) : (one \o t)[i + 1] = t[i]
  <2>1. /\ one \o t \in Seq(Nodes) /\ Len(one \o t) = Len(one) + Len(t)
        /\ \A i \in 1..Len(one) + Len(t) :
              (one \o t)[i] = IF i <= Len(one) THEN one[i] ELSE t[i - Len(one)]
    BY <1>3, ConcatProperties
  <2>2. Len(t) \in Nat
    OBVIOUS
  <2>3. 1 \in 1..1 + Len(t) /\ \A i \in 1..Len(t) : i + 1 \in 1..1 + Len(t) /\ (i + 1) - 1 = i /\ ~(i + 1 <= 1)
    BY <2>2
  <2> QED
    BY <1>3, <2>1, <2>2, <2>3
<1>5. Way(t) = one \o t
  BY DEF Way, one
<1>6. \A i \in 1..Len(t) + 1 : Way(t)[i] \in Nodes
  BY <1>4, <1>5
<1> QED
  BY <1>4, <1>5, <1>6

LEMMA WayGrows ==
  ASSUME NEW y \in Systems, NEW t \in Seq(Nodes), WayRight(y, t), NEW n \in Nodes,
         Way(t)[Len(t) + 1] \in Open(y), n \in y.succ[Way(t)[Len(t) + 1]]
  PROVE  /\ Append(t, n) \in Seq(Nodes) /\ Len(Append(t, n)) = Len(t) + 1
         /\ WayRight(y, Append(t, n)) /\ Way(Append(t, n))[Len(Append(t, n)) + 1] = n
<1> DEFINE u == Append(t, n)
<1>1. /\ u \in Seq(Nodes) /\ Len(u) = Len(t) + 1 /\ u[Len(t) + 1] = n /\ Len(t) \in Nat
      /\ \A i \in 1..Len(t) : u[i] = t[i]
  OBVIOUS
<1> HIDE DEF u
<1>2. /\ Way(u)[1] = Initial /\ \A i \in 1..Len(t) + 1 : Way(u)[i + 1] = u[i]
  BY <1>1, WayIs
<1>3. /\ Way(t)[1] = Initial /\ \A i \in 1..Len(t) : Way(t)[i + 1] = t[i]
  BY WayIs
<1>4. \A i \in 1..Len(t) + 1 : Way(u)[i] = Way(t)[i]
  <2> SUFFICES ASSUME NEW i \in 1..Len(t) + 1 PROVE Way(u)[i] = Way(t)[i]
    OBVIOUS
  <2>1. CASE i = 1
    BY <2>1, <1>2, <1>3
  <2>2. CASE i # 1
    <3>1. i - 1 \in 1..Len(t) /\ i - 1 \in 1..Len(t) + 1 /\ (i - 1) + 1 = i
      BY <1>1, <2>2
    <3> QED
      BY <1>1, <1>2, <1>3, <3>1
  <2> QED
    BY <2>1, <2>2
<1>5. Way(u)[Len(t) + 2] = n
  <2>1. Len(t) + 1 \in 1..Len(t) + 1 /\ (Len(t) + 1) + 1 = Len(t) + 2
    BY <1>1
  <2> QED
    BY <1>1, <1>2, <2>1
<1>6. ASSUME NEW i \in 1..Len(u) PROVE Way(u)[i] \in Open(y) /\ Way(u)[i + 1] \in y.succ[Way(u)[i]]
  <2>1. CASE i = Len(t) + 1
    <3>1. i + 1 = Len(t) + 2 /\ i \in 1..Len(t) + 1
      BY <1>1, <2>1
    <3> QED
      BY <1>4, <1>5, <2>1, <3>1
  <2>2. CASE i # Len(t) + 1
    <3>1. i \in 1..Len(t) /\ i \in 1..Len(t) + 1 /\ i + 1 \in 1..Len(t) + 1
      BY <1>1, <2>2
    <3>2. Way(t)[i] \in Open(y) /\ Way(t)[i + 1] \in y.succ[Way(t)[i]]
      BY <3>1 DEF WayRight
    <3> QED
      BY <1>4, <3>1, <3>2
  <2> QED
    BY <2>1, <2>2
<1>7. WayRight(y, u)
  BY <1>6 DEF WayRight
<1>8. Len(u) + 1 = Len(t) + 2
  BY <1>1
<1> QED
  BY <1>1, <1>5, <1>7, <1>8 DEF u

LEMMA RandomIs ==
  ASSUME SearchInv, sys.random
  PROVE  /\ SearchShape /\ RandomInv /\ sys \in Systems /\ worker \in [Workers -> WorkerType]
         /\ \A w \in Workers : /\ worker[w] \in WorkerType /\ WalkerRight(sys, worker[w])
                               /\ worker[w].pc \in Roaming /\ worker[w].pc # "wait"
                               /\ worker[w].pc \notin {"leave", "quit", "pop", "expand", "check",
                                                       "arrive", "flag", "empty", "sleep"}
<1>1. SearchShape /\ RandomInv
  BY DEF SearchInv
<1>2. \A w \in Workers : worker[w] \in WorkerType /\ WalkerRight(sys, worker[w])
  BY <1>1 DEF SearchShape, RandomInv
<1>3. \A w \in Workers : worker[w].pc \in Roaming
  BY <1>2 DEF WalkerRight
<1> QED
  BY <1>1, <1>2, <1>3 DEF Roaming, SearchShape

LEMMA WalkerKeeps ==
  ASSUME SearchInv, sys.random, NEW w \in Workers,
         UNCHANGED <<sys, discovered, queues, waiting, main, outcome>>, flag' \in BOOLEAN,
         worker' \in [Workers -> WorkerType], \A v \in Workers : v # w => worker'[v] = worker[v],
         WalkerRight(sys, worker'[w]), WalkedRight(sys, result')
  PROVE  SearchInv'
<1>1. SearchShape /\ RandomInv
  BY RandomIs
<1>2. worker'[w].pc # "wait" /\ worker[w].pc # "wait"
  BY RandomIs DEF WalkerRight, Roaming
<1>3. waiting = {v \in Workers : worker[v].pc = "wait"}
  BY <1>1 DEF SearchShape, At
<1>4. waiting' = {v \in Workers : worker'[v].pc = "wait"}
  BY <1>2, <1>3
<1>5. (waiting = {v \in Workers : At(v, "wait")})'
  BY <1>4 DEF At
<1>6. SearchShape'
  BY <1>1, <1>5 DEF SearchShape
<1>7. \A v \in Workers : WalkerRight(sys, worker'[v])
  BY <1>1 DEF RandomInv
<1>8. RandomInv'
  BY <1>1, <1>7 DEF RandomInv
<1> QED
  BY <1>6, <1>8 DEF SearchInv

LEMMA DoneKeeps ==
  ASSUME SearchInv, sys.random, NEW w \in Workers, RaiseFlag(w)
  PROVE  SearchInv'
<1>1. worker[w].pc # "leave" /\ worker[w].pc # "quit"
  BY RandomIs
<1>2. /\ UNCHANGED <<sys, discovered, queues, result, waiting, main, outcome>> /\ flag' = TRUE
      /\ MovedTo(worker, w, "probe", worker')
  BY <1>1 DEF RaiseFlag, Goto, Becomes, At, MovedTo
<1>3. "probe" \in Working \cup Gate \cup Roaming /\ "probe" \in Roaming
  BY DEF Roaming
<1>4. /\ worker' \in [Workers -> WorkerType] /\ worker'[w].pc = "probe"
      /\ \A v \in Workers : v # w => worker'[v] = worker[v]
  BY <1>2, <1>3, RandomIs, GotoIs
<1>5. WalkerRight(sys, worker'[w])
  BY <1>3, <1>4 DEF WalkerRight
<1>6. WalkedRight(sys, result')
  BY <1>2, RandomIs DEF RandomInv
<1> QED
  BY <1>2, <1>4, <1>5, <1>6, WalkerKeeps

LEMMA ProbeKeeps ==
  ASSUME SearchInv, sys.random, NEW w \in Workers, Probe(w)
  PROVE  SearchInv'
<1>1. /\ UNCHANGED <<sys, discovered, queues, result, waiting, main, outcome>> /\ flag' = flag
      /\ IF flag THEN MovedTo(worker, w, "exit", worker')
         ELSE worker' = [worker EXCEPT ![w] =
                 [worker[w] EXCEPT !.pc = "walk", !.state = Initial, !.depth = 0, !.trace = <<>>]]
  BY DEF Probe, Goto, Becomes, MovedTo
<1>2. /\ sys \in Systems /\ worker \in [Workers -> WorkerType] /\ worker[w] \in WorkerType
      /\ SearchShape /\ WalkedRight(sys, result)
  BY RandomIs DEF RandomInv
<1>3. /\ worker' \in [Workers -> WorkerType] /\ \A v \in Workers : v # w => worker'[v] = worker[v]
      /\ WalkerRight(sys, worker'[w])
  <2>1. CASE flag
    <3>1. "exit" \in Working \cup Gate \cup Roaming /\ "exit" \in Roaming /\ "exit" # "walk"
      BY DEF Roaming
    <3>2. /\ worker' \in [Workers -> WorkerType] /\ worker'[w].pc = "exit"
          /\ \A v \in Workers : v # w => worker'[v] = worker[v]
      BY <1>1, <1>2, <2>1, <3>1, GotoIs
    <3> QED
      BY <3>1, <3>2 DEF WalkerRight
  <2>2. CASE ~flag
    <3> DEFINE r == [worker[w] EXCEPT !.pc = "walk", !.state = Initial, !.depth = 0, !.trace = <<>>]
    <3>1. worker' = [worker EXCEPT ![w] = r]
      BY <1>1, <2>2
    <3>2. Initial \in Nodes /\ 0 \in 0..MaxDepth - 1 /\ <<>> \in Seq(Nodes)
      BY SystemsAssumption, DepthAssumption
    <3>3. /\ r \in WorkerType /\ r.pc = "walk" /\ r.state = Initial /\ r.depth = 0 /\ r.trace = <<>>
      BY <1>2, <3>2 DEF WorkerType, Roaming
    <3> HIDE DEF r
    <3>4. /\ worker' \in [Workers -> WorkerType] /\ worker'[w] = r
          /\ \A v \in Workers : v # w => worker'[v] = worker[v]
      BY <1>2, <3>1, <3>3
    <3>5. WalkerRight(sys, r)
      <4>1. Len(r.trace) = 0 /\ Way(r.trace)[1] = Initial
        BY <3>2, <3>3, WayIs
      <4>2. WayRight(sys, r.trace)
        BY <4>1 DEF WayRight
      <4>3. Initial \in Open(sys)
        BY <1>2, SystemIs
      <4> QED
        BY <3>3, <4>1, <4>2, <4>3 DEF WalkerRight, Roaming
    <3> QED
      BY <3>4, <3>5
  <2> QED
    BY <2>1, <2>2
<1>4. flag' \in BOOLEAN /\ WalkedRight(sys, result')
  BY <1>1, <1>2 DEF SearchShape
<1> QED
  BY <1>1, <1>3, <1>4, WalkerKeeps

LEMMA FollowKeeps ==
  ASSUME SearchInv, sys.random, NEW w \in Workers, worker[w].pc = "walk",
         NEW e \in Events(worker[w].state), Follow(w, e),
         UNCHANGED <<sys, discovered, queues, flag, waiting, main, outcome>>
  PROVE  SearchInv'
<1> DEFINE s == worker[w].state
           d == worker[w].depth
           t == worker[w].trace
           n == e.to
           kind == Verdict(e)
           goesOn == kind = None /\ ~WalkEnds(w, n)
           pc == IF kind # None THEN "done" ELSE IF goesOn THEN "walk" ELSE "probe"
           depth == IF goesOn THEN d + 1 ELSE d
           trace == IF e.fails THEN t ELSE Append(t, n)
           r == [worker[w] EXCEPT !.pc = pc, !.state = n, !.depth = depth, !.trace = trace]
<1>1. /\ sys \in Systems /\ worker \in [Workers -> WorkerType] /\ worker[w] \in WorkerType
      /\ SearchShape /\ WalkedRight(sys, result) /\ WalkerRight(sys, worker[w])
  BY RandomIs DEF RandomInv
<1>2. /\ s \in Nodes \cup {None} /\ d \in 0..MaxDepth - 1 /\ t \in Seq(Nodes) /\ MaxDepth \in Nat
  BY <1>1, DepthAssumption DEF WorkerType
<1>3. /\ WayRight(sys, t) /\ Len(t) = d /\ s = Way(t)[Len(t) + 1] /\ s \in Open(sys)
  BY <1>1 DEF WalkerRight
<1>4. s \in Nodes
  BY <1>1, <1>3, SystemIs
<1>5. \/ ~e.fails /\ n \in sys.succ[s] /\ n \in Nodes
      \/ e.fails /\ n = None /\ s \in sys.fails
  <2>1. e \in Moves(sys, s) /\ sys.succ[s] \in SUBSET Nodes
    BY <1>1, <1>4, EventsAre, SystemIs
  <2>2. CASE \E m \in sys.succ[s] : e = [fails |-> FALSE, to |-> m]
    BY <2>1, <2>2
  <2>3. CASE s \in sys.fails /\ e = [fails |-> TRUE, to |-> None]
    BY <2>3
  <2> QED
    BY <2>1, <2>2, <2>3 DEF Moves
<1>6. /\ e.fails => kind = "Error"
      /\ ~e.fails => \/ kind = "InvariantViolation" /\ n \in sys.bad
                     \/ kind = "GoalFound" /\ n \in sys.goal \ sys.bad
                     \/ kind = None /\ n \notin sys.bad /\ n \notin sys.goal
  BY DEF Verdict
<1>7. None # "Error" /\ None # "InvariantViolation" /\ None # "GoalFound"
  BY NoneAssumption
<1>8. goesOn => kind = None /\ n \notin sys.prune /\ d + 1 # MaxDepth
  BY DEF WalkEnds
<1>9. /\ worker' = [worker EXCEPT ![w] = r]
      /\ result' = IF result = None /\ kind # None
                   THEN [kind |-> kind, state |-> n, trace |-> worker'[w].trace] ELSE result
  BY DEF Follow, Becomes, Walked
<1>10. pc \in {"done", "walk", "probe"} /\ (pc = "walk" => goesOn)
  OBVIOUS
<1>11. depth \in 0..MaxDepth - 1 /\ (goesOn => depth = d + 1)
  <2> HIDE DEF goesOn
  <2> QED
    BY <1>2, <1>8
<1>12. /\ e.fails => trace = t
       /\ ~e.fails => trace = Append(t, n)
  OBVIOUS
<1>13. ~e.fails => /\ trace \in Seq(Nodes) /\ Len(trace) = d + 1 /\ WayRight(sys, trace)
                   /\ Way(trace)[Len(trace) + 1] = n
  <2> HIDE DEF trace, n, t, s
  <2> SUFFICES ASSUME ~e.fails
               PROVE  /\ trace \in Seq(Nodes) /\ Len(trace) = d + 1 /\ WayRight(sys, trace)
                      /\ Way(trace)[Len(trace) + 1] = n
    OBVIOUS
  <2>1. /\ n \in sys.succ[Way(t)[Len(t) + 1]] /\ n \in Nodes /\ Way(t)[Len(t) + 1] \in Open(sys)
    BY <1>3, <1>5
  <2>2. /\ Append(t, n) \in Seq(Nodes) /\ Len(Append(t, n)) = Len(t) + 1
        /\ WayRight(sys, Append(t, n)) /\ Way(Append(t, n))[Len(Append(t, n)) + 1] = n
    BY <1>1, <1>2, <1>3, <2>1, WayGrows
  <2> QED
    BY <1>3, <1>12, <2>2
<1>14. trace \in Seq(Nodes) /\ n \in Nodes \cup {None}
  <2> HIDE DEF trace, n
  <2> QED
    BY <1>2, <1>5, <1>12, <1>13
<1> HIDE DEF pc, depth, trace, n, kind, goesOn
<1>15. r \in WorkerType /\ r.pc = pc /\ r.state = n /\ r.depth = depth /\ r.trace = trace
  BY <1>1, <1>10, <1>11, <1>14 DEF WorkerType, Roaming
<1> HIDE DEF r
<1>16. /\ worker' \in [Workers -> WorkerType] /\ worker'[w] = r
       /\ \A v \in Workers : v # w => worker'[v] = worker[v]
  BY <1>1, <1>9, <1>15
<1>17. WalkerRight(sys, r)
  <2>1. r.pc \in Roaming
    BY <1>10, <1>15 DEF Roaming
  <2>2. ASSUME r.pc = "walk"
        PROVE  /\ WayRight(sys, r.trace) /\ Len(r.trace) = r.depth
               /\ r.state = Way(r.trace)[Len(r.trace) + 1] /\ r.state \in Open(sys)
    <3>1. goesOn
      BY <1>10, <1>15, <2>2
    <3>2. ~e.fails /\ n \notin sys.bad /\ n \notin sys.goal /\ n \notin sys.prune
      BY <1>6, <1>7, <1>8, <3>1
    <3>3. n \in Open(sys)
      BY <1>5, <3>2 DEF Open
    <3> QED
      BY <1>11, <1>13, <1>15, <3>1, <3>2, <3>3
  <2> QED
    BY <2>1, <2>2 DEF WalkerRight
<1>18. WalkedRight(sys, result')
  <2>1. CASE result = None /\ kind # None
    <3> DEFINE res == [kind |-> kind, state |-> n, trace |-> trace]
    <3>1. result' = res
      BY <1>9, <1>15, <1>16, <2>1
    <3>2. res.kind = kind /\ res.trace = trace
      OBVIOUS
    <3> HIDE DEF res
    <3>3. CASE e.fails
      <4>1. /\ trace = t /\ kind = "Error" /\ s \in sys.fails /\ Len(t) < MaxDepth /\ Len(t) <= MaxDepth
        BY <1>2, <1>3, <1>5, <1>6, <1>12, <3>3
      <4> QED
        BY <1>2, <1>3, <3>1, <3>2, <4>1 DEF WalkedRight
    <3>4. CASE ~e.fails
      <4>1. /\ trace \in Seq(Nodes) /\ WayRight(sys, trace) /\ Len(trace) <= MaxDepth
            /\ Way(trace)[Len(trace) + 1] = n
        BY <1>2, <1>13, <3>4
      <4>2. \/ kind = "InvariantViolation" /\ n \in sys.bad
            \/ kind = "GoalFound" /\ n \in sys.goal \ sys.bad
        BY <1>6, <2>1, <3>4
      <4> QED
        BY <3>1, <3>2, <4>1, <4>2 DEF WalkedRight
    <3> QED
      BY <3>3, <3>4
  <2>2. CASE ~(result = None /\ kind # None)
    BY <1>1, <1>9, <2>2
  <2> QED
    BY <2>1, <2>2
<1>19. flag' \in BOOLEAN /\ UNCHANGED <<sys, discovered, queues, waiting, main, outcome>>
  BY <1>1 DEF SearchShape
<1>20. WalkerRight(sys, worker'[w])
  BY <1>16, <1>17
<1> QED
  BY <1>16, <1>18, <1>19, <1>20, WalkerKeeps

LEMMA RandomKeeps ==
  ASSUME SearchInv, sys.random, SearchNext
  PROVE  SearchInv'
<1>1. ASSUME NEW w \in Workers, Work(w) PROVE SearchInv'
  <2>1. worker[w].pc \notin {"leave", "quit", "pop", "expand", "check", "arrive", "flag", "empty", "sleep"}
    BY RandomIs
  <2>2. ~At(w, "pop") /\ ~At(w, "expand") /\ ~At(w, "check") /\ ~At(w, "arrive") /\ ~At(w, "flag")
        /\ ~At(w, "empty") /\ ~At(w, "sleep")
    BY <2>1 DEF At
  <2>3. ~Pop(w) /\ ~Check(w)
    BY <2>2, Zenon DEF Pop, Check
  <2>4. ~EndState(w) /\ ~Arrive(w)
    BY <2>2, Zenon DEF EndState, Arrive
  <2>5. ~CheckFlag(w) /\ ~CheckEmpty(w) /\ ~Swap(w)
    BY <2>2, Zenon DEF CheckFlag, CheckEmpty, Swap
  <2>6. \A e \in worker[w].events : ~Step(w, e)
    BY <2>2, Zenon DEF Step
  <2>7. RaiseFlag(w) \/ Probe(w) \/ Walk(w)
    BY <1>1, <2>3, <2>4, <2>5, <2>6 DEF Work
  <2>8. CASE Walk(w)
    <3>1. /\ worker[w].pc = "walk"
          /\ UNCHANGED <<sys, discovered, queues, flag, waiting, main, outcome>>
      BY <2>8 DEF Walk, At
    <3>2. CASE Goto(w, "probe") /\ UNCHANGED result
      <4>1. MovedTo(worker, w, "probe", worker')
        BY <3>2 DEF Goto, Becomes, MovedTo
      <4>2. "probe" \in Working \cup Gate \cup Roaming /\ "probe" \in Roaming
        BY DEF Roaming
      <4>3. /\ worker' \in [Workers -> WorkerType] /\ worker'[w].pc = "probe"
            /\ \A v \in Workers : v # w => worker'[v] = worker[v]
        BY <4>1, <4>2, RandomIs, GotoIs
      <4>4. WalkerRight(sys, worker'[w])
        BY <4>2, <4>3 DEF WalkerRight
      <4>5. WalkedRight(sys, result') /\ flag' \in BOOLEAN
        BY <3>1, <3>2, RandomIs DEF RandomInv, SearchShape
      <4> QED
        BY <3>1, <4>3, <4>4, <4>5, WalkerKeeps
    <3>3. CASE \E e \in Events(worker[w].state) : Follow(w, e)
      BY <3>1, <3>3, FollowKeeps
    <3> QED
      BY <2>8, <3>2, <3>3 DEF Walk
  <2> QED
    BY <2>7, <2>8, DoneKeeps, ProbeKeeps
<1>2. CASE TakeResult \/ TimeOut \/ Stop \/ Join
  <2>1. /\ UNCHANGED <<sys, discovered, queues, worker, waiting>>
        /\ main' \in {"wait", "stop", "join", "return"} /\ flag' \in {flag, TRUE}
        /\ result' \in {None, result} /\ outcome' \in {result, Timeout, outcome}
    BY <1>2 DEF TakeResult, TimeOut, Stop, Join
  <2>2. SearchShape /\ RandomInv
    BY RandomIs
  <2>3. WalkedRight(sys, None) /\ WalkedRight(sys, Timeout)
    BY DEF WalkedRight
  <2>4. RandomInv'
    BY <2>1, <2>2, <2>3 DEF RandomInv
  <2>5. SearchShape'
    <3>1. \A v \in Workers : At(v, "wait")' <=> At(v, "wait")
      BY <2>1 DEF At
    <3>2. (waiting = {v \in Workers : At(v, "wait")})'
      BY <2>1, <2>2, <3>1 DEF SearchShape, At
    <3> QED
      BY <2>1, <2>2, <3>2 DEF SearchShape
  <2>6. sys' = sys
    BY <2>1
  <2> QED
    BY <2>4, <2>5, <2>6 DEF SearchInv
<1> QED
  BY <1>1, <1>2 DEF SearchNext

LEMMA SearchKeeps ==
  ASSUME SearchInv, [SearchNext]_searchVars
  PROVE  SearchInv'
<1>1. CASE SearchNext
  <2>1. CASE sys.random
    BY <1>1, <2>1, RandomKeeps
  <2>2. CASE ~sys.random
    BY <1>1, <2>2, WorkKeeps, TakeResultKeeps, TimeOutKeeps, StopKeeps, JoinKeeps DEF SearchNext
  <2> QED
    BY <2>1, <2>2
<1>2. CASE UNCHANGED searchVars
  <2>1. /\ sys' = sys /\ discovered' = discovered /\ queues' = queues /\ result' = result
        /\ flag' = flag /\ worker' = worker /\ waiting' = waiting /\ main' = main /\ outcome' = outcome
    BY <1>2 DEF searchVars
  <2>2. SearchShape'
    <3>1. SearchShape
      BY DEF SearchInv
    <3>2. (waiting = {v \in Workers : At(v, "wait")})'
      BY <2>1, <3>1 DEF SearchShape, At
    <3> QED
      BY <2>1, <3>1, <3>2 DEF SearchShape
  <2>3. CASE sys.random
    <3>1. RandomInv
      BY <2>3 DEF SearchInv
    <3>2. RandomInv'
      BY <2>1, <3>1 DEF RandomInv
    <3> QED
      BY <2>1, <2>2, <2>3, <3>2 DEF SearchInv
  <2>4. CASE ~sys.random
    <3>1. BreadthInv
      BY <2>4 DEF SearchInv
    <3>2. FinishRight'
      BY <2>1, <3>1 DEF BreadthInv, FinishRight
    <3>3. BreadthInv'
      BY <2>1, <3>1, <3>2 DEF BreadthInv
    <3> QED
      BY <2>1, <2>2, <2>4, <3>3 DEF SearchInv
  <2> QED
    BY <2>3, <2>4
<1> QED
  BY <1>1, <1>2

LEMMA SearchStarts ==
  ASSUME SearchInit
  PROVE  SearchInv
<1> DEFINE pc == IF sys.random THEN "probe" ELSE "pop"
<1>1. /\ sys \in Systems /\ result = None /\ flag = FALSE /\ waiting = {} /\ main = "wait"
      /\ outcome = None /\ queues = <<<<Initial>>, <<>>>>
  BY DEF SearchInit
<1>2. Initial \in Nodes /\ MaxDepth \in Nat /\ MaxDepth # 0 /\ 0 \in 0..MaxDepth - 1 /\ 0 \in 0..MaxDepth
  BY SystemsAssumption, DepthAssumption
<1>3. /\ discovered \in [Nodes -> {None} \cup InfoType] /\ Known(discovered) = {Initial}
      /\ discovered[Initial].depth = 0
  <2> DEFINE info == [prev |-> None, depth |-> 0]
  <2>1. info \in InfoType /\ info.depth = 0
    BY <1>2 DEF InfoType
  <2>2. info # None
    BY <2>1, NoneAssumption DEF InfoType
  <2>3. discovered = [n \in Nodes |-> IF n = Initial THEN info ELSE None]
    BY DEF SearchInit
  <2> HIDE DEF info
  <2>4. Known(discovered) = {Initial}
    BY <1>2, <2>2, <2>3 DEF Known
  <2> QED
    BY <1>2, <2>1, <2>3, <2>4
<1>4. /\ queues \in [1..2 -> Seq(Nodes)] /\ queues[1] = <<Initial>> /\ queues[2] = <<>>
      /\ Elements(queues[1]) = {Initial} /\ Elements(queues[2]) = {}
  <2> DEFINE one == <<Initial>>
             none == <<>>
  <2>1. one \in Seq(Nodes) /\ Elements(one) = {Initial}
    BY <1>2 DEF Elements
  <2>2. none \in Seq(Nodes) /\ Elements(none) = {}
    BY DEF Elements
  <2>3. queues = <<one, none>>
    BY <1>1
  <2> HIDE DEF one, none
  <2>4. queues[1] = one /\ queues[2] = none /\ queues = [i \in 1..2 |-> IF i = 1 THEN one ELSE none]
    BY <2>3
  <2>5. queues \in [1..2 -> Seq(Nodes)]
    BY <2>1, <2>2, <2>4
  <2> QED
    BY <2>1, <2>2, <2>4, <2>5 DEF one, none
<1>5. ASSUME NEW w \in Workers
      PROVE  /\ worker[w] \in WorkerType /\ worker[w].pc = pc /\ worker[w].queue = 1
             /\ worker[w].depth = 0
  <2>1. worker[w] = InitWorker
    BY DEF SearchInit
  <2>2. pc \in Working \cup Gate \cup Roaming
    BY DEF Working, Roaming
  <2>3. InitWorker = [pc |-> pc, queue |-> 1, depth |-> 0, state |-> None, events |-> {},
                      next |-> None, trace |-> <<>>]
    BY DEF InitWorker
  <2>4. <<>> \in Seq(Nodes) /\ 1 \in 1..2
    OBVIOUS
  <2> HIDE DEF pc
  <2> QED
    BY <1>2, <2>1, <2>2, <2>3, <2>4 DEF WorkerType
<1>6. worker \in [Workers -> WorkerType]
  <2>1. worker = [w \in Workers |-> worker[w]]
    BY DEF SearchInit
  <2> QED
    BY <1>5, <2>1
<1>7. SearchShape
  <2>1. \A w \in Workers : ~At(w, "wait")
    BY <1>5 DEF At
  <2> QED
    BY <1>1, <1>3, <1>4, <1>6, <2>1 DEF SearchShape
<1>8. ASSUME sys.random PROVE RandomInv
  <2>1. \A w \in Workers : WalkerRight(sys, worker[w])
    BY <1>5, <1>8 DEF WalkerRight, Roaming
  <2>2. WalkedRight(sys, result) /\ WalkedRight(sys, outcome)
    BY <1>1 DEF WalkedRight
  <2> QED
    BY <1>3, <2>1, <2>2 DEF RandomInv
<1>9. ASSUME ~sys.random PROVE BreadthInv
  <2>1. \A w \in Workers : worker[w].pc = "pop" /\ worker[w].queue = 1 /\ worker[w].depth = 0
    BY <1>5, <1>9
  <2>2. FoundRight(sys, discovered)
    BY <1>3 DEF FoundRight
  <2>3. \A w \in Workers : WorkerRight(sys, discovered, queues, flag, worker[w])
    BY <2>1 DEF WorkerRight, Working
  <2>4. Abreast(worker)
    BY <2>1 DEF Abreast, Works
  <2>5. LevelRight(sys, discovered, queues, worker, flag, 0, 1)
    <3>1. Initial \in Open(sys)
      BY <1>1, SystemIs
    <3>2. Reach(sys)[0] = {Initial}
      BY <1>1, ReachIs
    <3>3. Clean(sys, discovered, 0)
      BY <1>3, <3>2 DEF Clean
    <3>4. Queued(sys, discovered, queues[1], 0)
      BY <1>2, <1>3, <1>4, <3>1 DEF Queued
    <3>5. Queued(sys, discovered, queues[3 - 1], 0 + 1)
      BY <1>4 DEF Queued
    <3>6. Remaining(sys, discovered, queues, worker, flag, 0, 1)
      BY <1>4, <3>2 DEF Remaining
    <3>7. Coming(sys, discovered, queues, worker, 0, 1) /\ Reporting(sys, discovered, worker, flag, 0)
      BY <1>3 DEF Coming, Reporting
    <3>8. \A n \in Known(discovered) : discovered[n].depth <= 0 + 1
      BY <1>3
    <3> QED
      BY <3>3, <3>4, <3>5, <3>6, <3>7, <3>8 DEF LevelRight
  <2>6. LevelsRight(sys, discovered, queues, worker, flag)
    BY <2>1, <2>5 DEF LevelsRight
  <2>7. PassedRight(sys, discovered, queues, worker, flag)
    BY <2>1 DEF PassedRight, Passed
  <2>8. PromptRight(sys, worker)
    BY <2>1 DEF PromptRight
  <2>9. FinishRight
    BY <1>1, <2>1 DEF FinishRight, Together, Decided
  <2>10. ResultRight(sys, discovered, result) /\ ResultRight(sys, discovered, outcome)
    BY <1>1 DEF ResultRight
  <2> QED
    BY <2>2, <2>3, <2>4, <2>6, <2>7, <2>8, <2>9, <2>10 DEF BreadthInv
<1> QED
  BY <1>7, <1>8, <1>9 DEF SearchInv

-----------------------------------------------------------------------------
(* What the invariant says of the properties. *)

LEMMA SameWords ==
  /\ Within = Reach(sys) /\ Expanded = Open(sys) /\ Found = Known(discovered)
<1>1. Expanded = Open(sys)
  BY DEF Expanded, Open
<1>2. Within = Reach(sys)
  BY <1>1, Zenon DEF Within, Reach, Expanded, Open
<1> QED
  BY <1>1, <1>2 DEF Found, Known

LEMMA TypeRight ==
  ASSUME SearchInv
  PROVE  SearchTypeOK
<1>1. SearchShape
  BY DEF SearchInv
<1>2. \A w \in Workers : worker[w] \in WorkerType
  BY <1>1 DEF SearchShape
<1>3. \A w \in Workers : worker[w].queue \in 1..2 /\ worker[w].depth \in 0..MaxDepth - 1
  BY <1>2 DEF WorkerType
<1> QED
  BY <1>1, <1>3 DEF SearchTypeOK, SearchShape, InfoType

LEMMA DepthRight ==
  ASSUME SearchInv
  PROVE  DepthIsDistance
<1> SUFFICES ASSUME NEW n \in Found \ {Initial}
             PROVE  /\ n \in Within[discovered[n].depth] \ Within[discovered[n].depth - 1]
                    /\ discovered[n].prev \in Found /\ n \in sys.succ[discovered[n].prev]
                    /\ discovered[discovered[n].prev].depth + 1 = discovered[n].depth
  BY DEF DepthIsDistance
<1>1. n \in Known(discovered) \ {Initial}
  BY SameWords
<1>2. ~sys.random
  BY <1>1 DEF SearchInv, RandomInv
<1>3. FoundRight(sys, discovered)
  BY <1>2, BreadthIs DEF BreadthInv
<1> QED
  BY <1>1, <1>3, SameWords DEF FoundRight

LEMMA NearestRight ==
  ASSUME SearchInv
  PROVE  NearestFirst
<1> DEFINE depth == discovered[outcome.state].depth + IF outcome.kind = "Error" THEN 1 ELSE 0
<1> SUFFICES ASSUME ~sys.random, outcome # None, outcome.state # None
             PROVE  /\ Within[depth - 1] \cap (sys.bad \cup sys.goal) \subseteq {Initial}
                    /\ depth >= 2 => Within[depth - 2] \cap Expanded \cap sys.fails = {}
  BY DEF NearestFirst
<1>1. /\ FoundRight(sys, discovered) /\ ResultRight(sys, discovered, outcome)
      /\ sys \in Systems /\ discovered \in [Nodes -> {None} \cup InfoType]
  BY BreadthIs DEF BreadthInv, SearchShape
<1>2. outcome # Timeout /\ outcome # SpaceExhausted
  BY DEF Timeout, SpaceExhausted
<1>3. PICK n \in Known(discovered) :
        \/ outcome = Error(n) /\ discovered[n].depth < MaxDepth
           /\ Clean(sys, discovered, discovered[n].depth)
        \/ /\ outcome \in {InvariantViolation(n), GoalFound(n)}
           /\ discovered[n].depth >= 1 /\ Clean(sys, discovered, discovered[n].depth - 1)
  BY <1>1, <1>2 DEF ResultRight
<1>4. discovered[n].depth \in 0..MaxDepth /\ MaxDepth \in Nat
  <2>1. MaxDepth \in 0..MaxDepth
    BY DepthAssumption
  <2> QED
    BY <1>1, <2>1, DepthAssumption, FoundIn
<1> DEFINE k == depth - 1
<1>5. Clean(sys, discovered, k) /\ k \in Nat
  <2>1. CASE outcome = Error(n) /\ Clean(sys, discovered, discovered[n].depth)
    <3>1. outcome.kind = "Error" /\ outcome.state = n
      BY <2>1 DEF Error
    <3>2. depth - 1 = discovered[n].depth
      BY <1>4, <3>1
    <3> QED
      BY <1>4, <2>1, <3>2
  <2>2. CASE /\ outcome \in {InvariantViolation(n), GoalFound(n)}
             /\ discovered[n].depth >= 1 /\ Clean(sys, discovered, discovered[n].depth - 1)
    <3>1. outcome.kind # "Error" /\ outcome.state = n
      BY <2>2 DEF InvariantViolation, GoalFound
    <3>2. depth - 1 = discovered[n].depth - 1
      BY <1>4, <3>1
    <3> QED
      BY <1>4, <2>2, <3>2
  <2> QED
    BY <1>3, <2>1, <2>2
<1>6. depth \in Nat
  BY <1>3, <1>4 DEF Error, InvariantViolation, GoalFound
<1> HIDE DEF depth
<1>7. depth >= 2 => k >= 1 /\ k - 1 = depth - 2
  BY <1>6
<1> QED
  BY <1>5, <1>7, SameWords DEF Clean

LEMMA ExhaustiveRight ==
  ASSUME SearchInv
  PROVE  Exhaustive
<1> SUFFICES ASSUME sys.prompt, outcome = SpaceExhausted
             PROVE  /\ Found = Within[MaxDepth]
                    /\ Found \cap (sys.bad \cup sys.goal) \subseteq {Initial}
                    /\ Within[MaxDepth - 1] \cap Expanded \cap sys.fails = {}
  BY DEF Exhaustive
<1>1. outcome # None /\ outcome # Timeout /\ outcome.kind = "SpaceExhausted"
  BY NoneAssumption DEF SpaceExhausted, Timeout
<1>2. ~sys.random
  <2>1. sys.random => WalkedRight(sys, outcome)
    BY DEF SearchInv, RandomInv
  <2> QED
    BY <1>1, <2>1 DEF WalkedRight
<1>3. /\ FoundRight(sys, discovered) /\ ResultRight(sys, discovered, outcome)
      /\ sys \in Systems /\ discovered \in [Nodes -> {None} \cup InfoType]
  BY <1>2, BreadthIs DEF BreadthInv, SearchShape
<1>4. \A n : outcome # Error(n) /\ outcome # InvariantViolation(n) /\ outcome # GoalFound(n)
  BY <1>1 DEF Error, InvariantViolation, GoalFound
<1>5. Clean(sys, discovered, MaxDepth)
  BY <1>1, <1>3, <1>4 DEF ResultRight
<1>6. MaxDepth \in Nat /\ MaxDepth \in 0..MaxDepth /\ MaxDepth >= 1
  BY DepthAssumption
<1>7. Known(discovered) \subseteq Reach(sys)[MaxDepth]
  <2> SUFFICES ASSUME NEW n \in Known(discovered) PROVE n \in Reach(sys)[MaxDepth]
    OBVIOUS
  <2>1. discovered[n].depth \in 0..MaxDepth /\ (n \in Reach(sys)[MaxDepth] <=> discovered[n].depth <= MaxDepth)
    BY <1>3, <1>6, FoundIn
  <2> QED
    BY <1>6, <2>1
<1> QED
  BY <1>5, <1>6, <1>7, SameWords DEF Clean

LEMMA NobodyStuck ==
  ASSUME SearchInv
  PROVE  NoneStuck
<1> SUFFICES ASSUME sys.prompt, ~sys.limit
             PROVE  TrapsEveryWorker /\ \A w \in Workers : ~At(w, "panicked")
  BY DEF NoneStuck
<1>1. waiting = {w \in Workers : worker[w].pc = "wait"} /\ \A w \in Workers : worker[w] \in WorkerType
  BY DEF SearchInv, SearchShape, At
<1>2. \A w \in Workers : worker[w].pc # "panicked"
  BY <1>1 DEF WorkerType, Working, Gate, Roaming
<1>3. TrapsEveryWorker
  <2> SUFFICES ASSUME NEW v \in Workers, worker[v].pc = "wait"
               PROVE  \A w \in Workers : worker[w].pc # "exit"
    BY <1>1 DEF TrapsEveryWorker, At
  <2>1. ~sys.random
    BY RandomIs
  <2>2. Together(worker, flag)
    BY <2>1, FinishIs
  <2>3. Works(worker[v])
    BY DEF Works, Working
  <2> QED
    BY <2>2, <2>3 DEF Together
<1> QED
  BY <1>2, <1>3 DEF At

LEMMA WalksRight ==
  ASSUME SearchInv
  PROVE  RandomSound
<1> SUFFICES ASSUME sys.random, outcome # None, outcome # Timeout PROVE RandomSound
  BY DEF RandomSound
<1> DEFINE t == outcome.trace
           way == Way(t)
           last == way[Len(way)]
<1>1. WalkedRight(sys, outcome)
  BY RandomIs DEF RandomInv
<1>2. /\ t \in Seq(Nodes) /\ WayRight(sys, t) /\ Len(t) <= MaxDepth /\ Len(t) \in Nat
      /\ \/ outcome.kind = "Error" /\ way[Len(t) + 1] \in sys.fails /\ Len(t) < MaxDepth
         \/ outcome.kind = "InvariantViolation" /\ way[Len(t) + 1] \in sys.bad
         \/ outcome.kind = "GoalFound" /\ way[Len(t) + 1] \in sys.goal \ sys.bad
  BY <1>1 DEF WalkedRight
<1>3. Len(way) = Len(t) + 1
  BY <1>2, WayIs
<1> HIDE DEF t, way
<1>4. MaxDepth \in Nat
  BY DepthAssumption
<1>5. Len(way) <= MaxDepth + 1 /\ Len(way) - 1 = Len(t) /\ (Len(t) < MaxDepth => Len(way) <= MaxDepth)
  BY <1>2, <1>3, <1>4
<1>6. \A i \in 1..Len(way) - 1 : way[i] \in Expanded /\ way[i + 1] \in sys.succ[way[i]]
  BY <1>2, <1>5, SameWords DEF WayRight, way
<1>7. (CASE outcome.kind = "Error" -> last \in sys.fails /\ Len(way) <= MaxDepth
         [] outcome.kind = "InvariantViolation" -> last \in sys.bad
         [] outcome.kind = "GoalFound" -> last \in sys.goal \ sys.bad)
  BY <1>2, <1>3, <1>5
<1>8. way = <<Initial>> \o outcome.trace
  BY DEF way, t, Way
<1> QED
  BY <1>5, <1>6, <1>7, <1>8 DEF RandomSound

(* What a search reports can be relied on, for any system, number of       *)
(* workers and depth: a trace is a shortest way to the nearest state of    *)
(* its kind, in a random search a way to one, "exhausted" is said only     *)
(* when all was seen (if the sleep at 427 is long enough), and without a   *)
(* time limit no worker is left at a barrier.                              *)
THEOREM SearchIsSound == SearchSpec => []SearchSound
<1>1. SearchInit => SearchInv
  BY SearchStarts
<1>2. SearchInv /\ [SearchNext]_searchVars => SearchInv'
  BY SearchKeeps
<1>3. SearchInv => SearchSound
  BY TypeRight, DepthRight, NearestRight, ExhaustiveRight, NobodyStuck, WalksRight DEF SearchSound
<1> QED
  BY <1>1, <1>2, <1>3, PTL DEF SearchSpec
=============================================================================
