------------------------- MODULE UnreplicatedProofs -------------------------
(***************************************************************************)
(* Proofs about Unreplicated, for any set of clients and operations and    *)
(* any length of the workloads, and about the workloads that several loops *)
(* share (Ycsb.tla and Countdown.tla), for any number of loops, any number *)
(* of records and any count.                                               *)
(***************************************************************************)
EXTENDS Unreplicated, Ycsb, Countdown, FiniteSetTheorems, SequenceTheorems,
        WellFoundedInduction, TLAPS

LEMMA AppendType ==
  ASSUME NEW S, NEW s \in Seq(S), NEW e \in S
  PROVE  Append(s, e) \in Seq(S)
  OBVIOUS

(* What the timer operations do to a session's timers. *)
LEMMA TimerFacts ==
  ASSUME NEW t \in TimerState, NEW id \in Nat
  PROVE  /\ NextTimerId(t) \in Nat
         /\ TimerSet(t) \in TimerState
         /\ TimerSet(t).handles = t.handles \cup {NextTimerId(t)}
         /\ TimerUnset(t, id) \in TimerState
         /\ TimerUnset(t, id).handles = t.handles \ {id}
         /\ TimerTick(t, id) \in TimerState
         /\ TimerTick(t, id).handles = t.handles
         /\ TimerAbort(t, id) \in TimerState
         /\ TimerAbort(t, id).handles = t.handles
         /\ TimerTake(t, id) \in TimerState
         /\ TimerTake(t, id).handles = t.handles
<1>1. NextTimerId(t) \in Nat
  BY DEF TimerState, NextTimerId
<1>2. TimerSet(t) \in TimerState /\ TimerSet(t).handles = t.handles \cup {NextTimerId(t)}
  BY <1>1 DEF TimerState, TimerSet
<1>3. TimerUnset(t, id) \in TimerState /\ TimerUnset(t, id).handles = t.handles \ {id}
  BY DEF TimerState, TimerUnset
<1>4. TimerTick(t, id) \in TimerState /\ TimerTick(t, id).handles = t.handles
  BY DEF TimerState, TimerTick
<1>5. TimerAbort(t, id) \in TimerState /\ TimerAbort(t, id).handles = t.handles
  BY DEF TimerState, TimerAbort
<1>6. TimerTake(t, id) \in TimerState /\ TimerTake(t, id).handles = t.handles
  BY DEF TimerState, TimerTake
<1> QED
  BY <1>1, <1>2, <1>3, <1>4, <1>5, <1>6

(***************************************************************************)
(* What the operations with error paths do in the states of the invariant: *)
(* none of the error paths is taken.                                       *)
(***************************************************************************)
InvokeEffect(c) ==
  /\ attach[c] \in Ops /\ invokes[c] = <<attach[c]>> /\ upcalls[c] = <<>>
  /\ ~Waiting(c) /\ seq[c] = Len(invocations[c])
  /\ invokes' = [invokes EXCEPT ![c] = <<>>]
  /\ seq' = [seq EXCEPT ![c] = seq[c] + 1]
  /\ invoke' = [invoke EXCEPT ![c] = [op |-> attach[c], timer |-> NextTimerId(timer[c])]]
  /\ timer' = [timer EXCEPT ![c] = TimerSet(timer[c])]
  /\ toReplica' = toReplica \cup {[client |-> c, seq |-> seq[c] + 1, op |-> attach[c]]}
  /\ attach' = attach /\ invocations' = invocations /\ done' = done /\ upcalls' = upcalls
  /\ failed' = failed /\ toClient' = toClient /\ replies' = replies /\ app' = app

InvokeOkEffect(c, op) ==
  /\ attach[c] \in Ops /\ invokes[c] = <<>> /\ ~Waiting(c)
  /\ upcalls[c] = <<replies[c].result>>
  /\ app[replies[c].result].op = attach[c]
  /\ seq[c] = Len(invocations[c]) + 1
  /\ upcalls' = [upcalls EXCEPT ![c] = <<>>]
  /\ invocations' = [invocations EXCEPT ![c] =
         Append(invocations[c], [op |-> attach[c], result |-> replies[c].result])]
  /\ \/ /\ attach' = [attach EXCEPT ![c] = op]
        /\ invokes' = [invokes EXCEPT ![c] = <<op>>]
        /\ done' = done
     \/ /\ attach' = [attach EXCEPT ![c] = None]
        /\ invokes' = invokes
        /\ done' = [done EXCEPT ![c] = TRUE]
  /\ seq' = seq /\ invoke' = invoke /\ timer' = timer /\ failed' = failed
  /\ toReplica' = toReplica /\ toClient' = toClient /\ replies' = replies /\ app' = app

TimerEffect(c, id) ==
  /\ timer' = [timer EXCEPT ![c] = TimerTake(timer[c], id)]
  /\ \/ toReplica' = toReplica
     \/ /\ Waiting(c)
        /\ toReplica' = toReplica \cup {[client |-> c, seq |-> seq[c], op |-> invoke[c].op]}
  /\ attach' = attach /\ invocations' = invocations /\ done' = done /\ invokes' = invokes
  /\ upcalls' = upcalls /\ seq' = seq /\ invoke' = invoke /\ failed' = failed
  /\ toClient' = toClient /\ replies' = replies /\ app' = app

ReplyEffect(c) ==
  /\ c \in Clients /\ attach[c] \in Ops /\ Waiting(c)
  /\ invokes[c] = <<>> /\ upcalls[c] = <<>> /\ invoke[c].op = attach[c]
  /\ seq[c] = Len(invocations[c]) + 1 /\ replies[c].seq = seq[c] /\ seq[c] > 0
  /\ invoke' = [invoke EXCEPT ![c] = NoInvoke]
  /\ timer' = [timer EXCEPT ![c] = TimerUnset(timer[c], invoke[c].timer)]
  /\ upcalls' = [upcalls EXCEPT ![c] = <<replies[c].result>>]
  /\ attach' = attach /\ invocations' = invocations /\ done' = done /\ invokes' = invokes
  /\ seq' = seq /\ failed' = failed /\ toReplica' = toReplica /\ toClient' = toClient
  /\ replies' = replies /\ app' = app

LEMMA OnInvokeEffect ==
  ASSUME Inv, NEW c \in Clients, OnInvoke(c)
  PROVE  InvokeEffect(c)
<1>1. /\ attach[c] \in Ops /\ invokes[c] = <<attach[c]>> /\ upcalls[c] = <<>>
      /\ ~Waiting(c) /\ seq[c] = Len(invocations[c])
  BY DEF Inv, LoopInv, LoopAt, OnInvoke
<1>2. Head(invokes[c]) = attach[c] /\ Tail(invokes[c]) = <<>>
  BY <1>1
<1> QED
  BY <1>1, <1>2 DEF InvokeEffect, OnInvoke, DoSend, Waiting, loopVars, replicaVars

LEMMA OnInvokeOkEffect ==
  ASSUME Inv, NEW c \in Clients, NEW op \in Ops, OnInvokeOk(c, op)
  PROVE  InvokeOkEffect(c, op)
<1>1. /\ attach[c] \in Ops /\ invokes[c] = <<>> /\ ~Waiting(c)
      /\ upcalls[c] = <<replies[c].result>>
      /\ app[replies[c].result].op = attach[c]
      /\ seq[c] = Len(invocations[c]) + 1
  BY DEF Inv, LoopInv, LoopAt, OnInvokeOk
<1>2. /\ Head(upcalls[c]) = replies[c].result /\ Tail(upcalls[c]) = <<>>
      /\ Append(invokes[c], op) = <<op>>
  BY <1>1
<1>3. attach[c] # None
  BY <1>1, NoneAssumption
<1> QED
  BY <1>1, <1>2, <1>3 DEF InvokeOkEffect, OnInvokeOk, clientVars, netVars, replicaVars

LEMMA OnTimerEffect ==
  ASSUME Inv, NEW c \in Clients, NEW id \in timer[c].queued, OnTimer(c, id)
  PROVE  TimerEffect(c, id)
<1>1. IsSet(timer[c], id) => invoke[c] # NoInvoke /\ invoke[c].timer = id
  BY DEF IsSet, Inv, TimerInv, TimerAt, Waiting
<1> QED
  BY <1>1 DEF TimerEffect, OnTimer, DoSend, Waiting, loopVars, replicaVars

LEMMA OnReplyEffect ==
  ASSUME Inv, NEW m \in toClient, OnReply(m)
  PROVE  ReplyEffect(m.client)
<1> DEFINE c == m.client
<1>1. c \in Clients /\ Waiting(c) /\ m.seq = seq[c] /\ m.seq \in Nat
  BY DEF OnReply, Accepts, Inv, TypeOK, Reply, Waiting
<1>2. /\ attach[c] \in Ops /\ invokes[c] = <<>> /\ upcalls[c] = <<>> /\ invoke[c].op = attach[c]
      /\ seq[c] = Len(invocations[c]) + 1
  BY <1>1 DEF Inv, LoopInv, LoopAt
<1>3. replies[c].seq = seq[c] /\ m.result = replies[c].result /\ seq[c] > 0
  BY <1>1 DEF Inv, TypeOK, StoredInv, StoredAt, ReplyInv, ReplyAt
<1>4. CanUnset(timer[c], invoke[c].timer)
  BY <1>1 DEF CanUnset, Inv, TimerInv, TimerAt
<1>5. Append(upcalls[c], m.result) = <<replies[c].result>>
  BY <1>2, <1>3
<1> QED
  BY <1>1, <1>2, <1>3, <1>4, <1>5 DEF ReplyEffect, OnReply, Accepts, loopVars, netVars, replicaVars

LEMMA OnInvokePreserves ==
  ASSUME Inv, NEW c \in Clients, InvokeEffect(c)
  PROVE  Inv'
<1> USE DEF Inv, InvokeEffect
<1>1. TypeOK'
  <2>1. invokes' \in [Clients -> Seq(Ops)]
    BY DEF TypeOK
  <2>2. invoke' \in [Clients -> [op : Ops \cup {None}, timer : Nat]]
    BY TimerFacts DEF TypeOK
  <2>3. timer' \in [Clients -> TimerState]
    BY TimerFacts DEF TypeOK
  <2>4. toReplica' \in SUBSET Request
    BY DEF TypeOK, Request
  <2>5. seq' \in [Clients -> Nat]
    BY DEF TypeOK
  <2> QED
    BY <2>1, <2>2, <2>3, <2>4, <2>5 DEF TypeOK
<1>2. NoFailure'
  BY DEF NoFailure
<1>3. ASSUME NEW d \in Clients, d # c PROVE LoopAt(d)'
  BY <1>3 DEF LoopInv, LoopAt, TypeOK, Waiting
<1>4. LoopAt(c)'
  BY NoneAssumption DEF LoopInv, LoopAt, TypeOK, Waiting, NoInvoke
<1>5. ASSUME NEW d \in Clients PROVE TimerAt(d)'
  <2>1. CASE d = c
    <3>1. timer[c].handles = {} /\ timer[c] \in TimerState
      BY DEF TimerInv, TimerAt, TypeOK
    <3>2. timer'[c] = TimerSet(timer[c]) /\ invoke'[c] = [op |-> attach[c], timer |-> NextTimerId(timer[c])]
      BY DEF TypeOK
    <3>3. TimerSet(timer[c]).handles = {NextTimerId(timer[c])}
      BY <3>1, TimerFacts
    <3>4. invoke'[c] # NoInvoke
      BY <3>2, NoneAssumption DEF NoInvoke
    <3> QED
      BY <2>1, <3>2, <3>3, <3>4 DEF TimerAt, Waiting
  <2>2. CASE d # c
    <3>1. timer'[d] = timer[d] /\ invoke'[d] = invoke[d]
      BY <2>2 DEF TypeOK
    <3>2. TimerAt(d)
      BY DEF TimerInv
    <3> QED
      BY <3>1, <3>2 DEF TimerAt, Waiting
  <2> QED
    BY <2>1, <2>2
<1>6. ASSUME NEW m \in toReplica' PROVE RequestAt(m)'
  <2>1. seq'[c] = seq[c] + 1 /\ seq[c] \in Nat /\ ~Waiting(c)
        /\ \A d \in Clients : d # c => seq'[d] = seq[d] /\ invoke'[d] = invoke[d]
    BY DEF TypeOK
  <2>2. CASE m \in toReplica
    <3>1. m.client \in Clients /\ m.seq \in Nat /\ m.seq \in 1..seq[m.client]
      BY <2>2 DEF TypeOK, Request, RequestInv, RequestAt
    <3>2. CASE m.client = c
      BY <2>1, <3>1, <3>2 DEF RequestAt
    <3>3. CASE m.client # c
      BY <2>1, <2>2, <3>1, <3>3 DEF RequestInv, RequestAt, Waiting
    <3> QED
      BY <3>2, <3>3
  <2>3. CASE m \notin toReplica
    <3>1. m.client = c /\ m.seq = seq'[c] /\ m.op = invoke'[c].op
      BY <2>3 DEF TypeOK
    <3> QED
      BY <2>1, <3>1 DEF RequestAt
  <2> QED
    BY <2>2, <2>3
<1>7. ASSUME NEW d \in Clients PROVE StoredAt(d)'
  <2>1. CASE d = c
    BY <2>1, NoneAssumption DEF StoredInv, StoredAt, TypeOK, Waiting, NoInvoke
  <2>2. CASE d # c
    BY <2>2 DEF StoredInv, StoredAt, TypeOK, Waiting
  <2> QED
    BY <2>1, <2>2
<1>8. ReplyInv' /\ AppInv' /\ ExecutedInOrder' /\ ResultsMatch'
  BY DEF ReplyInv, ReplyAt, AppInv, ExecutedInOrder, ResultsMatch
<1> QED
  BY <1>1, <1>2, <1>3, <1>4, <1>5, <1>6, <1>7, <1>8
  DEF LoopInv, TimerInv, RequestInv, StoredInv

LEMMA OnInvokeOkPreserves ==
  ASSUME Inv, NEW c \in Clients, NEW op \in Ops, InvokeOkEffect(c, op)
  PROVE  Inv'
<1> USE DEF Inv, InvokeOkEffect
<1>1. TypeOK'
  <2>1. attach' \in [Clients -> Ops \cup {None}]
    BY DEF TypeOK
  <2>2. invocations' \in [Clients -> Seq([op : Ops, result : Nat])]
    <3>1. [op |-> attach[c], result |-> replies[c].result] \in [op : Ops, result : Nat]
      BY DEF TypeOK
    <3>2. invocations[c] \in Seq([op : Ops, result : Nat])
      BY DEF TypeOK
    <3>3. Append(invocations[c], [op |-> attach[c], result |-> replies[c].result])
             \in Seq([op : Ops, result : Nat])
      BY <3>1, <3>2, AppendType
    <3> QED
      BY <3>3 DEF TypeOK
  <2>3. done' \in [Clients -> BOOLEAN]
    BY DEF TypeOK
  <2>4. invokes' \in [Clients -> Seq(Ops)]
    <3>1. <<op>> \in Seq(Ops)
      OBVIOUS
    <3> QED
      BY <3>1 DEF TypeOK
  <2>5. upcalls' \in [Clients -> Seq(Nat)]
    BY DEF TypeOK
  <2> QED
    BY <2>1, <2>2, <2>3, <2>4, <2>5 DEF TypeOK
<1>2. NoFailure'
  BY DEF NoFailure
<1>3. ASSUME NEW d \in Clients, d # c PROVE LoopAt(d)'
  BY <1>3 DEF LoopInv, LoopAt, TypeOK, Waiting
<1>4. LoopAt(c)'
  <2>1. Len(invocations'[c]) = Len(invocations[c]) + 1
    BY DEF TypeOK
  <2> QED
    BY <2>1 DEF LoopAt, TypeOK, Waiting
<1>5. TimerInv' /\ RequestInv' /\ StoredInv' /\ ReplyInv' /\ AppInv' /\ ExecutedInOrder'
  BY DEF TimerInv, TimerAt, RequestInv, RequestAt, StoredInv, StoredAt, ReplyInv, ReplyAt,
         AppInv, ExecutedInOrder, Waiting
<1>6. ASSUME NEW d \in Clients, NEW n \in DOMAIN invocations'[d]
      PROVE  /\ invocations'[d][n].result \in DOMAIN app
             /\ app[invocations'[d][n].result] =
                    [client |-> d, seq |-> n, op |-> invocations'[d][n].op]
  <2>1. CASE d = c /\ n = Len(invocations[c]) + 1
    <3>1. replies[c].seq = n /\ n > 0
      BY <2>1 DEF StoredInv, StoredAt, TypeOK
    <3>2. invocations'[c][n] = [op |-> attach[c], result |-> replies[c].result]
      BY <2>1 DEF TypeOK
    <3>3. /\ replies[c].result \in DOMAIN app
          /\ app[replies[c].result].client = c
          /\ app[replies[c].result].seq = n
          /\ app[replies[c].result].op = attach[c]
      BY <3>1 DEF StoredInv, StoredAt
    <3>4. app[replies[c].result] \in Request
      BY <3>3 DEF TypeOK
    <3> QED
      BY <2>1, <3>2, <3>3, <3>4 DEF Request
  <2>2. CASE ~(d = c /\ n = Len(invocations[c]) + 1)
    <3>1. n \in DOMAIN invocations[d] /\ invocations'[d][n] = invocations[d][n]
      <4>1. invocations[d] \in Seq([op : Ops, result : Nat])
        BY DEF TypeOK
      <4>2. CASE d # c
        BY <4>2, <1>6 DEF TypeOK
      <4>3. CASE d = c
        <5> DEFINE e == [op |-> attach[c], result |-> replies[c].result]
        <5>1. invocations'[c] = Append(invocations[c], e)
          BY DEF TypeOK
        <5> HIDE DEF e
        <5>2. n \in 1..(Len(invocations[c]) + 1)
          BY <5>1, <4>1, <4>3, <1>6
        <5>3. n \in 1..Len(invocations[c])
          BY <5>2, <2>2, <4>1, <4>3
        <5> QED
          BY <5>1, <5>3, <4>1, <4>3
      <4> QED
        BY <4>2, <4>3
    <3> QED
      BY <3>1 DEF ResultsMatch
  <2> QED
    BY <2>1, <2>2
<1>7. ResultsMatch'
  BY <1>6 DEF ResultsMatch
<1> QED
  BY <1>1, <1>2, <1>3, <1>4, <1>5, <1>7 DEF LoopInv

LEMMA OnTimerPreserves ==
  ASSUME Inv, NEW c \in Clients, NEW id \in timer[c].queued, TimerEffect(c, id)
  PROVE  Inv'
<1> USE DEF Inv, TimerEffect
<1>0. id \in Nat
  BY DEF TypeOK, TimerState
<1>1. TypeOK'
  <2>1. timer' \in [Clients -> TimerState]
    BY <1>0, TimerFacts DEF TypeOK
  <2>2. toReplica' \in SUBSET Request
    BY NoneAssumption DEF TypeOK, Request, LoopInv, LoopAt
  <2> QED
    BY <2>1, <2>2 DEF TypeOK
<1>2. NoFailure' /\ LoopInv' /\ StoredInv' /\ ReplyInv' /\ AppInv' /\ ExecutedInOrder' /\ ResultsMatch'
  BY DEF NoFailure, LoopInv, LoopAt, StoredInv, StoredAt, ReplyInv, ReplyAt, AppInv,
         ExecutedInOrder, ResultsMatch, Waiting
<1>3. ASSUME NEW d \in Clients PROVE TimerAt(d)'
  <2>1. timer'[d].handles = timer[d].handles
    <3>1. timer[c] \in TimerState /\ timer' = [timer EXCEPT ![c] = TimerTake(timer[c], id)]
      BY DEF TypeOK
    <3>2. TimerTake(timer[c], id).handles = timer[c].handles
      BY <1>0, <3>1, TimerFacts
    <3> QED
      BY <3>1, <3>2 DEF TypeOK
  <2> QED
    BY <2>1 DEF TimerInv, TimerAt, Waiting
<1>4. ASSUME NEW m \in toReplica' PROVE RequestAt(m)'
  <2>1. CASE m \in toReplica
    BY <2>1 DEF RequestInv, RequestAt, Waiting
  <2>2. CASE Waiting(c) /\ m = [client |-> c, seq |-> seq[c], op |-> invoke[c].op]
    BY <2>2 DEF LoopInv, LoopAt, RequestAt, TypeOK, Waiting
  <2> QED
    BY <2>1, <2>2
<1> QED
  BY <1>1, <1>2, <1>3, <1>4 DEF TimerInv, RequestInv

LEMMA OnReplyPreserves ==
  ASSUME Inv, NEW c, ReplyEffect(c)
  PROVE  Inv'
<1> USE DEF Inv, ReplyEffect
<1>1. TypeOK'
  <2>1. timer' \in [Clients -> TimerState]
    BY TimerFacts DEF TypeOK
  <2>2. upcalls' \in [Clients -> Seq(Nat)]
    BY DEF TypeOK
  <2>3. invoke' \in [Clients -> [op : Ops \cup {None}, timer : Nat]]
    BY DEF TypeOK, NoInvoke
  <2> QED
    BY <2>1, <2>2, <2>3 DEF TypeOK
<1>2. NoFailure' /\ ReplyInv' /\ AppInv' /\ ExecutedInOrder' /\ ResultsMatch'
  BY DEF NoFailure, ReplyInv, ReplyAt, AppInv, ExecutedInOrder, ResultsMatch
<1>3. ASSUME NEW d \in Clients, d # c PROVE LoopAt(d)'
  BY <1>3 DEF LoopInv, LoopAt, TypeOK, Waiting
<1>4. LoopAt(c)'
  <2>1. app[replies[c].result].op = attach[c]
    BY DEF StoredInv, StoredAt
  <2> QED
    BY <2>1 DEF LoopAt, TypeOK, Waiting
<1>5. ASSUME NEW d \in Clients PROVE TimerAt(d)'
  <2>1. timer'[c].handles = timer[c].handles \ {invoke[c].timer}
    <3>1. timer[c] \in TimerState /\ invoke[c].timer \in Nat
      BY DEF TypeOK
    <3>2. timer'[c] = TimerUnset(timer[c], invoke[c].timer)
      BY DEF TypeOK
    <3>3. ASSUME NEW t \in TimerState, NEW id \in Nat
          PROVE  TimerUnset(t, id).handles = t.handles \ {id}
      BY TimerFacts
    <3> QED
      BY <3>1, <3>2, <3>3
  <2>2. timer[c].handles = {invoke[c].timer}
    BY DEF TimerInv, TimerAt
  <2>3. CASE d = c
    BY <2>1, <2>2, <2>3 DEF TimerAt, TypeOK, Waiting
  <2>4. CASE d # c
    BY <2>4 DEF TimerInv, TimerAt, TypeOK, Waiting
  <2> QED
    BY <2>3, <2>4
<1>6. ASSUME NEW m \in toReplica PROVE RequestAt(m)'
  BY DEF RequestInv, RequestAt, TypeOK, Waiting
<1>7. ASSUME NEW d \in Clients PROVE StoredAt(d)'
  BY DEF StoredInv, StoredAt, TypeOK, Waiting
<1> QED
  BY <1>1, <1>2, <1>3, <1>4, <1>5, <1>6, <1>7 DEF LoopInv, TimerInv, RequestInv, StoredInv

LEMMA LaunchPreserves ==
  ASSUME Inv, NEW c \in Clients, NEW op \in Ops, Launch(c, op)
  PROVE  Inv'
<1> USE DEF Inv, Launch, clientVars, netVars, replicaVars
<1>1. TypeOK'
  <2>1. attach' \in [Clients -> Ops \cup {None}]
    BY DEF TypeOK
  <2>2. invokes' \in [Clients -> Seq(Ops)]
    BY DEF TypeOK
  <2> QED
    BY <2>1, <2>2 DEF TypeOK
<1>2. ASSUME NEW d \in Clients, d # c PROVE LoopAt(d)'
  BY <1>2 DEF LoopInv, LoopAt, TypeOK, Waiting
<1>3. LoopAt(c)'
  <2>1. /\ invokes[c] = <<>> /\ upcalls[c] = <<>> /\ ~Waiting(c)
        /\ seq[c] = Len(invocations[c])
    BY NoneAssumption DEF LoopInv, LoopAt
  <2>2. invokes'[c] = <<op>> /\ attach'[c] = op
    BY <2>1 DEF TypeOK
  <2> QED
    BY <2>1, <2>2 DEF LoopAt, Waiting
<1>4. NoFailure' /\ TimerInv' /\ StoredInv' /\ RequestInv'
  BY DEF NoFailure, TimerInv, TimerAt, StoredInv, StoredAt, RequestInv, RequestAt, Waiting
<1>5. ReplyInv' /\ AppInv' /\ ExecutedInOrder' /\ ResultsMatch'
  BY DEF ReplyInv, ReplyAt, AppInv, ExecutedInOrder, ResultsMatch
<1> QED
  BY <1>1, <1>2, <1>3, <1>4, <1>5 DEF LoopInv

(* A timer task wakes up, or is cancelled. *)
LEMMA TickAbortPreserves ==
  ASSUME Inv, NEW c \in Clients, NEW id \in timer[c].tasks, Tick(c, id) \/ Abort(c, id)
  PROVE  Inv'
<1> USE DEF Inv, Tick, Abort, loopVars, netVars, replicaVars
<1>1. id \in Nat
  BY DEF TypeOK, TimerState
<1>2. PICK t \in TimerState : t.handles = timer[c].handles /\ timer' = [timer EXCEPT ![c] = t]
  <2>1. timer[c] \in TimerState
    BY DEF TypeOK
  <2>2. /\ TimerTick(timer[c], id) \in TimerState /\ TimerTick(timer[c], id).handles = timer[c].handles
        /\ TimerAbort(timer[c], id) \in TimerState /\ TimerAbort(timer[c], id).handles = timer[c].handles
    BY <1>1, <2>1, TimerFacts
  <2> QED
    BY <2>2
<1>3. TypeOK'
  BY <1>2 DEF TypeOK
<1>4. ASSUME NEW d \in Clients PROVE timer'[d].handles = timer[d].handles
  BY <1>2 DEF TypeOK
<1>5. TimerInv'
  BY <1>4 DEF TimerInv, TimerAt, Waiting
<1>6. /\ NoFailure' /\ LoopInv' /\ RequestInv' /\ StoredInv' /\ ReplyInv' /\ AppInv'
      /\ ExecutedInOrder' /\ ResultsMatch'
  BY DEF NoFailure, LoopInv, LoopAt, RequestInv, RequestAt, StoredInv, StoredAt, ReplyInv,
         ReplyAt, AppInv, ExecutedInOrder, ResultsMatch, Waiting
<1> QED
  BY <1>3, <1>5, <1>6

(* UDP drops a message. *)
LEMMA LosePreserves ==
  ASSUME Inv, NEW m, LoseRequest(m) \/ LoseReply(m)
  PROVE  Inv'
<1> USE DEF Inv
<1>0. /\ toReplica' \subseteq toReplica /\ toClient' \subseteq toClient
      /\ attach' = attach /\ invocations' = invocations /\ done' = done /\ invokes' = invokes
      /\ upcalls' = upcalls /\ seq' = seq /\ invoke' = invoke /\ timer' = timer
      /\ failed' = failed /\ replies' = replies /\ app' = app
  BY DEF LoseRequest, LoseReply, loopVars, clientVars, replicaVars
<1>1. TypeOK'
  BY <1>0 DEF TypeOK
<1>2. LoopInv' /\ TimerInv' /\ StoredInv'
  BY <1>0 DEF LoopInv, LoopAt, TimerInv, TimerAt, StoredInv, StoredAt, Waiting
<1>3. RequestInv' /\ ReplyInv'
  BY <1>0 DEF RequestInv, RequestAt, ReplyInv, ReplyAt, Waiting
<1>4. NoFailure' /\ AppInv' /\ ExecutedInOrder' /\ ResultsMatch'
  BY <1>0 DEF NoFailure, AppInv, ExecutedInOrder, ResultsMatch
<1> QED
  BY <1>1, <1>2, <1>3, <1>4

(* The replica repeats a reply. *)
LEMMA RepeatPreserves ==
  ASSUME Inv, NEW m \in toReplica, OnRequest(m), replies[m.client].seq = m.seq
  PROVE  Inv'
<1> DEFINE c == m.client
<1> USE DEF Inv
<1>1. c \in Clients /\ m.seq > 0 /\ m.seq = replies[c].seq /\ m.seq \in Nat
  BY DEF TypeOK, Request, RequestInv, RequestAt
<1>2. /\ toClient' = toClient \cup {[client |-> c, seq |-> m.seq, result |-> replies[c].result]}
      /\ attach' = attach /\ invocations' = invocations /\ done' = done /\ invokes' = invokes
      /\ upcalls' = upcalls /\ seq' = seq /\ invoke' = invoke /\ timer' = timer
      /\ failed' = failed /\ toReplica' = toReplica /\ replies' = replies /\ app' = app
  BY <1>1 DEF OnRequest, SendReply, loopVars, clientVars, replicaVars
<1>3. TypeOK'
  <2>1. [client |-> c, seq |-> m.seq, result |-> replies[c].result] \in Reply
    BY <1>1 DEF TypeOK, Reply
  <2> QED
    BY <1>2, <2>1 DEF TypeOK
<1>4. ASSUME NEW r \in toClient' PROVE ReplyAt(r)'
  BY <1>1, <1>2 DEF ReplyInv, ReplyAt, TypeOK
<1>5. /\ NoFailure' /\ TimerInv' /\ RequestInv' /\ AppInv'
      /\ ExecutedInOrder' /\ ResultsMatch'
  BY <1>2 DEF NoFailure, TimerInv, TimerAt, RequestInv, RequestAt, AppInv, ExecutedInOrder,
         ResultsMatch, Waiting
<1>6. LoopInv'
  BY <1>2 DEF LoopInv, LoopAt, Waiting
<1>7. StoredInv'
  BY <1>2 DEF StoredInv, StoredAt, Waiting
<1> QED
  BY <1>3, <1>4, <1>5, <1>6, <1>7 DEF ReplyInv

(* The replica executes a request. *)
LEMMA ExecutePreserves ==
  ASSUME Inv, NEW m \in toReplica, OnRequest(m), replies[m.client].seq # m.seq
  PROVE  Inv'
<1> DEFINE c == m.client
<1> DEFINE n == Len(app) + 1
<1> USE DEF Inv
<1>1. /\ m \in Request /\ c \in Clients /\ m.seq \in Nat /\ m.op \in Ops
      /\ seq[c] \in Nat /\ replies[c].seq \in Nat /\ n \in Nat /\ app \in Seq(Request)
  BY DEF TypeOK, Request
<1>2. /\ replies[c].seq < m.seq
      /\ app' = Append(app, m)
      /\ replies' = [replies EXCEPT ![c] = [seq |-> m.seq, result |-> n]]
      /\ toClient' = toClient \cup {[client |-> c, seq |-> m.seq, result |-> n]}
      /\ attach' = attach /\ invocations' = invocations /\ done' = done /\ invokes' = invokes
      /\ upcalls' = upcalls /\ seq' = seq /\ invoke' = invoke /\ timer' = timer
      /\ failed' = failed /\ toReplica' = toReplica
  <2>1. m = [client |-> c, seq |-> m.seq, op |-> m.op]
    BY <1>1 DEF Request
  <2> QED
    BY <1>1, <2>1 DEF OnRequest, SendReply, loopVars, clientVars, replicaVars
(* Only the client's outstanding request can be new to the replica. *)
<1>3. Waiting(c) /\ m.seq = seq[c] /\ m.op = invoke[c].op /\ m.seq > 0
  <2>1. m.seq \in 1..seq[c] /\ (m.seq = seq[c] /\ Waiting(c) => m.op = invoke[c].op)
    BY DEF RequestInv, RequestAt
  <2>2. Waiting(c)
    BY <1>1, <1>2, <2>1 DEF StoredInv, StoredAt
  <2>3. m.seq = seq[c]
    BY <1>1, <1>2, <2>1, <2>2 DEF StoredInv, StoredAt
  <2> QED
    BY <1>1, <2>1, <2>2, <2>3
<1>4. /\ DOMAIN app' = 1..n /\ app'[n] = m
      /\ \A i \in DOMAIN app : i \in 1..n /\ i # n /\ app'[i] = app[i]
      /\ \A i \in DOMAIN app' : i = n \/ i \in DOMAIN app
  BY <1>1, <1>2
<1>5. TypeOK'
  <2>1. app' \in Seq(Request)
    BY <1>1, <1>2
  <2>2. replies' \in [Clients -> [seq : Nat, result : Nat]]
    BY <1>1, <1>2 DEF TypeOK
  <2>3. toClient' \in SUBSET Reply
    <3>1. toClient \subseteq Reply
      BY DEF TypeOK
    <3>2. [client |-> c, seq |-> m.seq, result |-> n] \in Reply
      BY <1>1 DEF Reply
    <3> QED
      BY <1>2, <3>1, <3>2
  <2> QED
    BY <1>2, <2>1, <2>2, <2>3 DEF TypeOK
<1>6. replies'[c] = [seq |-> m.seq, result |-> n] /\ \A d \in Clients : d # c => replies'[d] = replies[d]
  BY <1>1, <1>2 DEF TypeOK
<1>7. LoopInv'
  <2> SUFFICES ASSUME NEW d \in Clients PROVE LoopAt(d)'
    BY DEF LoopInv
  <2>0. LoopAt(d)
    BY DEF LoopInv
  <2>1. CASE Waiting(d) \/ upcalls[d] = <<>>
    <3>1. Waiting(d) \/ upcalls[d] # <<replies[d].result>>
      <4>1. <<replies[d].result>> # <<>>
        OBVIOUS
      <4> QED
        BY <2>1, <4>1
    <3>2. /\ attach'[d] = attach[d] /\ invokes'[d] = invokes[d] /\ upcalls'[d] = upcalls[d]
          /\ seq'[d] = seq[d] /\ invocations'[d] = invocations[d] /\ invoke'[d] = invoke[d]
      BY <1>2
    <3> QED
      BY <2>0, <3>1, <3>2 DEF LoopAt, Waiting
  <2>2. CASE ~Waiting(d) /\ upcalls[d] # <<>>
    <3>1. /\ attach[d] \in Ops /\ invokes[d] = <<>> /\ upcalls[d] = <<replies[d].result>>
          /\ app[replies[d].result].op = attach[d] /\ seq[d] = Len(invocations[d]) + 1
      BY <2>0, <2>2 DEF LoopAt
    <3>2. seq[d] > 0
      BY <3>1 DEF TypeOK
    <3>3. replies'[d] = replies[d] /\ app'[replies[d].result] = app[replies[d].result]
      BY <1>3, <1>4, <1>6, <2>2, <3>2 DEF StoredInv, StoredAt
    <3> QED
      BY <1>2, <2>2, <3>1, <3>3 DEF LoopAt, Waiting
  <2> QED
    BY <2>1, <2>2
<1>8. TimerInv' /\ RequestInv' /\ NoFailure'
  BY <1>2 DEF TimerInv, TimerAt, RequestInv, RequestAt, NoFailure, Waiting
<1>9. ASSUME NEW d \in Clients PROVE StoredAt(d)'
  <2>1. CASE d = c
    BY <1>1, <1>2, <1>3, <1>4, <1>6, <2>1 DEF StoredAt, Waiting
  <2>2. CASE d # c
    BY <1>2, <1>4, <1>6, <2>2 DEF StoredInv, StoredAt, Waiting
  <2> QED
    BY <2>1, <2>2
<1>10. ASSUME NEW r \in toClient' PROVE ReplyAt(r)'
  <2>1. CASE r = [client |-> c, seq |-> m.seq, result |-> n]
    BY <1>1, <1>3, <1>6, <2>1 DEF ReplyAt
  <2>2. CASE r \in toClient
    <3>1. r.client \in Clients /\ r.seq \in Nat
      BY <2>2 DEF TypeOK, Reply
    <3>2. r.seq \in 1..replies[r.client].seq
      BY <2>2 DEF ReplyInv, ReplyAt
    <3>3. CASE r.client = c
      BY <1>1, <1>2, <1>6, <3>1, <3>2, <3>3 DEF ReplyAt
    <3>4. CASE r.client # c
      BY <1>6, <2>2, <3>1, <3>4 DEF ReplyInv, ReplyAt
    <3> QED
      BY <3>3, <3>4
  <2> QED
    BY <1>2, <2>1, <2>2
<1>11. AppInv' /\ ExecutedInOrder'
  <2>1. ASSUME NEW i \in DOMAIN app PROVE app[i].client \in Clients /\ app[i].seq \in Nat
    <3>1. app[i] \in Request
      BY <1>1
    <3> QED
      BY <3>1 DEF Request
  <2>2. ASSUME NEW i \in DOMAIN app
        PROVE  /\ app[i].seq <= replies'[app[i].client].seq
               /\ app[i].client = c => app[i].seq < m.seq
    <3>1. app[i].seq <= replies[app[i].client].seq /\ replies[app[i].client].seq \in Nat
      BY <2>1, <2>2 DEF AppInv, TypeOK
    <3>2. CASE app[i].client = c
      BY <1>1, <1>2, <1>6, <2>1, <2>2, <3>1, <3>2
    <3>3. CASE app[i].client # c
      BY <1>6, <2>1, <2>2, <3>1, <3>3
    <3> QED
      BY <3>2, <3>3
  <2>3. AppInv'
    BY <1>1, <1>4, <1>6, <2>2 DEF AppInv
  <2>4. ASSUME NEW i \in DOMAIN app', NEW j \in DOMAIN app', i < j,
               app'[i].client = app'[j].client
        PROVE  app'[i].seq < app'[j].seq
    BY <1>1, <1>4, <2>2, <2>4 DEF ExecutedInOrder
  <2> QED
    BY <2>3, <2>4 DEF ExecutedInOrder
<1>12. ResultsMatch'
  BY <1>2, <1>4 DEF ResultsMatch
<1> QED
  BY <1>5, <1>7, <1>8, <1>9, <1>10, <1>11, <1>12 DEF StoredInv, ReplyInv

-----------------------------------------------------------------------------
LEMMA InvInit == Init => Inv
<1> SUFFICES ASSUME Init PROVE Inv
  OBVIOUS
<1> USE DEF Init
<1>1. TypeOK
  BY DEF TypeOK, NoInvoke, NoReply, TimerInit, TimerState
<1>2. LoopInv /\ TimerInv /\ StoredInv
  BY DEF LoopInv, LoopAt, TimerInv, TimerAt, StoredInv, StoredAt, Waiting, NoReply, TimerInit
<1>3. NoFailure /\ RequestInv /\ ReplyInv /\ AppInv /\ ExecutedInOrder /\ ResultsMatch
  BY DEF NoFailure, RequestInv, ReplyInv, AppInv, ExecutedInOrder, ResultsMatch
<1> QED
  BY <1>1, <1>2, <1>3 DEF Inv

LEMMA InvStep == Inv /\ [Next]_vars => Inv'
<1> SUFFICES ASSUME Inv, [Next]_vars PROVE Inv'
  OBVIOUS
<1>1. ASSUME NEW c \in Clients, NEW op \in Ops, Launch(c, op) PROVE Inv'
  BY <1>1, LaunchPreserves
<1>2. ASSUME NEW c \in Clients, NEW op \in Ops, OnInvokeOk(c, op) PROVE Inv'
  BY <1>2, OnInvokeOkEffect, OnInvokeOkPreserves
<1>3. ASSUME NEW c \in Clients, OnInvoke(c) PROVE Inv'
  BY <1>3, OnInvokeEffect, OnInvokePreserves
<1>4. ASSUME NEW c \in Clients, NEW id \in timer[c].tasks, Tick(c, id) \/ Abort(c, id) PROVE Inv'
  BY <1>4, TickAbortPreserves
<1>5. ASSUME NEW c \in Clients, NEW id \in timer[c].queued, OnTimer(c, id) PROVE Inv'
  BY <1>5, OnTimerEffect, OnTimerPreserves
<1>6. ASSUME NEW m \in toClient, OnReply(m) PROVE Inv'
  BY <1>6, OnReplyEffect, OnReplyPreserves
<1>7. ASSUME NEW m, LoseRequest(m) \/ LoseReply(m) PROVE Inv'
  BY <1>7, LosePreserves
<1>8. ASSUME NEW m \in toReplica, OnRequest(m) PROVE Inv'
  BY <1>8, RepeatPreserves, ExecutePreserves
<1>9. CASE UNCHANGED vars
  <2> USE <1>9 DEF vars, Inv
  <2>1. TypeOK'
    BY DEF TypeOK
  <2>2. LoopInv' /\ TimerInv'
    BY DEF LoopInv, LoopAt, TimerInv, TimerAt, Waiting
  <2>5. StoredInv'
    BY DEF StoredInv, StoredAt, Waiting
  <2>3. RequestInv' /\ ReplyInv'
    BY DEF RequestInv, RequestAt, ReplyInv, ReplyAt, Waiting
  <2>4. NoFailure' /\ AppInv' /\ ExecutedInOrder' /\ ResultsMatch'
    BY DEF NoFailure, AppInv, ExecutedInOrder, ResultsMatch
  <2> QED
    BY <2>1, <2>2, <2>3, <2>4, <2>5
<1> QED
  BY <1>1, <1>2, <1>3, <1>4, <1>5, <1>6, <1>7, <1>8, <1>9 DEF Next

(* The inductive invariant holds in every reachable state. *)
THEOREM Invariance == Spec => []Inv
<1>1. QED
  BY InvInit, InvStep, PTL DEF Spec

(***************************************************************************)
(* For any clients, operations and workloads: no session of the protocol   *)
(* ends with an error or a failed assertion, however messages and Timer    *)
(* events are lost, repeated and delayed (unreplicated.rs:84, :99, :112,   *)
(* workload.rs:320).                                                       *)
(***************************************************************************)
THEOREM NeverFails == Spec => []NoFailure
<1>1. Inv => NoFailure
  BY DEF Inv
<1> QED
  BY <1>1, Invariance, PTL

(***************************************************************************)
(* For any clients, operations and workloads: a request is executed at     *)
(* most once and every client's requests in order (unreplicated.rs:174-194)*)
(***************************************************************************)
THEOREM ExecutesInOrder == Spec => []ExecutedInOrder
<1>1. Inv => ExecutedInOrder
  BY DEF Inv
<1> QED
  BY <1>1, Invariance, PTL

(***************************************************************************)
(* For any clients, operations and workloads: every recorded result is the *)
(* result of the close loop's own operation (unreplicated.rs:104-115).     *)
(***************************************************************************)
THEOREM RecordsOwnResults == Spec => []ResultsMatch
<1>1. Inv => ResultsMatch
  BY DEF Inv
<1> QED
  BY <1>1, Invariance, PTL

-----------------------------------------------------------------------------
(***************************************************************************)
(* The protocol implements the service (Service.tla). Most steps stutter;  *)
(* the service sees a call invoked when the session of its client takes    *)
(* the operation, executed when the replica first meets the request, and   *)
(* answered when the session takes the reply.                              *)
(***************************************************************************)

(* The refinement mapping, part by part. *)
AbsLog(a) == [i \in DOMAIN a |-> [client |-> a[i].client, op |-> a[i].op]]

AbsCall(inv, rep, s) ==
  IF inv = NoInvoke THEN [phase |-> "idle"]
  ELSE IF rep.seq = s
  THEN [phase |-> "executed", op |-> inv.op, pos |-> rep.result]
  ELSE [phase |-> "pending", op |-> inv.op]

Recorded(s) == [i \in DOMAIN s |-> [op |-> s[i].op, pos |-> s[i].result]]
Arriving(u, op) == [i \in DOMAIN u |-> [op |-> op, pos |-> u[i]]]
AbsResults(s, u, op) == Recorded(s) \o Arriving(u, op)

AbsCalls == [c \in Clients |-> AbsCall(invoke[c], replies[c], seq[c])]
AllResults == [c \in Clients |-> AbsResults(invocations[c], upcalls[c], attach[c])]

LEMMA AbsVarsAre ==
  /\ Abs!vars = <<AbsLog(app), AbsCalls, AllResults>>
  /\ (Abs!vars)' = <<AbsLog(app'), AbsCalls', AllResults'>>
  BY DEF Abs!vars, AbsLog, AbsCalls, AllResults, AbsCall, AbsResults, Recorded, Arriving

(* Results as the close loop records them, and as the service does. *)
Records == [op : Ops, result : Nat]
Positions == [op : Ops, pos : Nat]

LEMMA ElementsOf == ASSUME NEW S, NEW s \in Seq(S), NEW i \in 1..Len(s) PROVE s[i] \in S
  OBVIOUS

LEMMA SeqOf == ASSUME NEW S, NEW n \in Nat, NEW f \in [1..n -> S] PROVE f \in Seq(S) /\ Len(f) = n /\ DOMAIN f = 1..n
  OBVIOUS

LEMMA SeqsEqual ==
  ASSUME NEW S, NEW a \in Seq(S), NEW b \in Seq(S), Len(a) = Len(b), \A i \in 1..Len(a) : a[i] = b[i]
  PROVE  a = b
  OBVIOUS

LEMMA ConcatOne ==
  ASSUME NEW S, NEW a \in Seq(S), NEW b \in Seq(S), Len(b) = 1
  PROVE  a \o b = Append(a, b[1])
<1>1. b[1] \in S
  BY ElementsOf
<1> DEFINE u == a \o b
           v == Append(a, b[1])
<1>0. u \in Seq(S) /\ Len(u) = Len(a) + Len(b)
      /\ \A i \in 1..Len(a) + Len(b) : u[i] = IF i <= Len(a) THEN a[i] ELSE b[i - Len(a)]
  BY ConcatProperties
<1>2. u \in Seq(S) /\ Len(u) = Len(a) + 1
      /\ \A i \in 1..Len(a) + 1 : u[i] = IF i <= Len(a) THEN a[i] ELSE b[i - Len(a)]
  BY <1>0
<1>3. v \in Seq(S) /\ Len(v) = Len(a) + 1 /\ v[Len(a) + 1] = b[1] /\ \A i \in 1..Len(a) : v[i] = a[i]
  BY <1>1, AppendProperties
<1>4. Len(a) \in Nat
  OBVIOUS
<1> HIDE DEF u, v
<1>5. ASSUME NEW i \in 1..Len(a) + 1 PROVE u[i] = v[i]
  <2>1. CASE i <= Len(a)
    BY <2>1, <1>2, <1>3, <1>4
  <2>2. CASE ~(i <= Len(a))
    <3>1. i = Len(a) + 1 /\ i - Len(a) = 1
      BY <2>2, <1>4
    <3> QED
      BY <2>2, <3>1, <1>2, <1>3
  <2> QED
    BY <2>1, <2>2
<1>6. u = v
  BY <1>2, <1>3, <1>5, SeqsEqual
<1> QED
  BY <1>6 DEF u, v

LEMMA RecordedIs ==
  ASSUME NEW s \in Seq(Records)
  PROVE  /\ Recorded(s) \in Seq(Positions) /\ Len(Recorded(s)) = Len(s)
         /\ \A i \in 1..Len(s) : Recorded(s)[i] = [op |-> s[i].op, pos |-> s[i].result]
<1>1. DOMAIN s = 1..Len(s) /\ Len(s) \in Nat
  OBVIOUS
<1>2. \A i \in 1..Len(s) : s[i] \in Records
  BY ElementsOf
<1>3. Recorded(s) \in [1..Len(s) -> Positions]
  BY <1>1, <1>2 DEF Recorded, Positions, Records
<1> QED
  BY <1>1, <1>3 DEF Recorded

LEMMA NothingArrives ==
  ASSUME NEW s \in Seq(Records), NEW op
  PROVE  AbsResults(s, <<>>, op) = Recorded(s)
<1>1. Recorded(s) \in Seq(Positions)
  BY RecordedIs
<1>2. Arriving(<<>>, op) = <<>>
  BY DEF Arriving
<1> QED
  BY <1>1, <1>2 DEF AbsResults

LEMMA OneArrives ==
  ASSUME NEW s \in Seq(Records), NEW op \in Ops, NEW r \in Nat
  PROVE  AbsResults(s, <<r>>, op) = Append(Recorded(s), [op |-> op, pos |-> r])
<1> DEFINE f == [op |-> op, pos |-> r]
<1>1. Recorded(s) \in Seq(Positions)
  BY RecordedIs
<1>2. Arriving(<<r>>, op) = <<f>>
  BY DEF Arriving
<1>3. <<f>> \in Seq(Positions) /\ Len(<<f>>) = 1 /\ <<f>>[1] = f
  BY DEF Positions
<1> HIDE DEF f
<1>4. Recorded(s) \o <<f>> = Append(Recorded(s), <<f>>[1])
  BY <1>1, <1>3, ConcatOne
<1> QED
  BY <1>2, <1>3, <1>4 DEF AbsResults, f

LEMMA RecordedAppend ==
  ASSUME NEW s \in Seq(Records), NEW op \in Ops, NEW r \in Nat
  PROVE  Recorded(Append(s, [op |-> op, result |-> r])) = Append(Recorded(s), [op |-> op, pos |-> r])
<1> DEFINE e == [op |-> op, result |-> r]
           t == Append(s, e)
           f == [op |-> op, pos |-> r]
<1>1. e \in Records /\ f \in Positions
  BY DEF Records, Positions
<1>2. t \in Seq(Records) /\ Len(t) = Len(s) + 1 /\ Len(s) \in Nat
      /\ (\A i \in 1..Len(s) : t[i] = s[i]) /\ t[Len(s) + 1] = e
  BY <1>1
<1>3. Recorded(s) \in Seq(Positions) /\ Len(Recorded(s)) = Len(s)
      /\ \A i \in 1..Len(s) : Recorded(s)[i] = [op |-> s[i].op, pos |-> s[i].result]
  BY RecordedIs
<1> HIDE DEF t
<1>4. Recorded(t) \in Seq(Positions) /\ Len(Recorded(t)) = Len(t)
      /\ \A i \in 1..Len(t) : Recorded(t)[i] = [op |-> t[i].op, pos |-> t[i].result]
  BY <1>2, RecordedIs
<1>5. DEFINE u == Append(Recorded(s), f)
<1>6. u \in Seq(Positions) /\ Len(u) = Len(s) + 1 /\ u[Len(s) + 1] = f
      /\ \A i \in 1..Len(s) : u[i] = Recorded(s)[i]
  BY <1>1, <1>3
<1> HIDE DEF u
<1>7. ASSUME NEW i \in 1..Len(s) + 1 PROVE Recorded(t)[i] = u[i]
  <2>1. CASE i = Len(s) + 1
    BY <2>1, <1>2, <1>4, <1>6
  <2>2. CASE i # Len(s) + 1
    <3>1. i \in 1..Len(s)
      BY <2>2, <1>2
    <3> QED
      BY <3>1, <1>2, <1>3, <1>4, <1>6
  <2> QED
    BY <2>1, <2>2
<1>8. Recorded(t) = u
  BY <1>2, <1>4, <1>6, <1>7
<1> QED
  BY <1>8 DEF u, t

LEMMA LogIs ==
  ASSUME NEW a \in Seq(Request)
  PROVE  AbsLog(a) \in Seq([client : Clients, op : Ops]) /\ Len(AbsLog(a)) = Len(a)
         /\ \A i \in 1..Len(a) : AbsLog(a)[i] = [client |-> a[i].client, op |-> a[i].op]
<1>1. Len(a) \in Nat /\ DOMAIN a = 1..Len(a)
  OBVIOUS
<1>2. \A i \in 1..Len(a) : a[i] \in Request
  BY ElementsOf
<1>3. AbsLog(a) \in [1..Len(a) -> [client : Clients, op : Ops]]
  BY <1>1, <1>2 DEF AbsLog, Request
<1> QED
  BY <1>1, <1>3, SeqOf DEF AbsLog

LEMMA LogAppend ==
  ASSUME NEW a \in Seq(Request), NEW e \in Request
  PROVE  AbsLog(Append(a, e)) = AbsLog(a) \o [i \in 1..1 |-> [client |-> e.client, op |-> e.op]]
<1> DEFINE t == Append(a, e)
           E == [client : Clients, op : Ops]
           n == [i \in 1..1 |-> [client |-> e.client, op |-> e.op]]
<1>1. t \in Seq(Request) /\ Len(t) = Len(a) + 1 /\ t[Len(a) + 1] = e /\ \A i \in 1..Len(a) : t[i] = a[i]
  BY AppendProperties
<1>2. AbsLog(a) \in Seq(E) /\ Len(AbsLog(a)) = Len(a)
      /\ \A i \in 1..Len(a) : AbsLog(a)[i] = [client |-> a[i].client, op |-> a[i].op]
  BY LogIs
<1> HIDE DEF t
<1>3. AbsLog(t) \in Seq(E) /\ Len(AbsLog(t)) = Len(t)
      /\ \A i \in 1..Len(t) : AbsLog(t)[i] = [client |-> t[i].client, op |-> t[i].op]
  BY <1>1, LogIs
<1>4. n \in [1..1 -> E] /\ n[1] = [client |-> e.client, op |-> e.op]
  BY DEF Request
<1> HIDE DEF n
<1> HIDE DEF E
<1>5. n \in Seq(E) /\ Len(n) = 1 /\ n[1] \in E
  <2>1. 1 \in Nat /\ 1 \in 1..1
    OBVIOUS
  <2>2. n \in Seq(E) /\ Len(n) = 1
    BY <1>4, <2>1, SeqOf
  <2> QED
    BY <1>4, <2>1, <2>2
<1> DEFINE v == Append(AbsLog(a), n[1])
<1>6. v \in Seq(E) /\ Len(v) = Len(a) + 1 /\ v[Len(a) + 1] = n[1] /\ \A i \in 1..Len(a) : v[i] = AbsLog(a)[i]
  BY <1>2, <1>5, AppendProperties
<1>7. AbsLog(a) \o n = v
  BY <1>2, <1>5, ConcatOne
<1>8. Len(a) \in Nat
  OBVIOUS
<1> HIDE DEF v
<1>9. ASSUME NEW i \in 1..Len(a) + 1 PROVE AbsLog(t)[i] = v[i]
  <2>1. CASE i = Len(a) + 1
    BY <2>1, <1>1, <1>3, <1>4, <1>6
  <2>2. CASE i # Len(a) + 1
    <3>1. i \in 1..Len(a)
      BY <2>2, <1>8
    <3> QED
      BY <3>1, <1>1, <1>2, <1>3, <1>6
  <2> QED
    BY <2>1, <2>2
<1>10. AbsLog(t) = v
  BY <1>1, <1>3, <1>6, <1>9, SeqsEqual
<1> QED
  BY <1>7, <1>10 DEF t, n

(* A step of the protocol that the service does not see. *)
LEMMA Unseen ==
  ASSUME Inv, Inv', app' = app,
         \A c \in Clients : AbsCall(invoke'[c], replies'[c], seq'[c]) = AbsCall(invoke[c], replies[c], seq[c]),
         \A c \in Clients : AbsResults(invocations'[c], upcalls'[c], attach'[c])
                              = AbsResults(invocations[c], upcalls[c], attach[c])
  PROVE  UNCHANGED Abs!vars
<1>1. AbsCalls' = AbsCalls /\ AllResults' = AllResults
  BY DEF AbsCalls, AllResults
<1> QED
  BY <1>1, AbsVarsAre

LEMMA RecordsAre ==
  ASSUME Inv, NEW c \in Clients
  PROVE  invocations[c] \in Seq(Records) /\ replies[c].result \in Nat
  BY DEF Inv, TypeOK, Records

LEMMA LaunchUnseen ==
  ASSUME Inv, Inv', NEW c \in Clients, NEW op \in Ops, Launch(c, op)
  PROVE  UNCHANGED Abs!vars
<1>1. /\ UNCHANGED <<invocations, upcalls, seq, invoke, replies, app>> /\ upcalls[c] = <<>>
      /\ \A d \in Clients : d # c => attach'[d] = attach[d]
  BY DEF Launch, clientVars, replicaVars, Inv, TypeOK
<1>2. ASSUME NEW d \in Clients
      PROVE  AbsResults(invocations'[d], upcalls'[d], attach'[d])
               = AbsResults(invocations[d], upcalls[d], attach[d])
  <2>1. CASE d = c
    <3>1. AbsResults(invocations[c], <<>>, attach[c]) = Recorded(invocations[c])
      BY RecordsAre, NothingArrives
    <3>2. AbsResults(invocations[c], <<>>, attach'[c]) = Recorded(invocations[c])
      BY RecordsAre, NothingArrives
    <3> QED
      BY <1>1, <2>1, <3>1, <3>2
  <2>2. CASE d # c
    BY <1>1, <2>2
  <2> QED
    BY <2>1, <2>2
<1> QED
  BY <1>1, <1>2, Unseen

LEMMA InvokeOkUnseen ==
  ASSUME Inv, Inv', NEW c \in Clients, NEW op \in Ops, InvokeOkEffect(c, op)
  PROVE  UNCHANGED Abs!vars
<1> DEFINE r == replies[c].result
           s == invocations[c]
           e == [op |-> attach[c], result |-> r]
<1>1. /\ UNCHANGED <<seq, invoke, replies, app>> /\ upcalls[c] = <<r>> /\ attach[c] \in Ops
      /\ upcalls'[c] = <<>> /\ invocations'[c] = Append(s, e)
      /\ \A d \in Clients : d # c => /\ attach'[d] = attach[d] /\ upcalls'[d] = upcalls[d]
                                     /\ invocations'[d] = invocations[d]
  BY DEF InvokeOkEffect, Inv, TypeOK
<1>2. s \in Seq(Records) /\ r \in Nat
  BY RecordsAre
<1>3. e \in Records
  BY <1>1, <1>2 DEF Records
<1>4. Append(s, e) \in Seq(Records)
  BY <1>2, <1>3, AppendType
<1>5. AbsResults(s, <<r>>, attach[c]) = Append(Recorded(s), [op |-> attach[c], pos |-> r])
  BY <1>1, <1>2, OneArrives
<1>6. Recorded(Append(s, e)) = Append(Recorded(s), [op |-> attach[c], pos |-> r])
  BY <1>1, <1>2, RecordedAppend
<1>7. AbsResults(Append(s, e), <<>>, attach'[c]) = Recorded(Append(s, e))
  BY <1>4, NothingArrives
<1>8. ASSUME NEW d \in Clients
      PROVE  AbsResults(invocations'[d], upcalls'[d], attach'[d])
               = AbsResults(invocations[d], upcalls[d], attach[d])
  <2>1. CASE d = c
    BY <1>1, <2>1, <1>5, <1>6, <1>7
  <2>2. CASE d # c
    BY <1>1, <2>2
  <2> QED
    BY <2>1, <2>2
<1> QED
  BY <1>1, <1>8, Unseen

(* Invoke: the client's session takes the operation. *)
LEMMA InvokeSeen ==
  ASSUME Inv, Inv', NEW c \in Clients, InvokeEffect(c), NEW op, op = attach[c]
  PROVE  Abs!Invoke(c, op)
<1>1. UNCHANGED <<attach, invocations, upcalls, replies, app>> /\ attach[c] \in Ops /\ invoke[c] = NoInvoke
      /\ \A d \in Clients : d # c => invoke'[d] = invoke[d] /\ seq'[d] = seq[d]
  BY DEF InvokeEffect, Waiting, Inv, TypeOK
<1>2. invoke'[c].op = attach[c] /\ invoke'[c] # NoInvoke
  BY <1>1, NoneAssumption DEF InvokeEffect, NoInvoke, Inv, TypeOK
<1>3. replies[c].seq = seq[c] /\ seq'[c] = seq[c] + 1 /\ seq[c] \in Nat
  BY <1>1 DEF InvokeEffect, Inv, StoredInv, StoredAt, Waiting, TypeOK
<1>4. replies'[c].seq # seq'[c]
  BY <1>1, <1>3
<1>5. AbsCall(invoke[c], replies[c], seq[c]) = [phase |-> "idle"]
  BY <1>1 DEF AbsCall
<1>6. AbsCall(invoke'[c], replies'[c], seq'[c]) = [phase |-> "pending", op |-> attach[c]]
  BY <1>2, <1>4 DEF AbsCall
<1>7. AbsCalls[c] = Abs!Idle
  BY <1>5 DEF AbsCalls, Abs!Idle
<1>8. AbsCalls' = [AbsCalls EXCEPT ![c] = Abs!Pending(op)]
  BY <1>1, <1>6 DEF AbsCalls, Abs!Pending
<1>9. AllResults' = AllResults
  BY <1>1 DEF AllResults
<1>10. Abs!Invoke(c, op) <=>
         /\ AbsCalls[c] = Abs!Idle
         /\ AbsCalls' = [AbsCalls EXCEPT ![c] = Abs!Pending(op)]
         /\ UNCHANGED <<AbsLog(app), AllResults>>
  BY DEF Abs!Invoke, AbsLog, AbsCalls, AllResults, AbsCall, AbsResults, Recorded, Arriving
<1> QED
  BY <1>1, <1>7, <1>8, <1>9, <1>10

(* Respond: the client's session takes the reply. *)
LEMMA RespondSeen ==
  ASSUME Inv, Inv', NEW c, ReplyEffect(c)
  PROVE  Abs!Respond(c)
<1> DEFINE r == replies[c].result
           s == invocations[c]
<1>1. /\ UNCHANGED <<attach, invocations, seq, replies, app>> /\ attach[c] \in Ops /\ invoke[c] # NoInvoke
      /\ invoke[c].op = attach[c] /\ replies[c].seq = seq[c] /\ invoke'[c] = NoInvoke /\ c \in Clients
      /\ upcalls[c] = <<>> /\ upcalls'[c] = <<r>>
      /\ \A d \in Clients : d # c => invoke'[d] = invoke[d] /\ upcalls'[d] = upcalls[d]
  BY DEF ReplyEffect, Waiting, Inv, TypeOK
<1>2. s \in Seq(Records) /\ r \in Nat
  BY <1>1, RecordsAre
<1>3. AbsCall(invoke[c], replies[c], seq[c]) = [phase |-> "executed", op |-> attach[c], pos |-> r]
  BY <1>1 DEF AbsCall
<1>4. AbsCall(invoke'[c], replies'[c], seq'[c]) = [phase |-> "idle"]
  BY <1>1 DEF AbsCall
<1>5. AbsResults(s, <<>>, attach[c]) = Recorded(s)
  BY <1>2, NothingArrives
<1>6. AbsResults(s, <<r>>, attach[c]) = Append(Recorded(s), [op |-> attach[c], pos |-> r])
  BY <1>1, <1>2, OneArrives
<1>7. AbsCalls[c].phase = "executed" /\ AbsCalls[c].op = attach[c] /\ AbsCalls[c].pos = r
  BY <1>1, <1>3 DEF AbsCalls
<1>8. AbsCalls' = [AbsCalls EXCEPT ![c] = Abs!Idle]
  BY <1>1, <1>4 DEF AbsCalls, Abs!Idle
<1>9. AllResults' = [AllResults EXCEPT ![c] =
                       Append(AllResults[c], [op |-> AbsCalls[c].op, pos |-> AbsCalls[c].pos])]
  BY <1>1, <1>5, <1>6, <1>7 DEF AllResults
<1>10. Abs!Respond(c) <=>
         /\ AbsCalls[c].phase = "executed"
         /\ AllResults' = [AllResults EXCEPT ![c] =
                             Append(AllResults[c], [op |-> AbsCalls[c].op, pos |-> AbsCalls[c].pos])]
         /\ AbsCalls' = [AbsCalls EXCEPT ![c] = Abs!Idle]
         /\ UNCHANGED AbsLog(app)
  BY DEF Abs!Respond, AbsLog, AbsCalls, AllResults, AbsCall, AbsResults, Recorded, Arriving
<1> QED
  BY <1>1, <1>7, <1>8, <1>9, <1>10

(* The order of one call. *)
Alone(c) == [i \in 1..1 |-> c]

LEMMA AloneIsOrder == ASSUME NEW c \in Clients PROVE Alone(c) \in Abs!Orders
<1>1. Cardinality(Clients) \in Nat /\ Cardinality(Clients) # 0
  BY ClientsAssumption, FS_CardinalityType, FS_EmptySet
<1>2. 1 \in 1..Cardinality(Clients)
  BY <1>1
<1>3. Alone(c) \in [1..1 -> Clients]
  BY DEF Alone
<1>4. Alone(c) \in UNION {[1..k -> Clients] : k \in 1..Cardinality(Clients)}
  BY <1>2, <1>3
<1>5. \A i, j \in DOMAIN Alone(c) : Alone(c)[i] = Alone(c)[j] => i = j
  BY DEF Alone
<1>6. Abs!Orders = {order \in UNION {[1..k -> Clients] : k \in 1..Cardinality(Clients)} :
                      \A i, j \in DOMAIN order : order[i] = order[j] => i = j}
  BY Zenon DEF Abs!Orders, Abs!Cardinality, Cardinality
<1> QED
  BY <1>4, <1>5, <1>6, Zenon

(* Execute: the replica meets the request for the first time. *)
LEMMA ExecuteSeen ==
  ASSUME Inv, Inv', NEW m \in toReplica, OnRequest(m), replies[m.client].seq # m.seq
  PROVE  Abs!Execute(Alone(m.client))
<1> DEFINE c == m.client
           order == Alone(c)
<1>1. m \in Request /\ c \in Clients /\ replies[c].seq \in Nat /\ m.seq \in Nat /\ seq[c] \in Nat /\ app \in Seq(Request)
  BY DEF Inv, TypeOK, Request
<1>2. replies[c].seq < m.seq
  BY <1>1 DEF OnRequest
<1>3. m.seq <= seq[c] /\ seq[c] <= replies[c].seq + 1
  BY <1>1 DEF Inv, RequestInv, RequestAt, StoredInv, StoredAt
<1>4. m.seq = seq[c]
  BY <1>1, <1>2, <1>3
<1>5. Waiting(c) /\ m.op = invoke[c].op
  BY <1>1, <1>2, <1>4 DEF Inv, RequestInv, RequestAt, StoredInv, StoredAt
<1>6. /\ app' = Append(app, m)
      /\ replies' = [replies EXCEPT ![c] = [seq |-> m.seq, result |-> Len(app) + 1]]
      /\ UNCHANGED <<attach, invocations, upcalls, seq, invoke>>
  <2>1. m = [client |-> m.client, seq |-> m.seq, op |-> m.op]
    BY <1>1 DEF Request
  <2> QED
    BY <2>1 DEF OnRequest, loopVars, clientVars
<1>7. replies'[c] = [seq |-> m.seq, result |-> Len(app) + 1] /\ \A d \in Clients : d # c => replies'[d] = replies[d]
  BY <1>1, <1>6 DEF Inv, TypeOK
<1>8. AbsCall(invoke[c], replies[c], seq[c]) = [phase |-> "pending", op |-> m.op]
  BY <1>2, <1>4, <1>5 DEF AbsCall, Waiting
<1>9. AbsCall(invoke'[c], replies'[c], seq'[c]) = [phase |-> "executed", op |-> m.op, pos |-> Len(app) + 1]
  BY <1>4, <1>5, <1>6, <1>7 DEF AbsCall, Waiting
<1>10. AbsCalls[c] = [phase |-> "pending", op |-> m.op]
  BY <1>1, <1>8 DEF AbsCalls
<1>11. DOMAIN order = 1..1 /\ order[1] = c /\ \A i \in DOMAIN order : order[i] = c
  BY DEF Alone
<1>12. \A i \in DOMAIN order : AbsCalls[order[i]].phase = "pending"
  BY <1>10, <1>11
<1>13. AbsLog(app') = AbsLog(app) \o [i \in DOMAIN order |-> [client |-> order[i], op |-> AbsCalls[order[i]].op]]
  <2>1. AbsLog(app') = AbsLog(app) \o [i \in 1..1 |-> [client |-> c, op |-> m.op]]
    BY <1>1, <1>6, LogAppend
  <2>2. [i \in DOMAIN order |-> [client |-> order[i], op |-> AbsCalls[order[i]].op]]
          = [i \in 1..1 |-> [client |-> c, op |-> m.op]]
    BY <1>10, <1>11
  <2> QED
    BY <2>1, <2>2
<1>14. AllResults' = AllResults
  BY <1>6 DEF AllResults
<1> DEFINE At(d) == {i \in DOMAIN order : order[i] = d}
<1>15. At(c) = {1} /\ \A d \in Clients : d # c => At(d) = {}
  BY <1>11
<1>16. (CHOOSE i \in At(c) : TRUE) = 1
  BY <1>15
<1>17. Len(AbsLog(app)) = Len(app)
  BY <1>1, LogIs
<1>18. ASSUME NEW d \in Clients
       PROVE  AbsCalls'[d] = IF At(d) = {} THEN AbsCalls[d]
                             ELSE Abs!Executed(AbsCalls[d].op, Len(AbsLog(app)) + CHOOSE i \in At(d) : TRUE)
  <2>1. CASE d = c
    <3>1. AbsCalls'[c] = [phase |-> "executed", op |-> m.op, pos |-> Len(app) + 1]
      BY <1>1, <1>9 DEF AbsCalls
    <3>2. Abs!Executed(m.op, Len(AbsLog(app)) + 1) = [phase |-> "executed", op |-> m.op, pos |-> Len(app) + 1]
      BY <1>17 DEF Abs!Executed
    <3>3. AbsCalls[c].op = m.op
      BY <1>10
    <3>4. At(c) # {}
      BY <1>15
    <3> HIDE DEF At
    <3> QED
      BY <2>1, <3>1, <3>2, <3>3, <3>4, <1>16
  <2>2. CASE d # c
    <3>1. AbsCalls'[d] = AbsCalls[d]
      BY <2>2, <1>6, <1>7 DEF AbsCalls
    <3> QED
      BY <2>2, <3>1, <1>15
  <2> QED
    BY <2>1, <2>2
<1>19. AbsCalls' = [d \in Clients |->
                     IF At(d) = {} THEN AbsCalls[d]
                     ELSE Abs!Executed(AbsCalls[d].op, Len(AbsLog(app)) + CHOOSE i \in At(d) : TRUE)]
  <2>1. AbsCalls' = [d \in Clients |-> AbsCalls'[d]]
    BY DEF AbsCalls
  <2> HIDE DEF At
  <2> QED
    BY <2>1, <1>18
<1>20. Abs!Execute(order) <=>
         /\ \A i \in DOMAIN order : AbsCalls[order[i]].phase = "pending"
         /\ AbsLog(app') = AbsLog(app) \o [i \in DOMAIN order |-> [client |-> order[i], op |-> AbsCalls[order[i]].op]]
         /\ AbsCalls' = [d \in Clients |->
                     IF At(d) = {} THEN AbsCalls[d]
                     ELSE Abs!Executed(AbsCalls[d].op, Len(AbsLog(app)) + CHOOSE i \in At(d) : TRUE)]
         /\ UNCHANGED AllResults
  BY DEF Abs!Execute, AbsLog, AbsCalls, AllResults, AbsCall, AbsResults, Recorded, Arriving
<1> QED
  BY <1>12, <1>13, <1>14, <1>19, <1>20

LEMMA StepImplements == ASSUME Inv, Inv', [Next]_vars PROVE [Abs!Next]_(Abs!vars)
<1>1. ASSUME NEW c \in Clients, NEW op \in Ops, Launch(c, op) PROVE UNCHANGED Abs!vars
  BY <1>1, LaunchUnseen
<1>2. ASSUME NEW c \in Clients, NEW op \in Ops, OnInvokeOk(c, op) PROVE UNCHANGED Abs!vars
  BY <1>2, OnInvokeOkEffect, InvokeOkUnseen
<1>3. ASSUME NEW c \in Clients, OnInvoke(c) PROVE Abs!Next
  <2>1. InvokeEffect(c)
    BY <1>3, OnInvokeEffect
  <2>2. attach[c] \in Ops
    BY <2>1 DEF InvokeEffect
  <2>3. PICK op \in Ops : op = attach[c]
    BY <2>2
  <2>4. Abs!Invoke(c, op)
    BY <2>1, <2>3, InvokeSeen
  <2> QED
    BY <2>4 DEF Abs!Next
<1>4. ASSUME NEW c \in Clients, NEW id \in timer[c].tasks, Tick(c, id) \/ Abort(c, id) PROVE UNCHANGED Abs!vars
  BY <1>4, Unseen DEF Tick, Abort, loopVars, replicaVars
<1>5. ASSUME NEW c \in Clients, NEW id \in timer[c].queued, OnTimer(c, id) PROVE UNCHANGED Abs!vars
  BY <1>5, Unseen DEF OnTimer, loopVars, replicaVars
<1>6. ASSUME NEW m \in toClient, OnReply(m) PROVE Abs!Next
  <2>1. ReplyEffect(m.client)
    BY <1>6, OnReplyEffect
  <2>2. m.client \in Clients
    BY <2>1 DEF ReplyEffect
  <2>3. Abs!Respond(m.client)
    BY <2>1, RespondSeen
  <2> QED
    BY <2>2, <2>3 DEF Abs!Next
<1>7. ASSUME NEW m, LoseRequest(m) \/ LoseReply(m) PROVE UNCHANGED Abs!vars
  BY <1>7, Unseen DEF LoseRequest, LoseReply, loopVars, clientVars, replicaVars
<1>8. ASSUME NEW m \in toReplica, OnRequest(m) PROVE Abs!Next \/ UNCHANGED Abs!vars
  <2>1. CASE replies[m.client].seq = m.seq
    BY <1>8, <2>1, Unseen DEF OnRequest, loopVars, clientVars, replicaVars
  <2>2. CASE replies[m.client].seq # m.seq
    <3>1. Abs!Execute(Alone(m.client))
      BY <1>8, <2>2, ExecuteSeen
    <3>2. Alone(m.client) \in Abs!Orders
      BY AloneIsOrder DEF Inv, TypeOK, Request
    <3> QED
      BY <3>1, <3>2 DEF Abs!Next
  <2> QED
    BY <2>1, <2>2
<1>9. CASE UNCHANGED vars
  BY <1>9, Unseen DEF vars
<1> QED
  BY <1>1, <1>2, <1>3, <1>4, <1>5, <1>6, <1>7, <1>8, <1>9 DEF Next

LEMMA InitImplements == Init => Abs!Init
<1> SUFFICES ASSUME Init PROVE Abs!Init
  OBVIOUS
<1>1. AbsLog(app) = <<>>
  BY DEF Init, AbsLog
<1>2. AbsCalls = [c \in Clients |-> Abs!Idle]
  BY DEF Init, AbsCalls, AbsCall, Abs!Idle
<1>3. <<>> \in Seq(Records) /\ Recorded(<<>>) = <<>>
  BY DEF Recorded
<1>4. \A c \in Clients : AbsResults(invocations[c], upcalls[c], attach[c]) = <<>>
  BY <1>3, NothingArrives DEF Init
<1>5. AllResults = [c \in Clients |-> <<>>]
  BY <1>4 DEF AllResults
<1>6. Abs!Init <=> AbsLog(app) = <<>> /\ AbsCalls = [c \in Clients |-> Abs!Idle] /\ AllResults = [c \in Clients |-> <<>>]
  BY DEF Abs!Init, AbsLog, AbsCalls, AllResults, AbsCall, AbsResults, Recorded, Arriving
<1> QED
  BY <1>1, <1>2, <1>5, <1>6

(***************************************************************************)
(* The protocol implements the service, for any clients, workloads,        *)
(* losses, repetitions and timers: each operation of a client is executed  *)
(* once, at one place of one log, and the client records the place at      *)
(* which it was executed (unreplicated.rs).                                *)
(***************************************************************************)
THEOREM ImplementsService == Spec => ServiceSpec
<1>1. Spec => []Inv
  BY Invariance
<1>2. Inv /\ Inv' /\ [Next]_vars => [Abs!Next]_(Abs!vars)
  BY StepImplements
<1> QED
  BY <1>1, <1>2, InitImplements, PTL DEF Spec, ServiceSpec, Abs!Spec

-----------------------------------------------------------------------------
(***************************************************************************)
(* Countdown: the operations that remain are handed out by compare and     *)
(* exchange.                                                               *)
(***************************************************************************)

(* The inductive invariant: a sharer that is about to exchange has seen a  *)
(* count that was never less than it is now, so that it cannot take from   *)
(* zero; one that is done has seen zero.                                   *)
CountInv ==
  /\ remainCount \in 0..Count
  /\ seen \in [Sharers -> Nat]
  /\ at \in [Sharers -> {"idle", "trying", "done"}]
  /\ taken \in [Sharers -> 0..Count]
  /\ TakenBy(Sharers) + remainCount = Count
  /\ \A w \in Sharers :
       /\ at[w] = "trying" => remainCount <= seen[w]
       /\ at[w] = "done" => remainCount = 0

(* The operations that were given. *)
Given == {e \in Sharers \X (1..Count) : e[2] <= taken[e[1]]}

LEMMA GivenFinite == IsFiniteSet(Given) /\ Cardinality(Given) \in Nat /\ TakenBy(Sharers) = Cardinality(Given)
<1>1. IsFiniteSet(1..Count)
  BY FS_Interval, CountAssumption
<1>2. IsFiniteSet(Sharers \X (1..Count))
  BY <1>1, SharersAssumption, FS_Product
<1>3. Given \in SUBSET (Sharers \X (1..Count))
  BY DEF Given
<1>4. IsFiniteSet(Given)
  BY <1>2, <1>3, FS_Subset
<1> QED
  BY <1>4, FS_CardinalityType DEF TakenBy, Given

(* While something remains, nobody was given all. *)
LEMMA NotAllGiven ==
  ASSUME CountInv, remainCount # 0, NEW w \in Sharers
  PROVE  taken[w] < Count
<1> SUFFICES ASSUME taken[w] = Count PROVE FALSE
  BY CountAssumption DEF CountInv
<1> DEFINE all == {w} \X (1..Count)
<1>1. all \in SUBSET Given
  BY CountAssumption DEF Given
<1>2. IsFiniteSet({w}) /\ Cardinality({w}) = 1
  BY FS_Singleton
<1>3. IsFiniteSet(1..Count) /\ Cardinality(1..Count) = Count
  BY FS_Interval, CountAssumption
<1>4. Cardinality(all) = 1 * Count
  BY <1>2, <1>3, FS_Product
<1> HIDE DEF all
<1>5. Cardinality(all) <= Cardinality(Given)
  BY <1>1, GivenFinite, FS_Subset
<1> QED
  BY <1>4, <1>5, GivenFinite, CountAssumption DEF CountInv

LEMMA OneMoreGiven ==
  ASSUME CountInv, NEW w \in Sharers, taken[w] < Count, taken' = [taken EXCEPT ![w] = @ + 1]
  PROVE  TakenBy(Sharers)' = TakenBy(Sharers) + 1
<1> DEFINE e == <<w, taken[w] + 1>>
<1>1. taken[w] \in 0..Count /\ e \in Sharers \X (1..Count) /\ e \notin Given
  BY CountAssumption DEF CountInv, Given
<1>2. Given' = Given \cup {e}
  <2>1. \A x \in Sharers \X (1..Count) : x[2] <= taken'[x[1]] <=> (x[2] <= taken[x[1]] \/ x = e)
    <3> SUFFICES ASSUME NEW v \in Sharers, NEW i \in 1..Count
                 PROVE  i <= taken'[v] <=> (i <= taken[v] \/ (v = w /\ i = taken[w] + 1))
      OBVIOUS
    <3>1. CASE v = w
      BY <3>1, CountAssumption DEF CountInv
    <3>2. CASE v # w
      BY <3>2, CountAssumption DEF CountInv
    <3> QED
      BY <3>1, <3>2
  <2> QED
    BY <1>1, <2>1 DEF Given
<1> HIDE DEF e
<1>3. Cardinality(Given \cup {e}) = Cardinality(Given) + 1
  BY <1>1, GivenFinite, FS_AddElement
<1>4. TakenBy(Sharers)' = Cardinality(Given')
  BY DEF TakenBy, Given
<1> QED
  BY <1>2, <1>3, <1>4, GivenFinite

(***************************************************************************)
(* Every state that the sharers' loads and exchanges can reach satisfies   *)
(* CountInv, whatever a sharer does between the load of remain_count and   *)
(* its exchange.                                                           *)
(***************************************************************************)
THEOREM CountInvariance == CountSpec => []CountInv
<1>1. CountInit => CountInv
  <2> SUFFICES ASSUME CountInit PROVE CountInv
    OBVIOUS
  <2>1. Given = {}
    BY CountAssumption DEF CountInit, Given
  <2>2. TakenBy(Sharers) = 0
    BY <2>1, GivenFinite, FS_EmptySet
  <2> QED
    BY <2>2, CountAssumption DEF CountInit, CountInv
<1>2. CountInv /\ [CountNext]_countVars => CountInv'
  <2> SUFFICES ASSUME CountInv, [CountNext]_countVars PROVE CountInv'
    OBVIOUS
  <2>1. ASSUME taken' = taken PROVE TakenBy(Sharers)' = TakenBy(Sharers)
    BY <2>1 DEF TakenBy
  <2>2. CASE UNCHANGED countVars
    BY <2>1, <2>2 DEF countVars, CountInv
  <2>3. ASSUME NEW w \in Sharers, Load(w) PROVE CountInv'
    BY <2>1, <2>3, CountAssumption DEF Load, CountInv
  <2>4. ASSUME NEW w \in Sharers, GiveUp(w) PROVE CountInv'
    BY <2>1, <2>4, CountAssumption DEF GiveUp, CountInv
  <2>5. ASSUME NEW w \in Sharers, Take(w) PROVE CountInv'
    <3>1. remainCount # 0 /\ taken[w] < Count
      BY <2>5, NotAllGiven DEF Take
    <3>2. TakenBy(Sharers)' = TakenBy(Sharers) + 1
      BY <2>5, <3>1, OneMoreGiven DEF Take
    <3>3. TakenBy(Sharers) \in Nat
      BY GivenFinite
    <3> HIDE DEF CountInv
    <3>4. remainCount' = remainCount - 1 /\ remainCount \in 1..Count
      BY <2>5, <3>1, CountAssumption DEF Take, CountInv
    <3>5. TakenBy(Sharers)' + remainCount' = Count
      BY <3>2, <3>3, <3>4, CountAssumption DEF CountInv
    <3>6. taken' \in [Sharers -> 0..Count] /\ remainCount' \in 0..Count
      BY <2>5, <3>1, <3>4, CountAssumption DEF Take, CountInv
    <3>7. \A v \in Sharers : /\ at'[v] = "trying" => remainCount' <= seen'[v]
                             /\ at'[v] = "done" => remainCount' = 0
      BY <2>5, <3>4, CountAssumption DEF Take, CountInv
    <3> QED
      BY <2>5, <3>5, <3>6, <3>7 DEF Take, CountInv
  <2>6. ASSUME NEW w \in Sharers, Retry(w) PROVE CountInv'
    BY <2>1, <2>6, CountAssumption DEF Retry, CountInv
  <2> QED
    BY <2>2, <2>3, <2>4, <2>5, <2>6 DEF CountNext
<1> QED
  BY <1>1, <1>2, PTL DEF CountSpec

(***************************************************************************)
(* What was given out and what remains are the count at all times: a       *)
(* workload shared by any number of close loops (Total, app.rs) gives out  *)
(* each operation once, does not wrap below zero and ends when none is     *)
(* left.                                                                   *)
(***************************************************************************)
THEOREM SharesTheCount == CountSpec => []CountShared
<1>1. CountInv => CountShared
  BY CountAssumption DEF CountInv, CountShared
<1> QED
  BY <1>1, CountInvariance, PTL

-----------------------------------------------------------------------------
(***************************************************************************)
(* Ycsb: the insert numbers that loops share.                              *)
(***************************************************************************)

(* The operations a loop can be waiting for. *)
YcsbOps ==
  [kind : {"read", "update", "scan", "insert"}, num : Nat, found : {TRUE, Nil}]

(* What was acknowledged was stored and is all that there is below the     *)
(* frontier; what is beyond it waits in ahead.                             *)
AckedRight ==
  /\ nextNum \in Nat /\ frontier \in Nat /\ RecordCount <= frontier
  /\ acked \subseteq 0..(nextNum - 1) /\ acked \subseteq records
  /\ \A n \in Nat : n < frontier => n \in acked
  /\ frontier \notin acked
  /\ ahead = {n \in acked : n > frontier}

(* An operation under way reads or updates below the frontier; an insert   *)
(* has a number that was handed out and is not acknowledged.               *)
OpRight(l) ==
  ycsbOp[l] # Nil =>
    /\ ycsbOp[l] \in YcsbOps /\ started[l]
    /\ ycsbOp[l].kind \in {"read", "update"} => ycsbOp[l].num < frontier
    /\ ycsbOp[l].kind = "insert" =>
         /\ ycsbOp[l].num < nextNum /\ ycsbOp[l].num \notin acked
         /\ ycsbOp[l].found # Nil => ycsbOp[l].num \in records

Inserts(l) == ycsbOp[l] # Nil /\ ycsbOp[l].kind = "insert"

(* The inductive invariant. No two loops insert the same number: without   *)
(* it an acknowledgement could meet a number that is acknowledged already. *)
YcsbInv ==
  /\ AckedRight
  /\ DOMAIN ycsbOp = YcsbLoops /\ DOMAIN rmwUpdate = YcsbLoops /\ started \in [YcsbLoops -> BOOLEAN]
  /\ \A l \in YcsbLoops : OpRight(l)
  /\ \A l, m \in YcsbLoops : Inserts(l) /\ Inserts(m) /\ ycsbOp[l].num = ycsbOp[m].num => l = m
  /\ \A l \in YcsbLoops : rmwUpdate[l] # Nil =>
       started[l] /\ rmwUpdate[l] \in Nat /\ rmwUpdate[l] < frontier
  /\ bails = {}

LEMMA AheadFinite ==
  ASSUME AckedRight
  PROVE  IsFiniteSet(ahead) /\ Cardinality(ahead) \in Nat
<1>1. ahead \in SUBSET Nat /\ \A n \in ahead : n <= nextNum
  <2> SUFFICES ASSUME NEW n \in ahead PROVE n \in Nat /\ n <= nextNum
    OBVIOUS
  <2>1. n \in 0..(nextNum - 1) /\ nextNum \in Nat
    BY DEF AckedRight
  <2> QED
    BY <2>1
<1> QED
  BY <1>1, FS_BoundedSetOfNaturals, FS_CardinalityType DEF AckedRight

(* The loop that advances the frontier stops at the least number not       *)
(* acknowledged.                                                           *)
LEMMA NextFree ==
  ASSUME AckedRight, NEW n \in Nat
  PROVE  \E m \in n..(n + Cardinality(ahead) + 1) :
           /\ m > n /\ m \notin ahead
           /\ \A k \in n..(m - 1) : ~(k > n /\ k \notin ahead)
<1> DEFINE c == Cardinality(ahead)
           I == (n + 1)..(n + c + 1)
           free == {m \in I : m \notin ahead}
<1>1. IsFiniteSet(ahead) /\ c \in Nat
  BY AheadFinite
<1>2. free # {}
  <2> SUFFICES ASSUME free = {} PROVE FALSE
    OBVIOUS
  <2>1. I \in SUBSET ahead
    OBVIOUS
  <2>2. Cardinality(I) = c + 1
    <3> HIDE DEF c
    <3>1. n + 1 \in Int /\ n + c + 1 \in Int /\ ~(n + 1 > n + c + 1)
      BY <1>1
    <3> QED
      BY <1>1, <3>1, FS_Interval
  <2>3. Cardinality(I) <= c
    BY <1>1, <2>1, FS_Subset
  <2> QED
    BY <1>1, <2>2, <2>3
<1>3. free \subseteq Nat
  BY <1>1
<1>4. PICK m \in free : \A k \in free : ~(<<k, m>> \in OpToRel(<, Nat))
  BY <1>2, <1>3, WFMin, NatLessThanWellFounded
<1>5. m \in I /\ m \notin ahead /\ m \in Nat
  BY <1>3
<1> HIDE DEF c
<1>6. m \in n..(n + c + 1) /\ m > n
  BY <1>1, <1>5
<1>7. ASSUME NEW k \in n..(m - 1), k > n, k \notin ahead PROVE FALSE
  <2>1. k \in Nat /\ k < m /\ k \in I
    BY <1>1, <1>5, <1>7
  <2>2. k \in free
    BY <1>7, <2>1
  <2> QED
    BY <1>4, <1>5, <2>1, <2>2 DEF OpToRel
<1> QED
  BY <1>5, <1>6, <1>7 DEF c

(* An acknowledgement: in order it advances the frontier over all that     *)
(* waits, out of order it waits.                                           *)
LEMMA AckRight ==
  ASSUME AckedRight, NEW n \in Nat, n < nextNum, n \notin acked, n \in records,
         frontier' = Ack(n).frontier, ahead' = Ack(n).ahead, acked' = acked \cup {n},
         nextNum' = nextNum, records' = records
  PROVE  AckedRight' /\ frontier <= frontier'
<1>0. frontier \in Nat /\ nextNum \in Nat /\ RecordCount \in Nat /\ n >= frontier
  BY RecordCountAssumption DEF AckedRight
<1>1. CASE n # frontier
  <2>1. frontier' = frontier /\ ahead' = ahead \cup {n}
    BY <1>1 DEF Ack
  <2> QED
    BY <1>0, <1>1, <2>1 DEF AckedRight
<1>2. CASE n = frontier
  <2> DEFINE Free(m) == m > n /\ m \notin ahead
             P(m) == Free(m) /\ \A k \in n..(m - 1) : ~Free(k)
             I == n..(n + Cardinality(ahead) + 1)
             next == CHOOSE m \in I : P(m)
  <2>1. \E m \in I : P(m)
    BY NextFree
  <2>2. next \in I /\ P(next)
    BY <2>1
  <2>3. frontier' = next /\ ahead' = ahead \ (n..next)
    BY <1>2 DEF Ack
  <2>4. next \in Nat /\ next > n
    BY <2>2, AheadFinite
  <2>5. next \notin ahead /\ \A k \in Nat : n < k /\ k < next => k \in ahead
    BY <2>2, <2>4
  <2> HIDE DEF next
  <2>6. \A k \in Nat : k < frontier' => k \in acked'
    <3> SUFFICES ASSUME NEW k \in Nat, k < next PROVE k \in acked \cup {n}
      BY <2>3
    <3>1. k < n \/ k = n \/ n < k
      OBVIOUS
    <3> QED
      BY <1>2, <2>5, <3>1 DEF AckedRight
  <2>7. frontier' \notin acked'
    BY <1>2, <2>3, <2>4, <2>5 DEF AckedRight
  <2>8. ahead' = {k \in acked' : k > frontier'}
    <3>1. ahead = {k \in acked : k > n} /\ acked \subseteq Nat
      BY <1>0, <1>2 DEF AckedRight
    <3>2. \A k \in ahead : k \in ahead' <=> k > next
      <4> SUFFICES ASSUME NEW k \in ahead PROVE k \in ahead' <=> k > next
        OBVIOUS
      <4>1. k \in Nat /\ k > n
        BY <3>1
      <4>2. k \notin n..next <=> k > next
        BY <2>4, <4>1
      <4> QED
        BY <2>3, <4>2
    <3>3. \A k \in acked' : k > next => k \in ahead
      BY <2>4, <3>1
    <3> QED
      BY <2>3, <3>1, <3>2, <3>3
  <2>9. frontier' \in Nat /\ RecordCount <= frontier' /\ frontier <= frontier'
    BY <1>0, <1>2, <2>3, <2>4 DEF AckedRight
  <2>10. acked' \subseteq 0..(nextNum' - 1) /\ acked' \subseteq records'
    BY <1>0 DEF AckedRight
  <2> QED
    BY <1>0, <2>6, <2>7, <2>8, <2>9, <2>10 DEF AckedRight
<1> QED
  BY <1>1, <1>2

LEMMA YcsbInitRight == ASSUME YcsbInit PROVE YcsbInv
<1>1. AckedRight
  BY RecordCountAssumption DEF YcsbInit, AckedRight
<1> QED
  BY <1>1 DEF YcsbInit, YcsbInv, OpRight, Inserts

LEMMA NextRmwUpdateRight ==
  ASSUME YcsbInv, NEW l \in YcsbLoops, NextRmwUpdate(l)
  PROVE  YcsbInv'
<1> DEFINE op == [kind |-> "update", num |-> rmwUpdate[l], found |-> Nil]
<1>1. /\ DOMAIN ycsbOp' = YcsbLoops
      /\ \A m \in YcsbLoops : ycsbOp'[m] = IF m = l THEN op ELSE ycsbOp[m]
      /\ DOMAIN rmwUpdate' = YcsbLoops
      /\ \A m \in YcsbLoops : rmwUpdate'[m] = IF m = l THEN Nil ELSE rmwUpdate[m]
      /\ UNCHANGED <<nextNum, frontier, ahead, started, records, acked, bails>>
  BY DEF NextRmwUpdate, Waits, YcsbInv, insertVars
<1>2. op \in YcsbOps /\ op.num < frontier /\ op.kind = "update" /\ started[l]
  BY DEF YcsbInv, YcsbOps, NextRmwUpdate
<1> HIDE DEF op
<1>3. AckedRight'
  BY <1>1 DEF YcsbInv, AckedRight
<1>4. \A m \in YcsbLoops : OpRight(m)'
  BY <1>1, <1>2 DEF YcsbInv, OpRight
<1> QED
  BY <1>1, <1>2, <1>3, <1>4 DEF YcsbInv, Inserts

LEMMA NextInsertRight ==
  ASSUME YcsbInv, NEW l \in YcsbLoops, NextInsert(l)
  PROVE  YcsbInv'
<1> DEFINE op == [kind |-> "insert", num |-> nextNum, found |-> Nil]
<1>1. /\ DOMAIN ycsbOp' = YcsbLoops
      /\ \A m \in YcsbLoops : ycsbOp'[m] = IF m = l THEN op ELSE ycsbOp[m]
      /\ started' \in [YcsbLoops -> BOOLEAN]
      /\ \A m \in YcsbLoops : started'[m] = IF m = l THEN TRUE ELSE started[m]
      /\ nextNum' = nextNum + 1
      /\ UNCHANGED <<frontier, ahead, rmwUpdate, records, acked, bails>>
  BY DEF NextInsert, Waits, YcsbInv
<1>2. nextNum \in Nat /\ nextNum < nextNum + 1 /\ nextNum \notin acked
  <2>1. nextNum \in Nat /\ acked \subseteq 0..(nextNum - 1)
    BY DEF YcsbInv, AckedRight
  <2> QED
    BY <2>1
<1>3. op \in YcsbOps /\ op.num = nextNum /\ op.kind = "insert" /\ op.found = Nil
  BY <1>2 DEF YcsbOps
<1> HIDE DEF op
<1>4. AckedRight'
  BY <1>1, <1>2 DEF YcsbInv, AckedRight
<1>5. \A m \in YcsbLoops : Inserts(m) => ycsbOp[m].num \in Nat /\ ycsbOp[m].num < nextNum
  BY DEF YcsbInv, OpRight, Inserts, YcsbOps
<1>5a. \A n \in Nat : n < nextNum => n < nextNum + 1
  BY <1>2
<1>6. ASSUME NEW m \in YcsbLoops PROVE OpRight(m)'
  <2>1. CASE m = l
    <3>1. ycsbOp'[m] = op /\ started'[m] = TRUE /\ op.kind \notin {"read", "update"}
      BY <1>1, <1>3, <2>1
    <3> QED
      BY <1>1, <1>2, <1>3, <3>1 DEF OpRight
  <2>2. CASE m # l
    <3>1. OpRight(m) /\ ycsbOp'[m] = ycsbOp[m] /\ started'[m] = started[m]
      BY <1>1, <2>2 DEF YcsbInv
    <3>2. Inserts(m) => ycsbOp[m].num < nextNum + 1
      BY <1>5, <1>5a
    <3> QED
      BY <1>1, <3>1, <3>2 DEF OpRight, Inserts
  <2> QED
    BY <2>1, <2>2
<1>7. \A m, k \in YcsbLoops : Inserts(m)' /\ Inserts(k)' /\ ycsbOp'[m].num = ycsbOp'[k].num => m = k
  <2> SUFFICES ASSUME NEW m \in YcsbLoops, NEW k \in YcsbLoops, Inserts(m)', Inserts(k)',
                      ycsbOp'[m].num = ycsbOp'[k].num, m # k
               PROVE  FALSE
    OBVIOUS
  <2>1. CASE m # l /\ k # l
    BY <1>1, <2>1 DEF YcsbInv, Inserts
  <2>2. CASE m = l
    <3>1. Inserts(k) /\ ycsbOp'[k] = ycsbOp[k] /\ ycsbOp'[m].num = nextNum
      BY <1>1, <1>3, <2>2 DEF Inserts
    <3> QED
      BY <1>2, <1>5, <3>1
  <2>3. CASE k = l
    <3>1. Inserts(m) /\ ycsbOp'[m] = ycsbOp[m] /\ ycsbOp'[k].num = nextNum
      BY <1>1, <1>3, <2>3 DEF Inserts
    <3> QED
      BY <1>2, <1>5, <3>1
  <2> QED
    BY <2>1, <2>2, <2>3
<1> QED
  BY <1>1, <1>4, <1>6, <1>7 DEF YcsbInv

LEMMA KeyNumsRight ==
  ASSUME YcsbInv, NEW n \in KeyNums
  PROVE  n \in Nat /\ n < frontier
<1>1. frontier \in Nat /\ RecordCount <= frontier
  BY DEF YcsbInv, AckedRight
<1> QED
  BY <1>1, RecordCountAssumption DEF KeyNums

LEMMA NextOtherRight ==
  ASSUME YcsbInv, NEW l \in YcsbLoops, NEW kind \in {"read", "update", "scan", "rmw"},
         NEW n \in KeyNums, NextOther(l, kind, n)
  PROVE  YcsbInv'
<1> DEFINE op == [kind |-> IF kind = "rmw" THEN "read" ELSE kind, num |-> n, found |-> Nil]
<1>0. n \in Nat /\ n < frontier
  BY KeyNumsRight
<1>1. /\ DOMAIN ycsbOp' = YcsbLoops
      /\ \A m \in YcsbLoops : ycsbOp'[m] = IF m = l THEN op ELSE ycsbOp[m]
      /\ DOMAIN rmwUpdate' = YcsbLoops
      /\ \A m \in YcsbLoops : rmwUpdate'[m] = rmwUpdate[m] \/ (m = l /\ rmwUpdate'[m] = n)
      /\ started' \in [YcsbLoops -> BOOLEAN]
      /\ \A m \in YcsbLoops : started'[m] = IF m = l THEN TRUE ELSE started[m]
      /\ UNCHANGED <<nextNum, frontier, ahead, records, acked, bails>>
  BY DEF NextOther, Waits, YcsbInv, insertVars
<1>2. op \in YcsbOps /\ op.num = n /\ op.kind # "insert"
  BY <1>0 DEF YcsbOps
<1> HIDE DEF op
<1>3. AckedRight'
  BY <1>1 DEF YcsbInv, AckedRight
<1>4. \A m \in YcsbLoops : OpRight(m)'
  BY <1>0, <1>1, <1>2 DEF YcsbInv, OpRight
<1>5. \A m, k \in YcsbLoops : Inserts(m)' /\ Inserts(k)' /\ ycsbOp'[m].num = ycsbOp'[k].num => m = k
  BY <1>1, <1>2 DEF YcsbInv, Inserts
<1>6. \A m \in YcsbLoops : rmwUpdate'[m] # Nil =>
         started'[m] /\ rmwUpdate'[m] \in Nat /\ rmwUpdate'[m] < frontier'
  BY <1>0, <1>1 DEF YcsbInv
<1> QED
  BY <1>1, <1>3, <1>4, <1>5, <1>6 DEF YcsbInv

LEMMA ExecuteRight ==
  ASSUME YcsbInv, NEW l \in YcsbLoops, Execute(l)
  PROVE  YcsbInv'
<1> DEFINE op == ycsbOp[l]
           new == [op EXCEPT !.found = op.kind \in {"insert", "scan"} \/ op.num \in records]
<1>1. op \in YcsbOps /\ OpRight(l) /\ op # Nil /\ op.found = Nil
  BY DEF YcsbInv, OpRight, Execute
<1>2. /\ DOMAIN ycsbOp' = YcsbLoops
      /\ \A m \in YcsbLoops : ycsbOp'[m] = IF m = l THEN new ELSE ycsbOp[m]
      /\ records \subseteq records' /\ (op.kind = "insert" => op.num \in records')
      /\ UNCHANGED <<nextNum, frontier, ahead, rmwUpdate, started, acked, bails>>
  BY DEF Execute, YcsbInv, insertVars
<1>3. op.kind \in {"insert", "scan"} \/ op.num \in records
  BY <1>1 DEF YcsbInv, AckedRight, OpRight, YcsbOps
<1>4. new \in YcsbOps /\ new.kind = op.kind /\ new.num = op.num
  BY <1>1, <1>3 DEF YcsbOps
<1>5. ycsbOp[l] = op
  OBVIOUS
<1> HIDE DEF new, op
<1>6. AckedRight'
  BY <1>2 DEF YcsbInv, AckedRight
<1>7. ASSUME NEW m \in YcsbLoops PROVE OpRight(m)'
  <2>1. CASE m = l
    BY <1>1, <1>2, <1>4, <1>5, <2>1 DEF OpRight
  <2>2. CASE m # l
    BY <1>2, <2>2 DEF OpRight, YcsbInv
  <2> QED
    BY <2>1, <2>2
<1>8. \A m \in YcsbLoops : Inserts(m)' => Inserts(m) /\ ycsbOp'[m].num = ycsbOp[m].num
  BY <1>1, <1>2, <1>4, <1>5 DEF Inserts
<1>9. \A m, k \in YcsbLoops : Inserts(m)' /\ Inserts(k)' /\ ycsbOp'[m].num = ycsbOp'[k].num => m = k
  BY <1>8 DEF YcsbInv
<1> QED
  BY <1>2, <1>6, <1>7, <1>9 DEF YcsbInv

LEMMA OnResultRight ==
  ASSUME YcsbInv, NEW l \in YcsbLoops, OnResult(l)
  PROVE  YcsbInv'
<1> DEFINE op == ycsbOp[l]
           over == rmwUpdate[l] = Nil
<1>1. OpRight(l) /\ op # Nil /\ op.found # Nil /\ op \in YcsbOps /\ op.found = TRUE /\ started[l] = TRUE
  BY DEF YcsbInv, OpRight, OnResult, YcsbOps
<1>2. /\ DOMAIN ycsbOp' = YcsbLoops
      /\ \A m \in YcsbLoops : ycsbOp'[m] = IF m = l THEN Nil ELSE ycsbOp[m]
      /\ UNCHANGED <<nextNum, bails, rmwUpdate, records>>
      /\ started' = [started EXCEPT ![l] = @ /\ ~over]
      /\ IF op.kind = "insert"
         THEN /\ frontier' = Ack(op.num).frontier
              /\ ahead' = Ack(op.num).ahead
              /\ acked' = acked \cup {op.num}
         ELSE UNCHANGED <<frontier, ahead, acked>>
  BY <1>1 DEF OnResult, YcsbInv
<1>3. /\ started' \in [YcsbLoops -> BOOLEAN]
      /\ \A m \in YcsbLoops : started[m] => started'[m] \/ (m = l /\ over)
  BY <1>1, <1>2 DEF YcsbInv
<1>4. /\ AckedRight' /\ frontier \in Nat /\ frontier' \in Nat /\ frontier <= frontier'
      /\ acked' = acked \/ (op.kind = "insert" /\ acked' = acked \cup {op.num})
  <2>0. AckedRight
    BY DEF YcsbInv
  <2>1. CASE op.kind = "insert"
    <3>1. op.num \in Nat /\ op.num < nextNum /\ op.num \notin acked /\ op.num \in records
      BY <1>1, <2>1 DEF OpRight, YcsbOps
    <3>2. AckedRight' /\ frontier <= frontier'
      BY <1>2, <2>0, <2>1, <3>1, AckRight
    <3> QED
      BY <1>2, <2>0, <2>1, <3>2 DEF AckedRight
  <2>2. CASE op.kind # "insert"
    <3>1. UNCHANGED <<nextNum, frontier, ahead, acked, records>>
      BY <1>2, <2>2
    <3>2. frontier \in Nat /\ frontier <= frontier
      BY <2>0 DEF AckedRight
    <3> QED
      BY <2>0, <3>1, <3>2 DEF AckedRight
  <2> QED
    BY <2>1, <2>2
<1>5. ASSUME NEW m \in YcsbLoops PROVE OpRight(m)'
  <2>1. CASE m = l
    BY <1>2, <2>1 DEF OpRight
  <2>2. CASE m # l
    <3>1. OpRight(m) /\ ycsbOp'[m] = ycsbOp[m] /\ nextNum' = nextNum /\ records' = records
      BY <1>2, <2>2 DEF YcsbInv
    <3>2. started[m] => started'[m]
      BY <1>3, <2>2
    <3>3. ycsbOp[m] # Nil /\ ycsbOp[m].kind = "insert" /\ op.kind = "insert" => ycsbOp[m].num # op.num
      BY <1>1, <2>2 DEF YcsbInv, Inserts
    <3>4. ycsbOp[m] # Nil => ycsbOp[m].num \in Nat
      BY <3>1 DEF OpRight, YcsbOps
    <3> HIDE DEF op
    <3> QED
      BY <1>4, <3>1, <3>2, <3>3, <3>4 DEF OpRight
  <2> QED
    BY <2>1, <2>2
<1>6. \A m, k \in YcsbLoops : Inserts(m)' /\ Inserts(k)' /\ ycsbOp'[m].num = ycsbOp'[k].num => m = k
  BY <1>2 DEF YcsbInv, Inserts
<1>7. \A m \in YcsbLoops : rmwUpdate'[m] # Nil =>
         started'[m] /\ rmwUpdate'[m] \in Nat /\ rmwUpdate'[m] < frontier'
  BY <1>2, <1>3, <1>4 DEF YcsbInv
<1> QED
  BY <1>2, <1>3, <1>4, <1>5, <1>6, <1>7 DEF YcsbInv

(***************************************************************************)
(* Every state that loops drawing operations and results arriving in any   *)
(* order can reach satisfies YcsbInv (next and on_result of ycsb.rs).      *)
(***************************************************************************)
THEOREM YcsbInvariance == YcsbSpec => []YcsbInv
<1>1. YcsbInit => YcsbInv
  BY YcsbInitRight
<1>2. YcsbInv /\ [YcsbNext]_ycsbVars => YcsbInv'
  <2> SUFFICES ASSUME YcsbInv, [YcsbNext]_ycsbVars PROVE YcsbInv'
    OBVIOUS
  <2>1. CASE UNCHANGED ycsbVars
    BY <2>1 DEF ycsbVars, YcsbInv, AckedRight, OpRight, Inserts
  <2> QED
    BY <2>1, NextRmwUpdateRight, NextInsertRight, NextOtherRight, ExecuteRight, OnResultRight DEF YcsbNext
<1> QED
  BY <1>1, <1>2, PTL DEF YcsbSpec

(***************************************************************************)
(* The frontier of the inserts is exact and whatever a loop draws below it *)
(* is stored, for any number of loops and any order of their               *)
(* acknowledgements: no loop ever bails out because a record is not found  *)
(* (ycsb.rs:105).                                                          *)
(***************************************************************************)
THEOREM InsertsAreRight == YcsbSpec => []InsertsRight
<1>1. YcsbInv => InsertsRight
  <2> SUFFICES ASSUME YcsbInv PROVE InsertsRight
    OBVIOUS
  <2>1. frontier \in Nat /\ \A n \in 0..(frontier - 1) : n \in Nat /\ n < frontier
    BY DEF YcsbInv, AckedRight
  <2> QED
    BY <2>1 DEF YcsbInv, AckedRight, InsertsRight, FrontierExact, NeverNotFound
<1> QED
  BY <1>1, YcsbInvariance, PTL
=============================================================================
