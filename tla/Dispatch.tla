------------------------------ MODULE Dispatch ------------------------------
(***************************************************************************)
(* The connection table of a TCP net (net/session.rs).  A message to an    *)
(* address goes through the connection in the table, or a new one; the     *)
(* accepting side may use the same connection for its own messages.  Every *)
(* second a connection that sent nothing is reclaimed: its sender leaves   *)
(* the table, its write task drains and closes its direction, and reading  *)
(* goes on.  A message that cannot be read ends the reading for good, and  *)
(* a connection both of whose tasks have ended at one end is closed there. *)
(*                                                                         *)
(* A connection has two ends, <<k, 1>> where it was made and <<k, 2>>      *)
(* where it was accepted.  Reading a preamble and spawning tasks are part  *)
(* of the step that leads there.                                           *)
(***************************************************************************)
EXTENDS Naturals, Sequences, FiniteSets

CONSTANTS
    Nodes,
    Messages,   \* Messages[m]: the <<source, destination>> of message m
    MaxConns,   \* bound on the number of connections made
    MaxFaults   \* bound on the connections that fail and the messages that cannot be read

ASSUME DispatchAssumption ==
    /\ Messages \in [DOMAIN Messages -> Nodes \X Nodes]
    /\ MaxConns \in Nat

VARIABLES
    table,      \* table[n][r]: the connection of n to r, [end, using] or NoEntry
    conns,      \* the connections made so far, [from, to, phase, broken]
    chan,       \* chan[e]: messages in the channel of the write task of end e
    writer,     \* writer[e]: "none", "running", "ended": the write task, or who is to start it
    reader,     \* reader[e]: the read task; "failed" when it gave up with more to come
    wire,       \* wire[e]: messages on the way from end e
    sent,       \* history: the messages handed to the net
    arrived,    \* arrived[m]: how often on_buf has seen m
    lost,       \* history: messages that went with a failed connection or reader
    faults      \* history: the number of these failures

dispatchVars == <<table, conns, chan, writer, reader, wire, sent, arrived, lost, faults>>

NoEntry == [end |-> <<0, 0>>, using |-> FALSE]
Ends == (1..MaxConns) \X {1, 2}
Other(e) == <<e[1], 3 - e[2]>>
Elems(s) == {s[i] : i \in DOMAIN s}

DispatchInit ==
    /\ table = [n \in Nodes |-> [r \in Nodes |-> NoEntry]]
    /\ conns = <<>>
    /\ chan = [e \in Ends |-> <<>>]
    /\ writer = [e \in Ends |-> "none"]
    /\ reader = [e \in Ends |-> "none"]
    /\ wire = [e \in Ends |-> <<>>]
    /\ sent = {} /\ lost = {} /\ faults = 0
    /\ arrived = [m \in DOMAIN Messages |-> 0]

(* Whether a table still holds the sender of end e: only then can more     *)
(* messages come to its channel.                                           *)
Held(e) == \E n, r \in Nodes : table[n][r].end = e

(* The receiver of the channel is dropped when the write task ends, or the *)
(* attempt to connect that was to start it.                                *)
IsClosed(e) == writer[e] = "ended"

(* Outgoing: m goes to the connection in the table; when its channel is    *)
(* closed the message is taken back and goes to a new one.                 *)
Outgoing(m) ==
    LET n == Messages[m][1]
        r == Messages[m][2]
        entry == table[n][r]
        usable == entry # NoEntry /\ ~IsClosed(entry.end)
        e == IF usable THEN entry.end ELSE <<Len(conns) + 1, 1>>
    IN  /\ m \notin sent /\ sent' = sent \cup {m}
        /\ usable \/ Len(conns) < MaxConns
        /\ chan' = [chan EXCEPT ![e] = Append(@, m)]
        /\ table' = [table EXCEPT ![n][r] = [end |-> e, using |-> TRUE]]
        /\ conns' = IF usable THEN conns
                    ELSE Append(conns, [from |-> n, to |-> r, phase |-> "connecting", broken |-> FALSE])
        /\ UNCHANGED <<writer, reader, wire, arrived, lost, faults>>

(* The connection is made and its preamble written. *)
Connect(k) ==
    /\ conns[k].phase = "connecting"
    /\ conns' = [conns EXCEPT ![k].phase = "backlog"]
    /\ writer' = [writer EXCEPT ![<<k, 1>>] = "running"]
    /\ reader' = [reader EXCEPT ![<<k, 1>>] = "running"]
    /\ UNCHANGED <<table, chan, wire, sent, arrived, lost, faults>>

(* Connecting fails, and with it what already waits in the channel. *)
ConnectFail(k) ==
    /\ conns[k].phase = "connecting" /\ faults < MaxFaults
    /\ faults' = faults + 1
    /\ conns' = [conns EXCEPT ![k].phase = "failed"]
    /\ writer' = [writer EXCEPT ![<<k, 1>>] = "ended"]
    /\ lost' = lost \cup Elems(chan[<<k, 1>>])
    /\ chan' = [chan EXCEPT ![<<k, 1>>] = <<>>]
    /\ UNCHANGED <<table, reader, wire, sent, arrived>>

(* tcp_accept_session and Incoming: the connection is taken to the table   *)
(* unless there is one; then its sender is dropped.                        *)
Incoming(k) ==
    LET n == conns[k].to
        r == conns[k].from
    IN  /\ conns[k].phase = "backlog" /\ ~conns[k].broken
        /\ conns' = [conns EXCEPT ![k].phase = "accepted"]
        /\ writer' = [writer EXCEPT ![<<k, 2>>] = "running"]
        /\ reader' = [reader EXCEPT ![<<k, 2>>] = "running"]
        /\ table' = IF table[n][r] # NoEntry THEN table
                    ELSE [table EXCEPT ![n][r] = [end |-> <<k, 2>>, using |-> TRUE]]
        /\ UNCHANGED <<chan, wire, sent, arrived, lost, faults>>

(* The write task: a message is written, to an end that reads no more in   *)
(* vain, or the write fails and the rest of the channel goes with the task. *)
Write(e) ==
    /\ writer[e] = "running" /\ chan[e] # <<>>
    /\ IF conns[e[1]].broken
       THEN /\ lost' = lost \cup Elems(chan[e])
            /\ chan' = [chan EXCEPT ![e] = <<>>]
            /\ writer' = [writer EXCEPT ![e] = "ended"]
            /\ UNCHANGED wire
       ELSE /\ IF reader[Other(e)] = "failed"
               THEN lost' = lost \cup {Head(chan[e])} /\ UNCHANGED wire
               ELSE wire' = [wire EXCEPT ![e] = Append(@, Head(chan[e]))] /\ UNCHANGED lost
            /\ chan' = [chan EXCEPT ![e] = Tail(@)]
            /\ UNCHANGED writer
    /\ UNCHANGED <<table, conns, reader, sent, arrived, faults>>

(* What nobody reads fills the buffers of the connection: until the other  *)
(* end is closed a write may wait forever.                                 *)
MayBlock(e) ==
    /\ reader[Other(e)] = "failed" /\ writer[Other(e)] # "ended"
    /\ ~conns[e[1]].broken

(* Mutant: the write task ends with its sender, whatever the channel holds. *)
WriteEndAtOnce(e) ==
    /\ writer[e] = "running" /\ ~Held(e)
    /\ writer' = [writer EXCEPT ![e] = "ended"]
    /\ chan' = [chan EXCEPT ![e] = <<>>]
    /\ UNCHANGED <<table, conns, reader, wire, sent, arrived, lost, faults>>

(* The channel is empty and its sender gone: the direction is closed. *)
WriteEnd(e) ==
    /\ writer[e] = "running" /\ chan[e] = <<>> /\ ~Held(e)
    /\ writer' = [writer EXCEPT ![e] = "ended"]
    /\ UNCHANGED <<table, conns, chan, reader, wire, sent, arrived, lost, faults>>

(* The read task hands a message to on_buf, or sees the end of the stream. *)
Read(e) ==
    /\ reader[e] = "running" /\ ~conns[e[1]].broken /\ wire[Other(e)] # <<>>
    /\ arrived' = [arrived EXCEPT ![Head(wire[Other(e)])] = @ + 1]
    /\ wire' = [wire EXCEPT ![Other(e)] = Tail(@)]
    /\ UNCHANGED <<table, conns, chan, writer, reader, sent, lost, faults>>

ReadEnd(e) ==
    /\ reader[e] = "running"
    /\ conns[e[1]].broken \/ (wire[Other(e)] = <<>> /\ writer[Other(e)] = "ended")
    /\ reader' = [reader EXCEPT ![e] = "ended"]
    /\ UNCHANGED <<table, conns, chan, writer, wire, sent, arrived, lost, faults>>

(* The message is too long or on_buf does not take it: the read task ends  *)
(* though the connection is well, and what follows is not read.            *)
ReadFails(e) ==
    /\ reader[e] = "running" /\ ~conns[e[1]].broken /\ wire[Other(e)] # <<>>
    /\ faults < MaxFaults /\ faults' = faults + 1
    /\ reader' = [reader EXCEPT ![e] = "failed"]
    /\ lost' = lost \cup Elems(wire[Other(e)])
    /\ wire' = [wire EXCEPT ![Other(e)] = <<>>]
    /\ UNCHANGED <<table, conns, chan, writer, sent, arrived>>

(* An end is closed with what it did not read: the other is told so. *)
Torn(k) == \E i \in {1, 2} : reader[<<k, i>>] = "failed" /\ writer[<<k, i>>] = "ended"

(* The connection breaks; its tasks notice at their next read or write. *)
Break(k) ==
    /\ conns[k].phase \in {"backlog", "accepted"} /\ ~conns[k].broken
    /\ \E i \in {1, 2} : writer[<<k, i>>] = "running" \/ reader[<<k, i>>] = "running"
    /\ faults < MaxFaults \/ Torn(k)
    /\ faults' = IF Torn(k) THEN faults ELSE faults + 1
    /\ conns' = [conns EXCEPT ![k].broken = TRUE]
    /\ lost' = lost \cup Elems(wire[<<k, 1>>]) \cup Elems(wire[<<k, 2>>])
    /\ wire' = [wire EXCEPT ![<<k, 1>>] = <<>>, ![<<k, 2>>] = <<>>]
    /\ UNCHANGED <<table, chan, writer, reader, sent, arrived>>

(* Mutant: what is closed is kept until it is sent to. *)
RetainClosed(entry) ==
    IF entry # NoEntry /\ (entry.using \/ IsClosed(entry.end))
    THEN [entry EXCEPT !.using = FALSE] ELSE NoEntry

(* on_timer, once a second: what has not sent since is forgotten, and so   *)
(* is what is closed.                                                      *)
Retain(entry) ==
    IF entry # NoEntry /\ entry.using /\ ~IsClosed(entry.end)
    THEN [entry EXCEPT !.using = FALSE] ELSE NoEntry

OnTimer(n) ==
    /\ \E r \in Nodes : table[n][r] # NoEntry
    /\ table' = [table EXCEPT ![n] = [r \in Nodes |-> Retain(table[n][r])]]
    /\ UNCHANGED <<conns, chan, writer, reader, wire, sent, arrived, lost, faults>>

DispatchWork ==
    \/ \E n \in Nodes : OnTimer(n)
    \/ \E k \in DOMAIN conns : Connect(k) \/ Incoming(k)
    \/ \E e \in Ends : (~MayBlock(e) /\ Write(e)) \/ WriteEnd(e) \/ Read(e) \/ ReadEnd(e)

DispatchNext ==
    \/ DispatchWork
    \/ \E m \in DOMAIN Messages : Outgoing(m)
    \/ \E k \in DOMAIN conns : ConnectFail(k) \/ Break(k)
    \/ \E e \in Ends : (MayBlock(e) /\ Write(e)) \/ ReadFails(e)

DispatchSpec == DispatchInit /\ [][DispatchNext]_dispatchVars

-----------------------------------------------------------------------------
(* Where m is: in a channel or on a wire. *)
Carried(m) == \E e \in Ends : m \in Elems(chan[e]) \cup Elems(wire[e])

(* A message that was handed to the net is on its way, has arrived exactly *)
(* once, or went with a connection that failed or a reader that gave up,   *)
(* and is in one place only: the message taken back from a closed channel  *)
(* is not sent twice, and neither reclaiming nor a connection that both    *)
(* sides make at once drops one.                                           *)
Accounted ==
    /\ \A m \in sent :
          /\ arrived[m] + (IF m \in lost THEN 1 ELSE 0) + (IF Carried(m) THEN 1 ELSE 0) = 1
          /\ Cardinality({e \in Ends : m \in Elems(chan[e]) \cup Elems(wire[e])}) <= 1
    /\ Cardinality(lost) > 0 => faults > 0

(* An end is in the table of the node it belongs to, for the node at its   *)
(* other end: nothing is ever sent to the wrong node.                      *)
TableRight ==
    \A n, r \in Nodes : table[n][r] # NoEntry =>
        LET e == table[n][r].end
        IN  IF e[2] = 1 THEN conns[e[1]].from = n /\ conns[e[1]].to = r
            ELSE conns[e[1]].to = n /\ conns[e[1]].from = r

(* Messages reach the node they are for, once, unless a connection fails   *)
(* or a message cannot be read (session.rs:259, 278, 318).                 *)
DeliveryRight == Accounted /\ TableRight

(* Neither end of a connection reads: what either writes may stay there. *)
Deaf(k) == \A i \in {1, 2} : reader[<<k, i>>] = "failed"

(* When there is nothing more to send, all messages have come to an end    *)
(* and every connection is closed in both directions, unless neither of    *)
(* its ends reads: none leaks that was skipped, reclaimed on one side      *)
(* only, broken, or left by the reader of one side.                        *)
DispatchSettles ==
    <>[](\/ \E k \in DOMAIN conns : Deaf(k)
         \/ /\ \A m \in sent : ~Carried(m)
            /\ \A n, r \in Nodes : table[n][r] = NoEntry
            /\ \A e \in Ends : writer[e] # "running" /\ reader[e] # "running")
=============================================================================
