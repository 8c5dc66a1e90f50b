-------------------------------- MODULE Bulk --------------------------------
(***************************************************************************)
(* Bulk transfers (bulk.rs): a session keeps the offered buffers in        *)
(* pending_accept and announces each with a Serve message; whoever accepts *)
(* the offer connects, names the offer's id and reads the buffer.  Either  *)
(* side may cancel; an offer without a token ends after 2.5 s by itself.   *)
(*                                                                         *)
(* A Serve message may be duplicated on its way; each copy is accepted by  *)
(* a task of its own.  The stages of an accepting task and its stream:     *)
(* "unsent", "serve" (on its way), "connecting", "backlog" (connected, not *)
(* yet accepted by the listener), "reading", and then "some" (a buffer) or *)
(* "none".                                                                 *)
(***************************************************************************)
EXTENDS Naturals, FiniteSets

CONSTANTS
    Offers,     \* the offers, named by their ids
    Tokens,     \* the offers made with a cancel token
    Tasks       \* <<o, i>>: the i-th copy of o's Serve that the network may deliver

VARIABLES
    accept,     \* pending_accept: the offers whose buffer waits for a connection
    canceller,  \* canceller[o]: the cancel task of the offer, "none", "waiting", "ended", "joined"
    revoked,    \* the offers whose own token is cancelled
    stage,      \* stage[o, i]: the task that accepts the i-th copy of o's Serve
    unwanted,   \* the <<o, i>> whose accepting side has cancelled its token
    stream,     \* stream[o, i]: "none", "open", "sending", "sent", "closed" by the offering side
    upcalls     \* upcalls[o]: how many copies of the buffer have been delivered

bulkVars == <<accept, canceller, revoked, stage, unwanted, stream, upcalls>>

Of(o) == {t \in Tasks : t[1] = o}

BulkInit ==
    /\ accept = {} /\ revoked = {} /\ unwanted = {}
    /\ canceller = [o \in Offers |-> "none"]
    /\ stage = [t \in Tasks |-> "unsent"]
    /\ stream = [t \in Tasks |-> "none"]
    /\ upcalls = [o \in Offers |-> 0]

(* Event::Offer: the buffer is kept before its id is told to anybody. *)
Offer(o) ==
    /\ canceller[o] = "none"
    /\ accept' = accept \cup {o}
    /\ canceller' = [canceller EXCEPT ![o] = "waiting"]
    /\ \E copies \in SUBSET Of(o) :
          stage' = [t \in Tasks |-> IF t \in copies THEN "serve" ELSE stage[t]]
    /\ UNCHANGED <<revoked, unwanted, stream, upcalls>>

(* The user of the offering side cancels. *)
Revoke(o) ==
    /\ o \in Tokens \ revoked /\ canceller[o] # "none"
    /\ revoked' = revoked \cup {o}
    /\ UNCHANGED <<accept, canceller, stage, unwanted, stream, upcalls>>

(* The cancel task: it waits for the token or, without one, for 2.5 s. *)
CancelTask(o) ==
    /\ canceller[o] = "waiting" /\ (o \in Tokens => o \in revoked)
    /\ canceller' = [canceller EXCEPT ![o] = "ended"]
    /\ UNCHANGED <<accept, revoked, stage, unwanted, stream, upcalls>>

JoinNextCancel(o) ==
    /\ canceller[o] = "ended"
    /\ canceller' = [canceller EXCEPT ![o] = "joined"]
    /\ accept' = accept \ {o}
    /\ UNCHANGED <<revoked, stage, unwanted, stream, upcalls>>

(* RecvServe: the user sees the offer and accepts it, once per message, or *)
(* never; Event::Accept spawns the task.                                   *)
Accept(t) ==
    /\ stage[t] = "serve"
    /\ stage' = [stage EXCEPT ![t] = "connecting"]
    /\ UNCHANGED <<accept, canceller, revoked, unwanted, stream, upcalls>>

ConnectOffer(t) ==
    /\ stage[t] = "connecting"
    /\ stage' = [stage EXCEPT ![t] = "backlog"]
    /\ stream' = [stream EXCEPT ![t] = "open"]
    /\ UNCHANGED <<accept, canceller, revoked, unwanted, upcalls>>

(* Mutant: the buffer stays in the table. *)
AcceptStreamKeeps(t) ==
    /\ stream[t] = "open"
    /\ \E named \in BOOLEAN :
          /\ stage[t] = "backlog" => named
          /\ stream' = [stream EXCEPT ![t] = IF named /\ t[1] \in accept THEN "sending" ELSE "closed"]
    /\ stage' = IF stage[t] = "backlog" THEN [stage EXCEPT ![t] = "reading"] ELSE stage
    /\ UNCHANGED <<accept, canceller, revoked, unwanted, upcalls>>

(* The listener accepts the stream and reads the id; of a task that is     *)
(* gone it may find the id or not.  The first stream that names an offer   *)
(* takes its buffer out; any other is dropped.                             *)
AcceptStream(t) ==
    /\ stream[t] = "open"
    /\ \E named \in BOOLEAN :
          /\ stage[t] = "backlog" => named
          /\ stream' = [stream EXCEPT ![t] = IF named /\ t[1] \in accept THEN "sending" ELSE "closed"]
          /\ accept' = IF named THEN accept \ {t[1]} ELSE accept
    /\ stage' = IF stage[t] = "backlog" THEN [stage EXCEPT ![t] = "reading"] ELSE stage
    /\ UNCHANGED <<canceller, revoked, unwanted, upcalls>>

(* The send task writes the buffer, or is cancelled before it has. *)
SendTask(t) ==
    /\ stream[t] = "sending"
    /\ \/ stream' = [stream EXCEPT ![t] = "sent"]
       \/ t[1] \in revoked /\ stream' = [stream EXCEPT ![t] = "closed"]
    /\ UNCHANGED <<accept, canceller, revoked, stage, unwanted, upcalls>>

Unwant(t) ==
    /\ t \notin unwanted /\ stage[t] \in {"connecting", "backlog", "reading"}
    /\ unwanted' = unwanted \cup {t}
    /\ UNCHANGED <<accept, canceller, revoked, stage, stream, upcalls>>

(* The accepting task ends: with the buffer, with the error of a stream    *)
(* that was closed before all of the length it expects (as the peers of    *)
(* entropy always state) came, or by its own token.                        *)
RecvTask(t) ==
    /\ \/ /\ stage[t] = "reading" /\ stream[t] = "sent"
          /\ stage' = [stage EXCEPT ![t] = "some"]
       \/ /\ stage[t] = "reading" /\ stream[t] = "closed"
          /\ stage' = [stage EXCEPT ![t] = "none"]
       \/ /\ stage[t] \in {"connecting", "backlog", "reading"} /\ t \in unwanted
          /\ stage' = [stage EXCEPT ![t] = "none"]
    /\ upcalls' = IF stage'[t] = "some" THEN [upcalls EXCEPT ![t[1]] = @ + 1] ELSE upcalls
    /\ UNCHANGED <<accept, canceller, revoked, unwanted, stream>>

BulkWork ==
    \/ \E o \in Offers : CancelTask(o) \/ JoinNextCancel(o)
    \/ \E t \in Tasks : Accept(t) \/ ConnectOffer(t) \/ AcceptStream(t) \/ SendTask(t) \/ RecvTask(t)

BulkNext ==
    \/ BulkWork
    \/ \E o \in Offers : Offer(o) \/ Revoke(o)
    \/ \E t \in Tasks : Unwant(t)

BulkSpec == BulkInit /\ [][BulkNext]_bulkVars

-----------------------------------------------------------------------------
(* However often its announcement is delivered, a buffer is handed over at *)
(* most once, and a copy that comes after the buffer left finds nothing    *)
(* instead of another one's buffer.                                        *)
OfferOnce ==
    \A o \in Offers : /\ upcalls[o] <= 1
                      /\ Cardinality({t \in Of(o) : stream[t] \in {"sending", "sent"}}) <= 1

(* An offer that may not end with its buffer: its cancel task has ended,   *)
(* or somebody who accepted it has cancelled.                              *)
Interrupted(o) == canceller[o] # "waiting" \/ Of(o) \cap unwanted # {}

(* In the end every accepting task is over, an announced offer that nobody *)
(* has interrupted has been handed over ("ensures the transfer will always *)
(* finish", bulk.rs:18), and what is left in the table belongs to a token  *)
(* that is not cancelled: no entry leaks (bulk.rs:200).  No buffer has     *)
(* been handed over twice; upcalls are counted and never taken back.       *)
BulkSettles ==
    <>[](OfferOnce /\ \A o \in Offers :
            /\ o \in accept => o \in Tokens \ revoked
            /\ (\E t \in Of(o) : stage[t] # "unsent") => upcalls[o] = 1 \/ Interrupted(o)
            /\ \A t \in Of(o) : stage[t] \notin {"connecting", "backlog", "reading"})
=============================================================================
