------------------------------ MODULE Entropy ------------------------------
(***************************************************************************)
(* The peers of the chunk store (crates/entropy/src/lib.rs): a put encodes *)
(* a chunk to fragments, invites the peers closest to the chunk to persist *)
(* one each and ends when ChunkN of them have it on disk; a get pulls the  *)
(* fragments back (and off the disks) until ChunkK of them decode.         *)
(*                                                                         *)
(* A fragment of chunk c is [index, of]: the index it travels under and    *)
(* the index it was encoded for.  Every handler takes one event of its     *)
(* peer from `inbox`; events come from the network, the bulk transfers,    *)
(* the codec worker and the file system in any order.                      *)
(***************************************************************************)
EXTENDS Naturals, FiniteSets

CONSTANTS
    Peers,
    Chunks,
    ChunkK,     \* fragments that decode a chunk, with some luck
    MaxExtra,   \* fragments the decoder may need beyond that
    ChunkN,     \* fragments that are on disk when a put ends
    Closest,    \* Closest[c]: the ChunkM peers a Multicast to c reaches
    Draws,      \* Draws[p]: the indices rand::random may give p
    Putters,    \* <<p, c>>: the puts applications make
    Getters,    \* <<p, c>>: the gets applications make
    MaxTimeout, \* bound on the offers without a token that time out
    None

Slots == Peers \X Chunks

(* RecoverState: the fragments decoded so far, None while the decoder is   *)
(* with the worker, and the ones that wait for it.                         *)
Indices == UNION {Draws[p] : p \in Peers}
Fragments == [index : Indices, of : Indices]
RecoverStates == [decoder : (SUBSET Fragments) \cup {None}, pending : SUBSET Fragments]
PersistStates == [index : Indices, status : {"Recovering", "Storing", "Available"}, notify : Peers \cup {None},
                  recover : RecoverStates, received : SUBSET Indices, cancelled : BOOLEAN]

(* A chunk is named by the digest of its contents, and the benchmark puts  *)
(* fresh random bytes, each chunk of them at one peer (main.rs:419, 504).  *)
ASSUME EntropyAssumption ==
    /\ IsFiniteSet(Peers) /\ ChunkN \in Nat \ {0}
    /\ Closest \in [Chunks -> SUBSET Peers] /\ Draws \in [Peers -> SUBSET Nat]
    /\ Putters \subseteq Slots /\ \A x, y \in Putters : x[2] = y[2] => x = y
ASSUME EntropyNoneAssumption == None \notin Peers /\ None \notin Fragments /\ None \notin PersistStates

VARIABLES
    inbox,      \* the events on their way to the peers' handlers
    uploads,    \* uploads[<<p, c>>]: UploadState or None
    downloads,  \* downloads[<<p, c>>]: RecoverState or None
    persists,   \* persists[<<p, c>>]: PersistState or None
    pulls,      \* pulls[<<p, c>>]: pending_pulls, the peers to send a loaded fragment to
    disk,       \* disk[<<p, c>>]: the fragments in the directory of the chunk, None if there is none
    fsTasks,    \* the tasks of fs::session
    transfers,  \* the bulk transfers that are accepted
    answered,   \* history: the puts and gets that are answered, [op, peer, chunk]
    asked,      \* history: the puts and gets that were made
    panicked,   \* the peers that ran into an assertion
    failed,     \* the peers one of whose sessions ended with an error
    timeouts    \* history: how many offers have timed out

entropyVars == <<inbox, uploads, downloads, persists, pulls, disk, fsTasks, transfers,
                 answered, asked, panicked, failed, timeouts>>

storage == <<pulls, disk, fsTasks>>
outcomes == <<panicked, failed>>
history == <<answered, asked, timeouts>>

NewRecover == [decoder |-> {}, pending |-> {}]

EntropyInit ==
    /\ inbox = {} /\ fsTasks = {} /\ transfers = {}
    /\ uploads = [x \in Slots |-> None]
    /\ downloads = [x \in Slots |-> None]
    /\ persists = [x \in Slots |-> None]
    /\ pulls = [x \in Slots |-> {}]
    /\ disk = [x \in Slots |-> None]
    /\ answered = {} /\ asked = {} /\ panicked = {} /\ failed = {} /\ timeouts = 0

Running(p) == p \notin panicked \cup failed

Events(type) == {e \in inbox : e.type = type /\ Running(e.to)}

(* The handler of its peer takes e from the inbox and sends the events out. *)
Handle(e, out) == inbox' = (inbox \ {e}) \cup out

Panic(p) == panicked' = panicked \cup {p}

-----------------------------------------------------------------------------
(* Put *)

(* An application puts c at p.  The encoder is built by the codec worker.  *)
Put(p, c) ==
    /\ <<p, c>> \in Putters /\ Running(p) /\ [op |-> "Put", peer |-> p, chunk |-> c] \notin asked
    /\ asked' = asked \cup {[op |-> "Put", peer |-> p, chunk |-> c]}
    /\ uploads' = [uploads EXCEPT ![<<p, c>>] = [encoder |-> FALSE, pending |-> {}, available |-> {}]]
    /\ IF uploads[<<p, c>>] # None
       THEN failed' = failed \cup {p} /\ UNCHANGED inbox
       ELSE /\ inbox' = inbox \cup {[type |-> "NewEncoder", to |-> p, chunk |-> c]}
            /\ UNCHANGED failed
    /\ UNCHANGED <<downloads, persists, storage, transfers, answered, panicked, timeouts>>

NewEncoder(e) ==
    LET p == e.to
        c == e.chunk
        replaced == uploads[<<p, c>>] # None /\ uploads[<<p, c>>].encoder
    IN  /\ Handle(e,
                  IF uploads[<<p, c>>] = None \/ replaced THEN {}
                  ELSE {[type |-> "Invite", to |-> q, chunk |-> c, from |-> p] : q \in Closest[c]})
        /\ uploads' = IF uploads[<<p, c>>] = None THEN uploads
                      ELSE [uploads EXCEPT ![<<p, c>>].encoder = TRUE]
        /\ IF replaced THEN Panic(p) ELSE UNCHANGED panicked
        /\ UNCHANGED <<downloads, persists, storage, transfers, failed, history>>

(* An invited peer draws an index; its answer carries the new draw even    *)
(* when it keeps an older one.  A peer does not invite itself.             *)
RecvInvite(e) ==
    LET p == e.to
        c == e.chunk
    IN  \E index \in Draws[p] :
          /\ Handle(e,
                  IF e.from = p THEN {}
                    ELSE {[type |-> "InviteOk", to |-> e.from, chunk |-> c, index |-> index, from |-> p]})
          /\ persists' = IF e.from = p \/ persists[<<p, c>>] # None THEN persists
                         ELSE [persists EXCEPT ![<<p, c>>] =
                                 [index |-> index, status |-> "Recovering", notify |-> None,
                                  recover |-> NewRecover, received |-> {}, cancelled |-> FALSE]]
          /\ UNCHANGED <<uploads, downloads, storage, transfers, outcomes, history>>

(* Mutant: every peer that answers gets a fragment. *)
RecvInviteOkAny(e) ==
    LET p == e.to
        c == e.chunk
        open == uploads[<<p, c>>] # None
    IN  /\ Handle(e,
                  IF open THEN {[type |-> "Encode", to |-> p, chunk |-> c, index |-> e.index, of |-> e.index]}
                  ELSE {})
        /\ uploads' = IF open
                      THEN [uploads EXCEPT ![<<p, c>>].pending = @ \cup {[index |-> e.index, peer |-> e.from]}]
                      ELSE uploads
        /\ UNCHANGED <<downloads, persists, storage, transfers, outcomes, history>>

(* Mutant: the fragment is encoded for the number of the answer. *)
RecvInviteOkCounted(e) ==
    LET p == e.to
        c == e.chunk
        fresh == uploads[<<p, c>>] # None /\ \A w \in uploads[<<p, c>>].pending : w.index # e.index
    IN  /\ Handle(e,
                  IF fresh THEN {[type |-> "Encode", to |-> p, chunk |-> c, index |-> e.index,
                                  of |-> Cardinality(uploads[<<p, c>>].pending)]}
                  ELSE {})
        /\ uploads' = IF fresh
                      THEN [uploads EXCEPT ![<<p, c>>].pending = @ \cup {[index |-> e.index, peer |-> e.from]}]
                      ELSE uploads
        /\ UNCHANGED <<downloads, persists, storage, transfers, outcomes, history>>

(* The first peer that answers with an index gets the fragment of it. *)
RecvInviteOk(e) ==
    LET p == e.to
        c == e.chunk
        fresh == uploads[<<p, c>>] # None /\ \A w \in uploads[<<p, c>>].pending : w.index # e.index
    IN  /\ Handle(e,
                  IF fresh THEN {[type |-> "Encode", to |-> p, chunk |-> c, index |-> e.index, of |-> e.index]}
                  ELSE {})
        /\ uploads' = IF fresh
                      THEN [uploads EXCEPT ![<<p, c>>].pending = @ \cup {[index |-> e.index, peer |-> e.from]}]
                      ELSE uploads
        /\ IF fresh /\ ~uploads[<<p, c>>].encoder THEN Panic(p) ELSE UNCHANGED panicked
        /\ UNCHANGED <<downloads, persists, storage, transfers, failed, history>>

(* The offer is announced by a message (bulk::Serve); it can be cancelled  *)
(* by the token of the upload.                                             *)
Encode(e) ==
    LET p == e.to
        c == e.chunk
        takers == IF uploads[<<p, c>>] = None THEN {}
                  ELSE {w \in uploads[<<p, c>>].pending : w.index = e.index}
    IN  /\ Handle(e,
                  {[type |-> "RecvOffer", to |-> w.peer, chunk |-> c, index |-> e.index, of |-> e.of,
                    from |-> p, receipt |-> p] : w \in takers})
        /\ UNCHANGED <<uploads, downloads, persists, storage, transfers, outcomes, history>>

Available(p, c, to) == [type |-> "FragmentAvailable", to |-> to, chunk |-> c, from |-> p]

Transfer(e, by) ==
    [to |-> e.to, chunk |-> e.chunk, index |-> e.index, of |-> e.of,
     from |-> e.from, receipt |-> e.receipt, by |-> by]

(* A get of the same chunk is served before the peer's own fragment. *)
RecvOffer(e) ==
    LET p == e.to
        c == e.chunk
        state == persists[<<p, c>>]
        fetching == downloads[<<p, c>>] # None
        persisting == ~fetching /\ state # None
        recovering == persisting /\ state.status = "Recovering"
        own == recovering /\ e.index = state.index
        noted == own /\ state.notify = None /\ e.receipt # None
    IN  /\ Handle(e,
                  IF persisting /\ ~recovering /\ e.receipt # None /\ e.index = state.index
                  THEN {Available(p, c, e.receipt)} ELSE {})
        /\ transfers' = transfers \cup
               IF fetching THEN {Transfer(e, "download")}
               ELSE IF recovering /\ (own => noted) THEN {Transfer(e, "persist")} ELSE {}
        /\ persists' = IF noted THEN [persists EXCEPT ![<<p, c>>].notify = e.receipt] ELSE persists
        /\ IF \/ persisting /\ ~recovering /\ e.receipt # None /\ e.index # state.index
              \/ own /\ state.notify # None
           THEN Panic(p) ELSE UNCHANGED panicked
        /\ failed' = IF own /\ state.notify = None /\ e.receipt = None THEN failed \cup {p} ELSE failed
        /\ UNCHANGED <<uploads, downloads, storage, history>>

-----------------------------------------------------------------------------
(* Transfers and recovery *)

(* A transfer may be stopped once a token of either side is cancelled, but *)
(* it may be too late for that.                                            *)
Cancelled(t) ==
    \/ t.receipt # None /\ uploads[<<t.from, t.chunk>>] = None
    \/ t.by = "download" /\ downloads[<<t.to, t.chunk>>] = None
    \/ t.by = "persist" /\ persists[<<t.to, t.chunk>>].cancelled

TransferOk(t) ==
    /\ Running(t.from) /\ Running(t.to)
    /\ transfers' = transfers \ {t}
    /\ inbox' = inbox \cup {[type |-> "DownloadOk", to |-> t.to, chunk |-> t.chunk,
                             index |-> t.index, of |-> t.of]}
    /\ UNCHANGED <<uploads, downloads, persists, storage, outcomes, history>>

TransferFail(t) ==
    /\ \/ Cancelled(t) /\ UNCHANGED timeouts
       \/ t.receipt = None /\ timeouts < MaxTimeout /\ timeouts' = timeouts + 1
    /\ transfers' = transfers \ {t}
    /\ UNCHANGED <<inbox, uploads, downloads, persists, storage, outcomes, answered, asked>>

Genuine(got) == \A f \in got : f.index = f.of

(* Whether the fountain code is solved by the fragments of got. *)
CanDecode(got) ==
    LET count == Cardinality({f.index : f \in got})
    IN  {done \in BOOLEAN : IF done THEN count >= ChunkK ELSE count < ChunkK + MaxExtra}

(* What the worker may answer when it has decoded got: the decoder, or the *)
(* chunk, or the peer's own fragment encoded from it.                      *)
Decoded(p, c, got, own) ==
    {IF ~done THEN [type |-> "Decode", to |-> p, chunk |-> c, got |-> got]
     ELSE IF own = None THEN [type |-> "Recover", to |-> p, chunk |-> c, genuine |-> Genuine(got)]
     ELSE [type |-> "RecoverEncode", to |-> p, chunk |-> c, of |-> IF Genuine(got) THEN own ELSE None] :
        done \in CanDecode(got)}

(* Mutant: a fragment that finds the decoder away is lost. *)
SubmitDecodeLost(recover, f) == [recover EXCEPT !.decoder = None]

(* submit_decode: the decoder goes to the worker, or the fragment waits.   *)
SubmitDecode(recover, f) ==
    IF recover.decoder # None THEN [recover EXCEPT !.decoder = None]
    ELSE [recover EXCEPT !.pending = {g \in @ : g.index # f.index} \cup {f}]

SubmitEvents(p, c, recover, f, own) ==
    IF recover.decoder # None THEN {{e} : e \in Decoded(p, c, recover.decoder \cup {f}, own)} ELSE {{}}

DownloadOk(e) ==
    LET p == e.to
        c == e.chunk
        f == [index |-> e.index, of |-> e.of]
        state == persists[<<p, c>>]
        fetching == downloads[<<p, c>>] # None
        recovering == ~fetching /\ state # None /\ state.status = "Recovering"
        own == recovering /\ e.index = state.index
        foreign == recovering /\ ~own /\ e.index \notin state.received
    IN  /\ \E out \in IF fetching THEN SubmitEvents(p, c, downloads[<<p, c>>], f, None)
                      ELSE IF foreign THEN SubmitEvents(p, c, state.recover, f, state.index) ELSE {{}} :
              Handle(e, out)
        /\ downloads' = IF fetching THEN [downloads EXCEPT ![<<p, c>>] = SubmitDecode(@, f)] ELSE downloads
        /\ persists' =
              IF own THEN [persists EXCEPT ![<<p, c>>].status = "Storing"]
              ELSE IF foreign
              THEN [persists EXCEPT ![<<p, c>>].received = @ \cup {e.index},
                                    ![<<p, c>>].recover = SubmitDecode(@, f)]
              ELSE persists
        /\ fsTasks' = IF own THEN fsTasks \cup {[op |-> "Store", peer |-> p, chunk |-> c, fragment |-> f]}
                      ELSE fsTasks
        /\ UNCHANGED <<uploads, pulls, disk, transfers, outcomes, history>>

(* on_decode: the decoder is back and takes the next fragment that waits.  *)
OnDecode(recover, got, f) ==
    IF recover.pending = {} THEN [recover EXCEPT !.decoder = got]
    ELSE [recover EXCEPT !.pending = @ \ {f}]

Decode(e) ==
    LET p == e.to
        c == e.chunk
        state == persists[<<p, c>>]
        fetching == downloads[<<p, c>>] # None
        recovering == ~fetching /\ state # None /\ state.status = "Recovering"
        recover == IF fetching THEN downloads[<<p, c>>] ELSE state.recover
        own == IF fetching THEN None ELSE state.index
    IN  /\ \E f \in IF (fetching \/ recovering) /\ recover.pending # {} THEN recover.pending ELSE {None} :
              /\ \E out \in IF f = None THEN {{}} ELSE {{d} : d \in Decoded(p, c, e.got \cup {f}, own)} :
                    Handle(e, out)
              /\ downloads' = IF fetching THEN [downloads EXCEPT ![<<p, c>>] = OnDecode(@, e.got, f)]
                              ELSE downloads
              /\ persists' = IF recovering THEN [persists EXCEPT ![<<p, c>>].recover = OnDecode(@, e.got, f)]
                             ELSE persists
        /\ IF \/ ~fetching /\ state # None /\ ~recovering
              \/ (fetching \/ recovering) /\ recover.decoder # None
           THEN Panic(p) ELSE UNCHANGED panicked
        /\ UNCHANGED <<uploads, storage, transfers, failed, history>>

RecoverEncode(e) ==
    LET p == e.to
        c == e.chunk
        state == persists[<<p, c>>]
    IN  /\ Handle(e, {})
        /\ IF state.status # "Recovering"
           THEN Panic(p) /\ UNCHANGED <<persists, fsTasks>>
           ELSE /\ persists' = [persists EXCEPT ![<<p, c>>].status = "Storing", ![<<p, c>>].cancelled = TRUE]
                /\ fsTasks' = fsTasks \cup {[op |-> "Store", peer |-> p, chunk |-> c,
                                             fragment |-> [index |-> state.index, of |-> e.of]]}
                /\ UNCHANGED panicked
        /\ UNCHANGED <<uploads, downloads, pulls, disk, transfers, failed, history>>

-----------------------------------------------------------------------------
(* The file system: one directory per chunk *)

(* create_dir fails when the directory is there, and ends the peer. *)
FsStore(t) ==
    /\ t.op = "Store" /\ Running(t.peer)
    /\ fsTasks' = fsTasks \ {t}
    /\ IF disk[<<t.peer, t.chunk>>] # None
       THEN failed' = failed \cup {t.peer} /\ UNCHANGED <<disk, inbox>>
       ELSE /\ disk' = [disk EXCEPT ![<<t.peer, t.chunk>>] = t.fragment]
            /\ inbox' = inbox \cup {[type |-> "StoreOk", to |-> t.peer, chunk |-> t.chunk]}
            /\ UNCHANGED failed
    /\ UNCHANGED <<uploads, downloads, persists, pulls, transfers, panicked, history>>

(* The fragment is read and its directory deleted; without it the read     *)
(* fails and ends the peer.                                                *)
FsLoad(t) ==
    /\ t.op = "Load" /\ Running(t.peer)
    /\ fsTasks' = fsTasks \ {t}
    /\ IF disk[<<t.peer, t.chunk>>] = None \/ disk[<<t.peer, t.chunk>>].index # t.index
       THEN failed' = failed \cup {t.peer} /\ UNCHANGED <<disk, inbox>>
       ELSE /\ disk' = [disk EXCEPT ![<<t.peer, t.chunk>>] = None]
            /\ inbox' = inbox \cup {[type |-> "LoadOk", to |-> t.peer, chunk |-> t.chunk,
                                     fragment |-> disk[<<t.peer, t.chunk>>]]}
            /\ UNCHANGED failed
    /\ UNCHANGED <<uploads, downloads, persists, pulls, transfers, panicked, history>>

StoreOk(e) ==
    LET p == e.to
        c == e.chunk
        notify == persists[<<p, c>>].notify
    IN  /\ Handle(e, IF notify = None THEN {} ELSE {Available(p, c, notify)})
        /\ persists' = [persists EXCEPT ![<<p, c>>].status = "Available", ![<<p, c>>].notify = None]
        /\ UNCHANGED <<uploads, downloads, storage, transfers, outcomes, history>>

(* The put ends with the ChunkN-th peer, and its other offers with it. *)
RecvFragmentAvailable(e) ==
    LET p == e.to
        c == e.chunk
        available == uploads[<<p, c>>].available \cup {e.from}
        done == uploads[<<p, c>>] # None /\ Cardinality(available) = ChunkN
    IN  /\ Handle(e, {})
        /\ uploads' = IF uploads[<<p, c>>] = None THEN uploads
                      ELSE [uploads EXCEPT ![<<p, c>>] = IF done THEN None ELSE [@ EXCEPT !.available = available]]
        /\ answered' = IF done THEN answered \cup {[op |-> "Put", peer |-> p, chunk |-> c, genuine |-> TRUE]}
                       ELSE answered
        /\ UNCHANGED <<downloads, persists, storage, transfers, outcomes, asked, timeouts>>

-----------------------------------------------------------------------------
(* Get *)

(* An application gets, from p, a chunk whose put has been answered, once: *)
(* a get takes the fragments off the disks.                                *)
Get(p, c) ==
    /\ <<p, c>> \in Getters /\ Running(p) /\ \A g \in asked : g.op = "Put" \/ g.chunk # c
    /\ \E a \in answered : a.op = "Put" /\ a.chunk = c
    /\ asked' = asked \cup {[op |-> "Get", peer |-> p, chunk |-> c]}
    /\ downloads' = [downloads EXCEPT ![<<p, c>>] = NewRecover]
    /\ IF downloads[<<p, c>>] # None
       THEN failed' = failed \cup {p} /\ UNCHANGED inbox
       ELSE /\ inbox' = inbox \cup {[type |-> "Pull", to |-> q, chunk |-> c, from |-> p] : q \in Closest[c]}
            /\ UNCHANGED failed
    /\ UNCHANGED <<uploads, persists, storage, transfers, answered, panicked, timeouts>>

(* Only an available fragment is loaded, to be deleted from the disk. *)
RecvPull(e) ==
    LET p == e.to
        c == e.chunk
        serve == persists[<<p, c>>] # None /\ persists[<<p, c>>].status = "Available"
    IN  /\ Handle(e, {})
        /\ pulls' = IF serve THEN [pulls EXCEPT ![<<p, c>>] = @ \cup {e.from}] ELSE pulls
        /\ fsTasks' = IF serve
                      THEN fsTasks \cup {[op |-> "Load", peer |-> p, chunk |-> c,
                                          index |-> persists[<<p, c>>].index, by |-> e.from]}
                      ELSE fsTasks
        /\ UNCHANGED <<uploads, downloads, persists, disk, transfers, outcomes, history>>

(* These offers carry no receipt and no token: bulk drops them after a     *)
(* timeout.                                                                *)
LoadOk(e) ==
    LET p == e.to
        c == e.chunk
    IN  /\ Handle(e,
                  {[type |-> "RecvOffer", to |-> q, chunk |-> c, index |-> e.fragment.index,
                    of |-> e.fragment.of, from |-> p, receipt |-> None] : q \in pulls[<<p, c>>]})
        /\ pulls' = [pulls EXCEPT ![<<p, c>>] = {}]
        /\ UNCHANGED <<uploads, downloads, persists, disk, fsTasks, transfers, outcomes, history>>

Recover(e) ==
    LET p == e.to
        c == e.chunk
    IN  /\ Handle(e, {})
        /\ downloads' = [downloads EXCEPT ![<<p, c>>] = None]
        /\ answered' = IF downloads[<<p, c>>] = None THEN answered
                       ELSE answered \cup {[op |-> "Get", peer |-> p, chunk |-> c, genuine |-> e.genuine]}
        /\ UNCHANGED <<uploads, persists, storage, transfers, outcomes, asked, timeouts>>

-----------------------------------------------------------------------------
(* on_buf and the sessions hand every event to its handler. *)
Event ==
    \/ \E e \in Events("NewEncoder") : NewEncoder(e)
    \/ \E e \in Events("Invite") : RecvInvite(e)
    \/ \E e \in Events("InviteOk") : RecvInviteOk(e)
    \/ \E e \in Events("Encode") : Encode(e)
    \/ \E e \in Events("RecvOffer") : RecvOffer(e)
    \/ \E e \in Events("DownloadOk") : DownloadOk(e)
    \/ \E e \in Events("Decode") : Decode(e)
    \/ \E e \in Events("RecoverEncode") : RecoverEncode(e)
    \/ \E e \in Events("StoreOk") : StoreOk(e)
    \/ \E e \in Events("FragmentAvailable") : RecvFragmentAvailable(e)
    \/ \E e \in Events("Pull") : RecvPull(e)
    \/ \E e \in Events("LoadOk") : LoadOk(e)
    \/ \E e \in Events("Recover") : Recover(e)

Application == \E x \in Slots : Put(x[1], x[2]) \/ Get(x[1], x[2])

EntropyWork ==
    \/ Event
    \/ \E t \in transfers : TransferOk(t)
    \/ \E t \in fsTasks : FsStore(t) \/ FsLoad(t)

EntropyNext == Application \/ EntropyWork \/ \E t \in transfers : TransferFail(t)

EntropySpec == EntropyInit /\ [][EntropyNext]_entropyVars

-----------------------------------------------------------------------------
Answered(op, p, c) == \E a \in answered : a.op = op /\ a.peer = p /\ a.chunk = c
Asked(op, p, c) == [op |-> op, peer |-> p, chunk |-> c] \in asked

(* The indices whose fragments peers have stored (and may have given away  *)
(* to a get since).                                                        *)
StoredIndices(c) ==
    {persists[<<p, c>>].index : p \in {q \in Peers : persists[<<q, c>>] # None /\ persists[<<q, c>>].status = "Available"}}

(* Peer p asked for a chunk that it was itself invited to persist. *)
Overlap(p) == \E c \in Chunks : Asked("Get", p, c) /\ persists[<<p, c>>] # None

(* None of the assertions (the encoder at NewEncoder and InviteOk, index   *)
(* and notify of an offer, status and decoder at Decode and RecoverEncode) *)
(* fails and no session ends with an error (a directory that is there, a   *)
(* file that is not, an own fragment without a receipt), in whatever order *)
(* events of the two paths to a fragment are handled, its own transfer and *)
(* the recovery from others: only a peer that gets a chunk it is to        *)
(* persist can fail.                                                       *)
FailsOnlyByOverlap == \A p \in panicked \cup failed : Overlap(p)

(* The fragment a peer stores, and every chunk a get returns, is computed  *)
(* for the index it is known under, whichever path it came by.             *)
GenuineData ==
    /\ \A x \in Slots : disk[x] # None => disk[x].index = disk[x].of /\ disk[x].index = persists[x].index
    /\ \A a \in answered : a.genuine

(* What an application at x[1] sees of its put and its get of chunk x[2], *)
(* and the chunks that can be got.                                         *)
Call(op, p, c) == IF Answered(op, p, c) THEN "ok" ELSE IF Asked(op, p, c) THEN "pending" ELSE "idle"
Puts == [x \in Slots |-> Call("Put", x[1], x[2])]
Gets == [x \in Slots |-> Call("Get", x[1], x[2])]
Stored == {c \in Chunks : Cardinality(StoredIndices(c)) >= ChunkN}

Abs == INSTANCE ChunkStore WITH storePut <- Puts, storeGet <- Gets, stored <- Stored

(* PutOk comes when ChunkN fragments of different indices have been stored *)
(* (a peer that drew an index another one has gets none), GetOk only for   *)
(* such a chunk, and each once.                                            *)
ImplementsChunkStore == Abs!StoreSpec

(* Until somebody gets the chunk, ChunkN different fragments of it stay on *)
(* the disks after PutOk: what is available has not been loaded with take. *)
Durable ==
    \A p \in Peers, c \in Chunks :
        Answered("Put", p, c) /\ (\A q \in Peers : ~Asked("Get", q, c)) =>
            Cardinality({disk[<<q, c>>].index : q \in {r \in Peers : disk[<<r, c>>] # None}}) >= ChunkN

(* Two of the peers invited for c have drawn the same index. *)
Collision(c) ==
    \E p, q \in Peers : /\ p # q /\ persists[<<p, c>>] # None /\ persists[<<q, c>>] # None
                        /\ persists[<<p, c>>].index = persists[<<q, c>>].index

(* A put ends unless draws collide; a get of a chunk whose put ended ends  *)
(* unless one of the offers to it times out.                               *)
EntropyEnds ==
    <>[](\A p \in Peers, c \in Chunks :
            /\ Asked("Put", p, c) => Answered("Put", p, c) \/ Collision(c)
            /\ Asked("Get", p, c) => Answered("Get", p, c) \/ timeouts > 0)

(* The data is safe: no peer fails but by the overlap, what is stored and  *)
(* returned is genuine, and what PutOk reported stays (lib.rs:477, 567).   *)
DataSafe == FailsOnlyByOverlap /\ GenuineData /\ Durable
=============================================================================
