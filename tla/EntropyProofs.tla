--------------------------- MODULE EntropyProofs ----------------------------
(***************************************************************************)
(* Proofs about Entropy, for any finite set of peers, any chunks, closest  *)
(* peers and draws: its data is safe and it implements ChunkStore.         *)
(*                                                                         *)
(* The events on their way decide: EInv says of each kind of event, task   *)
(* and transfer what still holds when it will be handled.  Mono says what  *)
(* no step undoes; the lemmas *Kept, Quiet* and Move* carry a kind over    *)
(* steps that do not concern it, so that the lemma of a step is about the  *)
(* events it takes and sends.                                              *)
(***************************************************************************)
EXTENDS Entropy, FiniteSetTheorems, TLAPS

(* UploadState: one peer for each index that is pending. *)
UploadStates == [encoder : BOOLEAN, pending : SUBSET [index : Indices, peer : Peers], available : SUBSET Peers]

(* What is on its way: the events of a type, the tasks of a kind. *)
Of(type) == {e \in inbox : e.type = type}
Tasks(op) == {t \in fsTasks : t.op = op}

(* The state of q for c; Waiting: not offered its fragment yet.            *)
(* Paired: every upload that goes on counts on q for the index q has.      *)
Invited(q, c) == persists[<<q, c>>] # None
Index(q, c) == persists[<<q, c>>].index
In(q, c, status) == Invited(q, c) /\ persists[<<q, c>>].status = status
Waiting(q, c) == In(q, c, "Recovering") /\ persists[<<q, c>>].notify = None
Taken(q, c) == In(q, c, "Recovering") /\ persists[<<q, c>>].notify # None
Paired(q, c) ==
  /\ Invited(q, c)
  /\ \A u \in Peers : uploads[<<u, c>>] # None => [index |-> Index(q, c), peer |-> q] \in uploads[<<u, c>>].pending
(* What is done for q or for c: an offer with a receipt, a put, a get, a   *)
(* fragment that has arrived.                                              *)
Offered(q, c) == \E o \in Of("RecvOffer") : o.receipt # None /\ o.to = q /\ o.chunk = c
Begun(c) == \E u \in Peers : Asked("Put", u, c)
Fetched(c) == \E q \in Peers : Asked("Get", q, c)
Arrived(q, c) == \E e \in Of("DownloadOk") : e.to = q /\ e.chunk = c

(* ChunkN peers with different indices have stored their fragments. *)
Served(c) ==
  \E S \in SUBSET Peers :
    /\ Cardinality(S) = ChunkN
    /\ \A q \in S : In(q, c, "Available")
    /\ \A q, r \in S : Index(q, c) = Index(r, c) => q = r

(* The events and tasks as the handlers send them, all of genuine data. *)
NewEncoderEvent(p, c) == [type |-> "NewEncoder", to |-> p, chunk |-> c]
InviteEvent(q, c, u) == [type |-> "Invite", to |-> q, chunk |-> c, from |-> u]
InviteOkEvent(u, c, i, q) == [type |-> "InviteOk", to |-> u, chunk |-> c, index |-> i, from |-> q]
EncodeEvent(u, c, i) == [type |-> "Encode", to |-> u, chunk |-> c, index |-> i, of |-> i]
OfferEvent(q, c, i, u) ==
  [type |-> "RecvOffer", to |-> q, chunk |-> c, index |-> i, of |-> i, from |-> u, receipt |-> u]
OfferTransfer(q, c, i, u) ==
  [to |-> q, chunk |-> c, index |-> i, of |-> i, from |-> u, receipt |-> u, by |-> "persist"]
DownloadEvent(q, c, i) == [type |-> "DownloadOk", to |-> q, chunk |-> c, index |-> i, of |-> i]
StoreTask(q, c, i) == [op |-> "Store", peer |-> q, chunk |-> c, fragment |-> [index |-> i, of |-> i]]
StoreOkEvent(q, c) == [type |-> "StoreOk", to |-> q, chunk |-> c]
PullEvent(q, c, g) == [type |-> "Pull", to |-> q, chunk |-> c, from |-> g]
LoadTask(q, c, i, g) == [op |-> "Load", peer |-> q, chunk |-> c, index |-> i, by |-> g]

(* The put's events.  The encoder comes before anybody is invited.         *)
NewEncoderRight(e) ==
  /\ e = NewEncoderEvent(e.to, e.chunk)
  /\ Asked("Put", e.to, e.chunk)
  /\ \A q \in Peers : ~Invited(q, e.chunk)
  /\ \A i \in Of("Invite") : i.chunk # e.chunk

(* A peer is invited once, by an upload whose encoder is there. *)
InviteRight(e) ==
  /\ e.to \in Peers
  /\ e = InviteEvent(e.to, e.chunk, e.from)
  /\ Asked("Put", e.from, e.chunk)
  /\ ~Invited(e.to, e.chunk)
  /\ uploads[<<e.from, e.chunk>>] # None => uploads[<<e.from, e.chunk>>].encoder

(* The answer carries the index the peer keeps, and nothing is sent to it  *)
(* before the upload has this answer.                                      *)
InviteOkRight(e) ==
  /\ e.from \in Peers
  /\ Invited(e.from, e.chunk)
  /\ e = InviteOkEvent(e.to, e.chunk, Index(e.from, e.chunk), e.from)
  /\ Asked("Put", e.to, e.chunk)
  /\ uploads[<<e.to, e.chunk>>] # None =>
       /\ uploads[<<e.to, e.chunk>>].encoder
       /\ Waiting(e.from, e.chunk) /\ ~Offered(e.from, e.chunk)
       /\ \A w \in uploads[<<e.to, e.chunk>>].pending : w.peer # e.from

(* The peer the fragment is for still waits for it. *)
EncodeRight(e) ==
  /\ e.index \in Indices
  /\ e = EncodeEvent(e.to, e.chunk, e.index)
  /\ Asked("Put", e.to, e.chunk)
  /\ uploads[<<e.to, e.chunk>>] # None =>
       \E w \in uploads[<<e.to, e.chunk>>].pending :
         w.index = e.index /\ Waiting(w.peer, e.chunk) /\ ~Offered(w.peer, e.chunk)

(* An offer is the peer's own fragment, with a receipt, and the peer waits *)
(* for it; or the peer gets the chunk.                                     *)
OfferRight(e) ==
  /\ e.to \in Peers /\ e.chunk \in Chunks /\ e.index \in Indices /\ e.of = e.index
  /\ e.receipt = None => Asked("Get", e.to, e.chunk)
  /\ e.receipt # None =>
       /\ Paired(e.to, e.chunk)
       /\ e = OfferEvent(e.to, e.chunk, Index(e.to, e.chunk), e.receipt)
       /\ Asked("Put", e.receipt, e.chunk)
       /\ Asked("Get", e.to, e.chunk) \/ Waiting(e.to, e.chunk)

(* A transfer brings a fragment to a peer that gets the chunk, or, once,   *)
(* its own to a peer that was offered it.                                  *)
TransferRight(t) ==
  /\ t.to \in Peers /\ t.chunk \in Chunks /\ t.index \in Indices /\ t.of = t.index
  /\ \/ Asked("Get", t.to, t.chunk)
     \/ /\ Taken(t.to, t.chunk) /\ ~Arrived(t.to, t.chunk)
        /\ t = OfferTransfer(t.to, t.chunk, Index(t.to, t.chunk), t.receipt)
        /\ Asked("Put", t.receipt, t.chunk)

(* So does a fragment that has arrived. *)
DownloadRight(e) ==
  /\ e.to \in Peers /\ e.chunk \in Chunks /\ e.index \in Indices
  /\ e = DownloadEvent(e.to, e.chunk, e.index)
  /\ \/ Asked("Get", e.to, e.chunk)
     \/ Taken(e.to, e.chunk) /\ e.index = Index(e.to, e.chunk)

(* The worker answers a peer that gets the chunk: nobody else is sent      *)
(* fragments other than its own.                                           *)
DecodeRight(e) == Asked("Get", e.to, e.chunk) /\ e.got \in SUBSET Fragments /\ Genuine(e.got)

RecoverRight(e) == Asked("Get", e.to, e.chunk) /\ e.genuine

RecoverEncodeRight(e) ==
  Asked("Get", e.to, e.chunk) /\ Invited(e.to, e.chunk) /\ e.of = Index(e.to, e.chunk)

(* A fragment is stored once. *)
StoreRight(t) ==
  /\ t.peer \in Peers /\ t.chunk \in Chunks
  /\ In(t.peer, t.chunk, "Storing")
  /\ t = StoreTask(t.peer, t.chunk, Index(t.peer, t.chunk))
  /\ disk[<<t.peer, t.chunk>>] = None
  /\ StoreOkEvent(t.peer, t.chunk) \notin inbox

StoreOkRight(e) ==
  /\ e.to \in Peers /\ e.chunk \in Chunks /\ e = StoreOkEvent(e.to, e.chunk)
  /\ In(e.to, e.chunk, "Storing") /\ disk[<<e.to, e.chunk>>] # None

(* A peer that reports is stored, and pending at the uploader. *)
AvailableRight(e) ==
  /\ e.from \in Peers
  /\ Asked("Put", e.to, e.chunk)
  /\ uploads[<<e.to, e.chunk>>] # None => In(e.from, e.chunk, "Available") /\ Paired(e.from, e.chunk)

(* A fragment is pulled, and loaded, once. *)
PullRight(e) ==
  /\ e.to \in Peers /\ e = PullEvent(e.to, e.chunk, e.from)
  /\ Asked("Get", e.from, e.chunk)
  /\ \A t \in Tasks("Load") : <<t.peer, t.chunk>> # <<e.to, e.chunk>>
  /\ In(e.to, e.chunk, "Available") => disk[<<e.to, e.chunk>>] # None

LoadRight(t) ==
  /\ t.peer \in Peers
  /\ In(t.peer, t.chunk, "Available") /\ disk[<<t.peer, t.chunk>>] # None
  /\ t = LoadTask(t.peer, t.chunk, Index(t.peer, t.chunk), t.by)
  /\ Asked("Get", t.by, t.chunk)

LoadOkRight(e) ==
  /\ e.to \in Peers /\ e.chunk \in Chunks
  /\ e.fragment \in Fragments /\ e.fragment.index = e.fragment.of

(* The maps of a peer.  A fragment leaves the disk only for a get. *)
PersistRight(q, c) ==
  Invited(q, c) =>
    /\ Begun(c)
    /\ persists[<<q, c>>].recover.decoder # None => Genuine(persists[<<q, c>>].recover.decoder)
    /\ Genuine(persists[<<q, c>>].recover.pending)
    /\ In(q, c, "Recovering") => disk[<<q, c>>] = None
    /\ In(q, c, "Available") => disk[<<q, c>>] # None \/ Fetched(c)
    /\ persists[<<q, c>>].notify # None => Paired(q, c) /\ Asked("Put", persists[<<q, c>>].notify, c)

DiskRight(q, c) ==
  disk[<<q, c>>] # None => Invited(q, c) /\ disk[<<q, c>>] = [index |-> Index(q, c), of |-> Index(q, c)]

(* An upload has one pending peer for an index, which has that index. *)
UploadRight(p, c) ==
  uploads[<<p, c>>] # None =>
    /\ Asked("Put", p, c) /\ ~Answered("Put", p, c)
    /\ \A w \in uploads[<<p, c>>].pending : Invited(w.peer, c) /\ w.index = Index(w.peer, c)
    /\ \A v, w \in uploads[<<p, c>>].pending : v.index = w.index => v = w
    /\ \A q \in uploads[<<p, c>>].available : In(q, c, "Available") /\ Paired(q, c)

DownloadsRight(p, c) ==
  downloads[<<p, c>>] # None =>
    /\ Asked("Get", p, c) /\ ~Answered("Get", p, c)
    /\ downloads[<<p, c>>].decoder # None => Genuine(downloads[<<p, c>>].decoder)
    /\ Genuine(downloads[<<p, c>>].pending)

PullsRight(p, c) == \A q \in pulls[<<p, c>>] : Asked("Get", q, c)

(* The calls: one put and one get of a chunk, the get after PutOk. *)
AskedRight ==
  /\ \A g \in asked : g.peer \in Peers /\ g.chunk \in Chunks
  /\ \A g \in asked : g.op = "Put" => <<g.peer, g.chunk>> \in Putters
  /\ \A g, h \in asked : g.op = "Get" /\ h.op = "Get" /\ g.chunk = h.chunk => g.peer = h.peer
  /\ \A g \in asked : g.op = "Get" => \E a \in answered : a.op = "Put" /\ a.chunk = g.chunk

AnsweredRight(a) ==
  /\ a.genuine
  /\ Asked(a.op, a.peer, a.chunk)
  /\ a.op = "Put" => Served(a.chunk)

(* The types of the maps. *)
SlotTypes ==
  /\ uploads \in [Slots -> UploadStates \cup {None}]
  /\ downloads \in [Slots -> RecoverStates \cup {None}]
  /\ persists \in [Slots -> PersistStates \cup {None}]
  /\ pulls \in [Slots -> SUBSET Peers]
  /\ disk \in [Slots -> Fragments \cup {None}]
  /\ panicked \subseteq Peers /\ failed \subseteq Peers

(* The events and tasks of one kind. *)
AllNewEncoders == \A e \in Of("NewEncoder") : NewEncoderRight(e)
AllInvites == \A e \in Of("Invite") : InviteRight(e)
AllInviteOks == \A e \in Of("InviteOk") : InviteOkRight(e)
AllEncodes == \A e \in Of("Encode") : EncodeRight(e)
AllOffers == \A e \in Of("RecvOffer") : OfferRight(e)
AllDownloads == \A e \in Of("DownloadOk") : DownloadRight(e)
AllDecodes == \A e \in Of("Decode") : DecodeRight(e)
AllRecovers == \A e \in Of("Recover") : RecoverRight(e)
AllRecoverEncodes == \A e \in Of("RecoverEncode") : RecoverEncodeRight(e)
AllStoreOks == \A e \in Of("StoreOk") : StoreOkRight(e)
AllAvailables == \A e \in Of("FragmentAvailable") : AvailableRight(e)
AllPulls == \A e \in Of("Pull") : PullRight(e)
AllLoadOks == \A e \in Of("LoadOk") : LoadOkRight(e)
AllTransfers == \A t \in transfers : TransferRight(t)
AllStores == \A t \in Tasks("Store") : StoreRight(t)
AllLoads == \A t \in Tasks("Load") : LoadRight(t)
AllPersists == \A q \in Peers, c \in Chunks : PersistRight(q, c)
AllDisks == \A q \in Peers, c \in Chunks : DiskRight(q, c)
AllUploads == \A q \in Peers, c \in Chunks : UploadRight(q, c)
AllFetches == \A q \in Peers, c \in Chunks : DownloadsRight(q, c)
AllPullers == \A q \in Peers, c \in Chunks : PullsRight(q, c)
AllAnswered == \A a \in answered : AnsweredRight(a)

EventsRight ==
  /\ AllNewEncoders /\ AllInvites /\ AllInviteOks /\ AllEncodes /\ AllOffers /\ AllDownloads
  /\ AllDecodes /\ AllRecovers /\ AllRecoverEncodes /\ AllStoreOks /\ AllAvailables /\ AllPulls /\ AllLoadOks

WorkRight == AllTransfers /\ AllStores /\ AllLoads

SlotsRight == AllPersists /\ AllDisks /\ AllUploads /\ AllFetches /\ AllPullers

(* The inductive invariant. *)
EInv ==
  /\ SlotTypes /\ EventsRight /\ WorkRight /\ SlotsRight
  /\ AskedRight /\ AllAnswered /\ FailsOnlyByOverlap

(* The worker's answers find the place they go back to still empty: an     *)
(* upload without encoder, a get whose decoder is away, and only one of it. *)
Awaited ==
  /\ \A e \in Of("NewEncoder") : uploads[<<e.to, e.chunk>>] # None => ~uploads[<<e.to, e.chunk>>].encoder
  /\ \A e \in Of("Decode") :
       downloads[<<e.to, e.chunk>>] # None =>
         /\ downloads[<<e.to, e.chunk>>].decoder = None
         /\ \A d \in Of("Decode") : d.to = e.to /\ d.chunk = e.chunk => d = e

-----------------------------------------------------------------------------
(* What a step leaves of a slot. *)
Same(q, c) ==
  /\ Invited(q, c)' = Invited(q, c)
  /\ Index(q, c)' = Index(q, c)
  /\ persists'[<<q, c>>].status = persists[<<q, c>>].status
  /\ persists'[<<q, c>>].notify = persists[<<q, c>>].notify

(* No step takes a peer's state away, or its index, or its fragment. *)
Forward(q, c) ==
  Invited(q, c) =>
    /\ Invited(q, c)' /\ Index(q, c)' = Index(q, c)
    /\ persists[<<q, c>>].status = "Available" => persists'[<<q, c>>].status = "Available"

(* An upload whose put was made loses nothing until it ends. *)
UploadForward(u, c) ==
  uploads'[<<u, c>>] # None /\ Begun(c) =>
    /\ uploads[<<u, c>>] # None
    /\ uploads[<<u, c>>].pending \subseteq uploads'[<<u, c>>].pending
    /\ uploads[<<u, c>>].encoder => uploads'[<<u, c>>].encoder

(* What every step does. *)
Mono ==
  /\ asked \subseteq asked' /\ answered \subseteq answered'
  /\ \A q \in Peers, c \in Chunks : Forward(q, c)
  /\ \A q \in Peers, c \in Chunks : UploadForward(q, c)

(* Calls are made at peers, a chunk is put by one of them                  *)
(* (EntropyAssumption) and got by one of them, and only after PutOk.       *)
LEMMA AskedFacts ==
  ASSUME AskedRight
  PROVE  /\ \A op, p, c : Asked(op, p, c) => p \in Peers /\ c \in Chunks
         /\ \A p, q, c : Asked("Put", p, c) /\ Asked("Put", q, c) => p = q
         /\ \A p, q, c : Asked("Get", p, c) /\ Asked("Get", q, c) => p = q
         /\ \A p, c : Asked("Get", p, c) => \E a \in answered : a.op = "Put" /\ a.chunk = c
<1>1. \A op, p, c : Asked(op, p, c) => p \in Peers /\ c \in Chunks
  BY DEF AskedRight, Asked
<1>2. ASSUME NEW p, NEW q, NEW c, Asked("Put", p, c), Asked("Put", q, c) PROVE p = q
  <2>1. <<p, c>> \in Putters /\ <<q, c>> \in Putters
    BY <1>2 DEF AskedRight, Asked
  <2>2. <<p, c>> = <<q, c>>
    BY <2>1, EntropyAssumption
  <2> QED BY <2>2
<1>3. ASSUME NEW p, NEW q, NEW c, Asked("Get", p, c), Asked("Get", q, c) PROVE p = q
  BY <1>3 DEF AskedRight, Asked
<1>4. ASSUME NEW p, NEW c, Asked("Get", p, c) PROVE \E a \in answered : a.op = "Put" /\ a.chunk = c
  <2>1. [op |-> "Get", peer |-> p, chunk |-> c] \in asked
    BY <1>4 DEF Asked
  <2>2. \E a \in answered : a.op = "Put" /\ a.chunk = [op |-> "Get", peer |-> p, chunk |-> c].chunk
    BY <2>1 DEF AskedRight
  <2> QED BY <2>2
<1> QED BY <1>1, <1>2, <1>3, <1>4

(* A call once made stays made. *)
LEMMA AskedKept == ASSUME Mono, NEW op, NEW p, NEW c, Asked(op, p, c) PROVE Asked(op, p, c)'
BY DEF Mono, Asked

(* A chunk whose put was made stays so. *)
LEMMA BegunKept == ASSUME Mono, NEW c, Begun(c) PROVE Begun(c)'
BY AskedKept DEF Begun

(* A chunk whose get was made stays so. *)
LEMMA FetchedKept == ASSUME Mono, NEW c, Fetched(c) PROVE Fetched(c)'
BY AskedKept DEF Fetched

(* An invited peer keeps its state and its index, and one that is          *)
(* Available stays so.                                                     *)
LEMMA InvitedKept ==
  ASSUME Mono, NEW q \in Peers, NEW c \in Chunks, Invited(q, c)
  PROVE  /\ Invited(q, c)' /\ Index(q, c)' = Index(q, c)
         /\ In(q, c, "Available") => In(q, c, "Available")'
BY DEF Mono, Forward, In

(* A slot that stays the same keeps its status. *)
LEMMA SameIn ==
  ASSUME NEW q, NEW c, Same(q, c)
  PROVE  /\ Invited(q, c)' = Invited(q, c)
         /\ \A s : In(q, c, s)' = In(q, c, s)
         /\ Waiting(q, c)' = Waiting(q, c) /\ Taken(q, c)' = Taken(q, c)
BY DEF Same, In, Waiting, Taken, Invited

(* A peer that is among the pending of every upload stays there: uploads   *)
(* only grow, or end.                                                      *)
LEMMA PairedKept ==
  ASSUME Mono, NEW q \in Peers, NEW c \in Chunks, Paired(q, c), Begun(c)
  PROVE  Paired(q, c)'
<1>1. Invited(q, c)' /\ Index(q, c)' = Index(q, c)
  BY InvitedKept DEF Paired
<1>2. ASSUME NEW u \in Peers, uploads'[<<u, c>>] # None
      PROVE  [index |-> Index(q, c), peer |-> q] \in uploads'[<<u, c>>].pending
  <2>1. uploads[<<u, c>>] # None /\ uploads[<<u, c>>].pending \subseteq uploads'[<<u, c>>].pending
    BY <1>2 DEF Mono, UploadForward
  <2> QED BY <2>1 DEF Paired
<1> QED BY <1>1, <1>2 DEF Paired

(* ChunkN Available peers of different indices stay that. *)
LEMMA ServedKept ==
  ASSUME Mono, NEW c \in Chunks, Served(c)
  PROVE  Served(c)'
<1>1. PICK S \in SUBSET Peers : /\ Cardinality(S) = ChunkN
                                /\ \A q \in S : In(q, c, "Available")
                                /\ \A q, r \in S : Index(q, c) = Index(r, c) => q = r
  BY DEF Served
<1>2. \A q \in S : In(q, c, "Available")' /\ Index(q, c)' = Index(q, c)
  BY <1>1, InvitedKept DEF In
<1> QED BY <1>1, <1>2 DEF Served

(* A peer that gets a chunk it was invited for stays one. *)
LEMMA OverlapKept ==
  ASSUME Mono, NEW p \in Peers, Overlap(p)
  PROVE  Overlap(p)'
<1>1. PICK c \in Chunks : Asked("Get", p, c) /\ Invited(p, c)
  BY DEF Overlap, Invited
<1>2. Asked("Get", p, c)' /\ Invited(p, c)'
  BY <1>1, AskedKept, InvitedKept
<1> QED BY <1>2 DEF Overlap, Invited

-----------------------------------------------------------------------------
(* What is said of an event, a transfer, a task or a slot stays true under *)
(* a step that leaves alone what it depends on.                            *)
LEMMA NewEncoderKept ==
  ASSUME Mono, NEW e, NewEncoderRight(e),
         \A q \in Peers : Invited(q, e.chunk)' => Invited(q, e.chunk),
         \A i \in Of("Invite")' : i.chunk = e.chunk => i \in Of("Invite")
  PROVE  NewEncoderRight(e)'
<1>1. Asked("Put", e.to, e.chunk)'
  BY AskedKept DEF NewEncoderRight
<1> QED BY <1>1 DEF NewEncoderRight, NewEncoderEvent

(* An upload that goes on after a step went on before it, with no more in  *)
(* its favour.                                                             *)
LEMMA LiveKept ==
  ASSUME Mono, AskedRight, NEW u, NEW c, Asked("Put", u, c), uploads'[<<u, c>>] # None
  PROVE  /\ u \in Peers /\ c \in Chunks /\ uploads[<<u, c>>] # None
         /\ uploads[<<u, c>>].pending \subseteq uploads'[<<u, c>>].pending
         /\ uploads[<<u, c>>].encoder => uploads'[<<u, c>>].encoder
<1>1. u \in Peers /\ c \in Chunks
  BY AskedFacts
<1>2. Begun(c)
  BY <1>1 DEF Begun
<1> QED BY <1>1, <1>2 DEF Mono, UploadForward

(* An Invite stays right while its peer is not invited. *)
LEMMA InviteKept ==
  ASSUME Mono, AskedRight, NEW e, InviteRight(e), Invited(e.to, e.chunk)' => Invited(e.to, e.chunk)
  PROVE  InviteRight(e)'
<1>1. Asked("Put", e.from, e.chunk)'
  BY AskedKept DEF InviteRight
<1>2. uploads'[<<e.from, e.chunk>>] # None => uploads'[<<e.from, e.chunk>>].encoder
  BY LiveKept DEF InviteRight
<1> QED BY <1>1, <1>2 DEF InviteRight, InviteEvent

(* An InviteOk stays right while its sender waits for the offer, no offer  *)
(* is made to it and it gets no entry in the upload.                       *)
LEMMA InviteOkKept ==
  ASSUME Mono, AskedRight, NEW e, InviteOkRight(e),
         uploads'[<<e.to, e.chunk>>] # None =>
           /\ Same(e.from, e.chunk) /\ (Offered(e.from, e.chunk)' => Offered(e.from, e.chunk))
           /\ \A w \in uploads'[<<e.to, e.chunk>>].pending :
                w.peer = e.from => w \in uploads[<<e.to, e.chunk>>].pending
  PROVE  InviteOkRight(e)'
<1>1. Asked("Put", e.to, e.chunk) /\ Asked("Put", e.to, e.chunk)'
  BY AskedKept DEF InviteOkRight
<1>2. e.to \in Peers /\ e.chunk \in Chunks /\ e.from \in Peers
  BY <1>1, AskedFacts DEF InviteOkRight
<1>3. Invited(e.from, e.chunk)' /\ Index(e.from, e.chunk)' = Index(e.from, e.chunk)
  BY <1>2, InvitedKept DEF InviteOkRight
<1>4. ASSUME uploads'[<<e.to, e.chunk>>] # None
      PROVE  /\ uploads'[<<e.to, e.chunk>>].encoder
             /\ Waiting(e.from, e.chunk)' /\ ~Offered(e.from, e.chunk)'
             /\ \A w \in uploads'[<<e.to, e.chunk>>].pending : w.peer # e.from
  <2>1. uploads[<<e.to, e.chunk>>] # None
        /\ (uploads[<<e.to, e.chunk>>].encoder => uploads'[<<e.to, e.chunk>>].encoder)
    BY <1>1, <1>4, LiveKept
  <2>2. Waiting(e.from, e.chunk)' = Waiting(e.from, e.chunk)
    BY <1>4, SameIn
  <2> QED BY <1>4, <2>1, <2>2 DEF InviteOkRight
<1> QED BY <1>1, <1>2, <1>3, <1>4 DEF InviteOkRight, InviteOkEvent

(* An encoded fragment stays right while the peer it is for waits for it. *)
LEMMA EncodeKept ==
  ASSUME Mono, AskedRight, NEW e, EncodeRight(e),
         \A w \in uploads[<<e.to, e.chunk>>].pending :
           uploads[<<e.to, e.chunk>>] # None /\ w.index = e.index /\ Waiting(w.peer, e.chunk) =>
             Same(w.peer, e.chunk) /\ (Offered(w.peer, e.chunk)' => Offered(w.peer, e.chunk))
  PROVE  EncodeRight(e)'
<1>1. Asked("Put", e.to, e.chunk) /\ Asked("Put", e.to, e.chunk)'
  BY AskedKept DEF EncodeRight
<1>2. ASSUME uploads'[<<e.to, e.chunk>>] # None
      PROVE  \E w \in uploads'[<<e.to, e.chunk>>].pending :
               w.index = e.index /\ Waiting(w.peer, e.chunk)' /\ ~Offered(w.peer, e.chunk)'
  <2>1. uploads[<<e.to, e.chunk>>] # None
        /\ uploads[<<e.to, e.chunk>>].pending \subseteq uploads'[<<e.to, e.chunk>>].pending
    BY <1>1, <1>2, LiveKept
  <2>2. PICK w \in uploads[<<e.to, e.chunk>>].pending :
          w.index = e.index /\ Waiting(w.peer, e.chunk) /\ ~Offered(w.peer, e.chunk)
    BY <2>1 DEF EncodeRight
  <2>3. Same(w.peer, e.chunk) /\ (Offered(w.peer, e.chunk)' => Offered(w.peer, e.chunk))
    BY <2>1, <2>2
  <2>4. Waiting(w.peer, e.chunk)' = Waiting(w.peer, e.chunk)
    BY <2>3, SameIn
  <2> QED BY <2>1, <2>2, <2>3, <2>4
<1> QED BY <1>1, <1>2 DEF EncodeRight, EncodeEvent

(* An offer stays right while the peer it is for does not move, or once    *)
(* that peer gets the chunk.                                               *)
LEMMA OfferKept ==
  ASSUME Mono, AskedRight, NEW e, OfferRight(e),
         e.receipt # None /\ ~Asked("Get", e.to, e.chunk) => Same(e.to, e.chunk)
  PROVE  OfferRight(e)'
<1>1. /\ Asked("Get", e.to, e.chunk) => Asked("Get", e.to, e.chunk)'
      /\ Asked("Put", e.receipt, e.chunk) => Asked("Put", e.receipt, e.chunk)' /\ Begun(e.chunk)
  BY AskedKept, AskedFacts DEF Begun
<1>2. ASSUME e.receipt # None PROVE Paired(e.to, e.chunk)' /\ Index(e.to, e.chunk)' = Index(e.to, e.chunk)
  BY <1>1, <1>2, PairedKept, InvitedKept DEF OfferRight, Paired
<1>3. ASSUME e.receipt # None, ~Asked("Get", e.to, e.chunk) PROVE Waiting(e.to, e.chunk)'
  BY <1>3, SameIn DEF OfferRight
<1> QED BY <1>1, <1>2, <1>3 DEF OfferRight, OfferEvent

(* So does a transfer, while nothing arrives for the peer. *)
LEMMA TransferKept ==
  ASSUME Mono, NEW t, TransferRight(t),
         ~Asked("Get", t.to, t.chunk) =>
            Same(t.to, t.chunk) /\ (Arrived(t.to, t.chunk)' => Arrived(t.to, t.chunk))
  PROVE  TransferRight(t)'
<1>1. /\ Asked("Get", t.to, t.chunk) => Asked("Get", t.to, t.chunk)'
      /\ Asked("Put", t.receipt, t.chunk) => Asked("Put", t.receipt, t.chunk)'
  BY AskedKept
<1>2. ASSUME ~Asked("Get", t.to, t.chunk)
      PROVE  /\ Taken(t.to, t.chunk)' /\ ~Arrived(t.to, t.chunk)'
             /\ Index(t.to, t.chunk)' = Index(t.to, t.chunk)
  BY <1>2, SameIn DEF TransferRight, Same
<1> QED BY <1>1, <1>2 DEF TransferRight, OfferTransfer

(* So does a fragment that has arrived. *)
LEMMA DownloadKept ==
  ASSUME Mono, NEW e, DownloadRight(e), ~Asked("Get", e.to, e.chunk) => Same(e.to, e.chunk)
  PROVE  DownloadRight(e)'
<1>1. Asked("Get", e.to, e.chunk) => Asked("Get", e.to, e.chunk)'
  BY AskedKept
<1>2. ASSUME ~Asked("Get", e.to, e.chunk)
      PROVE  Taken(e.to, e.chunk)' /\ Index(e.to, e.chunk)' = Index(e.to, e.chunk)
  BY <1>2, SameIn DEF DownloadRight, Same
<1> QED BY <1>1, <1>2 DEF DownloadRight, DownloadEvent

(* A decoder on its way back stays right: the fragments in it do not       *)
(* change.                                                                 *)
LEMMA DecodeKept == ASSUME Mono, NEW e, DecodeRight(e) PROVE DecodeRight(e)'
BY AskedKept DEF DecodeRight, Genuine

(* So does a chunk that is recovered. *)
LEMMA RecoverKept == ASSUME Mono, NEW e, RecoverRight(e) PROVE RecoverRight(e)'
BY AskedKept DEF RecoverRight

(* So does a fragment that is encoded from a recovered chunk, as its peer  *)
(* keeps its index.                                                        *)
LEMMA RecoverEncodeKept ==
  ASSUME Mono, AskedRight, NEW e, RecoverEncodeRight(e)
  PROVE  RecoverEncodeRight(e)'
<1>1. e.to \in Peers /\ e.chunk \in Chunks
  BY AskedFacts DEF RecoverEncodeRight
<1> QED BY <1>1, AskedKept, InvitedKept DEF RecoverEncodeRight

(* The task that stores a fragment stays right while its peer is Storing   *)
(* and the directory is not there.                                         *)
LEMMA StoreKept ==
  ASSUME NEW t, StoreRight(t), Same(t.peer, t.chunk),
         disk'[<<t.peer, t.chunk>>] = disk[<<t.peer, t.chunk>>],
         StoreOkEvent(t.peer, t.chunk) \notin inbox'
  PROVE  StoreRight(t)'
<1>1. In(t.peer, t.chunk, "Storing")' /\ Index(t.peer, t.chunk)' = Index(t.peer, t.chunk)
  BY SameIn DEF StoreRight, Same
<1> QED BY <1>1 DEF StoreRight, StoreTask, StoreOkEvent

(* A StoreOk stays right while its peer is Storing and the directory is    *)
(* there.                                                                  *)
LEMMA StoreOkKept ==
  ASSUME NEW e, StoreOkRight(e), Same(e.to, e.chunk), disk'[<<e.to, e.chunk>>] # None
  PROVE  StoreOkRight(e)'
<1>1. In(e.to, e.chunk, "Storing")'
  BY SameIn DEF StoreOkRight
<1> QED BY <1>1 DEF StoreOkRight, StoreOkEvent

(* A FragmentAvailable stays right, as its sender stays Available and      *)
(* pending.                                                                *)
LEMMA AvailableKept ==
  ASSUME Mono, AskedRight, NEW e, AvailableRight(e)
  PROVE  AvailableRight(e)'
<1>1. /\ Asked("Put", e.to, e.chunk)' /\ Asked("Put", e.to, e.chunk)
      /\ e.to \in Peers /\ e.chunk \in Chunks /\ e.from \in Peers
  BY AskedKept, AskedFacts DEF AvailableRight
<1>2. Begun(e.chunk)
  BY <1>1 DEF Begun
<1>3. ASSUME uploads'[<<e.to, e.chunk>>] # None
      PROVE  In(e.from, e.chunk, "Available")' /\ Paired(e.from, e.chunk)'
  <2>1. uploads[<<e.to, e.chunk>>] # None
    BY <1>1, <1>3, LiveKept
  <2>2. In(e.from, e.chunk, "Available") /\ Paired(e.from, e.chunk)
    BY <2>1 DEF AvailableRight
  <2> QED BY <1>1, <1>2, <2>2, InvitedKept, PairedKept DEF Paired
<1> QED BY <1>1, <1>3 DEF AvailableRight

(* A Pull stays right while the fragment of its peer is not loaded. *)
LEMMA PullKept ==
  ASSUME Mono, NEW e, PullRight(e),
         \A t \in Tasks("Load")' : <<t.peer, t.chunk>> = <<e.to, e.chunk>> => t \in Tasks("Load"),
         In(e.to, e.chunk, "Available")' =>
           disk'[<<e.to, e.chunk>>] # None \/
           (In(e.to, e.chunk, "Available") /\ disk'[<<e.to, e.chunk>>] = disk[<<e.to, e.chunk>>])
  PROVE  PullRight(e)'
<1>1. Asked("Get", e.from, e.chunk)'
  BY AskedKept DEF PullRight
<1> QED BY <1>1 DEF PullRight, PullEvent

(* The task that loads a fragment stays right while the fragment is on the *)
(* disk.                                                                   *)
LEMMA LoadKept ==
  ASSUME Mono, AskedRight, NEW t, LoadRight(t), disk'[<<t.peer, t.chunk>>] # None
  PROVE  LoadRight(t)'
<1>1. t.chunk \in Chunks /\ Asked("Get", t.by, t.chunk)'
  BY AskedKept, AskedFacts DEF LoadRight
<1>2. In(t.peer, t.chunk, "Available")' /\ Index(t.peer, t.chunk)' = Index(t.peer, t.chunk)
  BY <1>1, InvitedKept DEF LoadRight, In
<1> QED BY <1>1, <1>2 DEF LoadRight, LoadTask

(* A loaded fragment is right whatever happens. *)
LEMMA LoadOkKept == ASSUME NEW e, LoadOkRight(e) PROVE LoadOkRight(e)'
BY DEF LoadOkRight

(* A slot stays right when only what is recovered in it changes, to        *)
(* genuine fragments, and its disk changes as a store or a get does.       *)
LEMMA PersistChanged ==
  ASSUME Mono, NEW q \in Peers, NEW c \in Chunks, PersistRight(q, c), Same(q, c),
         Invited(q, c) =>
           /\ persists'[<<q, c>>].recover.decoder # None => Genuine(persists'[<<q, c>>].recover.decoder)
           /\ Genuine(persists'[<<q, c>>].recover.pending),
         disk'[<<q, c>>] = disk[<<q, c>>]
         \/ (disk'[<<q, c>>] # None /\ ~In(q, c, "Recovering"))
         \/ (disk'[<<q, c>>] = None /\ Fetched(c))
  PROVE  PersistRight(q, c)'
<1> SUFFICES ASSUME Invited(q, c)' PROVE PersistRight(q, c)'
  BY DEF PersistRight
<1>1. Invited(q, c) /\ Begun(c)
  BY SameIn DEF PersistRight
<1>2. Begun(c)' /\ (Fetched(c) => Fetched(c)')
  BY <1>1, BegunKept, FetchedKept
<1>3. /\ persists'[<<q, c>>].recover.decoder # None => Genuine(persists[<<q, c>>].recover.decoder)'
      /\ Genuine(persists[<<q, c>>].recover.pending)'
  BY <1>1 DEF Genuine
<1>4. /\ In(q, c, "Recovering")' => disk'[<<q, c>>] = None
      /\ In(q, c, "Available")' => disk'[<<q, c>>] # None \/ Fetched(c)'
  BY <1>1, <1>2, SameIn DEF PersistRight
<1>5. persists'[<<q, c>>].notify # None =>
        Paired(q, c)' /\ Asked("Put", persists[<<q, c>>].notify, c)'
  <2> SUFFICES ASSUME persists'[<<q, c>>].notify # None
               PROVE  Paired(q, c)' /\ Asked("Put", persists[<<q, c>>].notify, c)'
    OBVIOUS
  <2>1. persists'[<<q, c>>].notify = persists[<<q, c>>].notify
    BY DEF Same
  <2>2. Paired(q, c) /\ Asked("Put", persists[<<q, c>>].notify, c)
    BY <1>1, <2>1 DEF PersistRight
  <2>3. Paired(q, c)'
    BY <1>1, <2>2, PairedKept
  <2>4. [op |-> "Put", peer |-> persists[<<q, c>>].notify, chunk |-> c] \in asked'
    BY <2>2 DEF Asked, Mono
  <2> QED BY <2>1, <2>3, <2>4 DEF Asked
<1> QED BY <1>2, <1>3, <1>4, <1>5 DEF PersistRight

(* A slot stays right when its state is the same. *)
LEMMA PersistKept ==
  ASSUME Mono, NEW q \in Peers, NEW c \in Chunks, PersistRight(q, c), Same(q, c),
         persists'[<<q, c>>].recover = persists[<<q, c>>].recover,
         disk'[<<q, c>>] = disk[<<q, c>>]
         \/ (disk'[<<q, c>>] # None /\ ~In(q, c, "Recovering"))
         \/ (disk'[<<q, c>>] = None /\ Fetched(c))
  PROVE  PersistRight(q, c)'
<1>1. Invited(q, c) =>
        /\ persists'[<<q, c>>].recover.decoder # None => Genuine(persists'[<<q, c>>].recover.decoder)
        /\ Genuine(persists'[<<q, c>>].recover.pending)
  BY DEF PersistRight
<1> QED BY <1>1, PersistChanged

(* What is on the disk stays right while it is the same, as its peer keeps *)
(* its index.                                                              *)
LEMMA DiskKept ==
  ASSUME Mono, NEW q \in Peers, NEW c \in Chunks, DiskRight(q, c),
         disk'[<<q, c>>] = disk[<<q, c>>] \/ disk'[<<q, c>>] = None
  PROVE  DiskRight(q, c)'
BY InvitedKept DEF DiskRight

(* An upload stays right while it is the same and not answered. *)
LEMMA UploadKept ==
  ASSUME Mono, SlotTypes, NEW p \in Peers, NEW c \in Chunks, UploadRight(p, c),
         uploads'[<<p, c>>] # None =>
           /\ uploads[<<p, c>>] # None
           /\ uploads'[<<p, c>>].pending = uploads[<<p, c>>].pending
           /\ uploads'[<<p, c>>].available = uploads[<<p, c>>].available,
         Answered("Put", p, c)' => Answered("Put", p, c)
  PROVE  UploadRight(p, c)'
<1> SUFFICES ASSUME uploads'[<<p, c>>] # None PROVE UploadRight(p, c)'
  BY DEF UploadRight
<1>1. Asked("Put", p, c) /\ Asked("Put", p, c)' /\ ~Answered("Put", p, c)' /\ Begun(c)
  BY AskedKept DEF UploadRight, Begun
<1>2. uploads[<<p, c>>] \in UploadStates
  BY DEF SlotTypes, Slots
<1>3. \A w \in uploads[<<p, c>>].pending : w.peer \in Peers
  BY <1>2 DEF UploadStates
<1>4. uploads[<<p, c>>].available \subseteq Peers
  BY <1>2 DEF UploadStates
<1>5. \A w \in uploads'[<<p, c>>].pending : Invited(w.peer, c)' /\ w.index = Index(w.peer, c)'
  BY <1>3, InvitedKept DEF UploadRight
<1>6. \A v, w \in uploads'[<<p, c>>].pending : v.index = w.index => v = w
  BY DEF UploadRight
<1>7. \A q \in uploads'[<<p, c>>].available : In(q, c, "Available")' /\ Paired(q, c)'
  BY <1>1, <1>4, InvitedKept, PairedKept DEF UploadRight, In
<1> QED BY <1>1, <1>5, <1>6, <1>7 DEF UploadRight

(* A get that goes on stays right while it is the same and not answered. *)
LEMMA DownloadsKept ==
  ASSUME Mono, NEW p \in Peers, NEW c \in Chunks, DownloadsRight(p, c),
         downloads'[<<p, c>>] = downloads[<<p, c>>] \/ downloads'[<<p, c>>] = None,
         Answered("Get", p, c)' => Answered("Get", p, c)
  PROVE  DownloadsRight(p, c)'
<1> SUFFICES ASSUME downloads'[<<p, c>>] # None PROVE DownloadsRight(p, c)'
  BY DEF DownloadsRight
<1>1. Asked("Get", p, c)'
  BY AskedKept DEF DownloadsRight
<1> QED BY <1>1 DEF DownloadsRight, Genuine

(* The peers that pull stay peers that get the chunk. *)
LEMMA PullsKept ==
  ASSUME Mono, NEW p, NEW c, PullsRight(p, c), pulls'[<<p, c>>] \subseteq pulls[<<p, c>>]
  PROVE  PullsRight(p, c)'
BY AskedKept DEF PullsRight

(* An answered put stays served, an answered get genuine. *)
LEMMA AnsweredKept ==
  ASSUME Mono, AskedRight, NEW a, AnsweredRight(a)
  PROVE  AnsweredRight(a)'
<1>1. Asked(a.op, a.peer, a.chunk)' /\ a.chunk \in Chunks
  BY AskedKept, AskedFacts DEF AnsweredRight
<1> QED BY <1>1, ServedKept DEF AnsweredRight

(* When whoever fails in a step fails by the overlap, only such peers have *)
(* failed.                                                                 *)
LEMMA FailsKept ==
  ASSUME Mono, FailsOnlyByOverlap, panicked \subseteq Peers, failed \subseteq Peers,
         \A p \in (panicked' \cup failed') \ (panicked \cup failed) : Overlap(p)'
  PROVE  FailsOnlyByOverlap'
BY OverlapKept DEF FailsOnlyByOverlap

-----------------------------------------------------------------------------
(* A step that leaves the persist states alone, but for what is recovered. *)
Still == \A q \in Peers, c \in Chunks : Same(q, c)

(* No events of other types than those of U are new. *)
NewTypes(U) == \A type : type \notin U => Of(type)' \subseteq Of(type)

(* Nothing new is offered, arrives, or is pending; no task is new. *)
NoOffered == \A q \in Peers, c \in Chunks : Offered(q, c)' => Offered(q, c)
NoArrived == \A q \in Peers, c \in Chunks : Arrived(q, c)' => Arrived(q, c)
NoPairs ==
  \A u \in Peers, c \in Chunks : uploads'[<<u, c>>] # None =>
    uploads'[<<u, c>>].pending \subseteq uploads[<<u, c>>].pending

Fewer(op) == Tasks(op)' \subseteq Tasks(op)

(* A step with new events of the types in U only, that moves no peer,      *)
(* keeps the events of a put of all other types right.                     *)
LEMMA QuietPut ==
  ASSUME EInv, Mono, Still, NEW U, NewTypes(U)
  PROVE  /\ "NewEncoder" \notin U /\ "Invite" \notin U => AllNewEncoders'
         /\ "Invite" \notin U => AllInvites'
         /\ "InviteOk" \notin U /\ NoOffered /\ NoPairs => AllInviteOks'
         /\ "Encode" \notin U /\ NoOffered => AllEncodes'
         /\ "RecvOffer" \notin U => AllOffers'
<1> USE DEF EInv, EventsRight
<1>1. ASSUME "NewEncoder" \notin U, "Invite" \notin U PROVE AllNewEncoders'
  <2> SUFFICES ASSUME NEW e \in Of("NewEncoder")' PROVE NewEncoderRight(e)'
    BY DEF AllNewEncoders
  <2>1. NewEncoderRight(e)
    BY <1>1 DEF AllNewEncoders, NewTypes
  <2>2. e.chunk \in Chunks
    BY <2>1, AskedFacts DEF NewEncoderRight
  <2>3. \A q \in Peers : Invited(q, e.chunk)' => Invited(q, e.chunk)
    BY <2>2 DEF Still, Same
  <2>4. \A i \in Of("Invite")' : i.chunk = e.chunk => i \in Of("Invite")
    BY <1>1 DEF NewTypes
  <2> QED BY <2>1, <2>3, <2>4, NewEncoderKept
<1>2. ASSUME "Invite" \notin U PROVE AllInvites'
  <2> SUFFICES ASSUME NEW e \in Of("Invite")' PROVE InviteRight(e)'
    BY DEF AllInvites
  <2>1. InviteRight(e)
    BY <1>2 DEF AllInvites, NewTypes
  <2>2. e.chunk \in Chunks /\ e.to \in Peers
    BY <2>1, AskedFacts DEF InviteRight
  <2> QED BY <2>1, <2>2, InviteKept DEF Still, Same
<1>3. ASSUME "InviteOk" \notin U, NoOffered, NoPairs PROVE AllInviteOks'
  <2> SUFFICES ASSUME NEW e \in Of("InviteOk")' PROVE InviteOkRight(e)'
    BY DEF AllInviteOks
  <2>1. InviteOkRight(e)
    BY <1>3 DEF AllInviteOks, NewTypes
  <2>2. e.to \in Peers /\ e.chunk \in Chunks /\ e.from \in Peers
    BY <2>1, AskedFacts DEF InviteOkRight
  <2>3. Same(e.from, e.chunk) /\ (Offered(e.from, e.chunk)' => Offered(e.from, e.chunk))
    BY <1>3, <2>2 DEF Still, NoOffered
  <2>4. uploads'[<<e.to, e.chunk>>] # None =>
          \A w \in uploads'[<<e.to, e.chunk>>].pending :
             w.peer = e.from => w \in uploads[<<e.to, e.chunk>>].pending
    BY <1>3, <2>2 DEF NoPairs
  <2> QED BY <2>1, <2>3, <2>4, InviteOkKept
<1>4. ASSUME "Encode" \notin U, NoOffered PROVE AllEncodes'
  <2> SUFFICES ASSUME NEW e \in Of("Encode")' PROVE EncodeRight(e)'
    BY DEF AllEncodes
  <2>1. EncodeRight(e)
    BY <1>4 DEF AllEncodes, NewTypes
  <2>2. e.to \in Peers /\ e.chunk \in Chunks
    BY <2>1, AskedFacts DEF EncodeRight
  <2>3. ASSUME NEW w \in uploads[<<e.to, e.chunk>>].pending, uploads[<<e.to, e.chunk>>] # None
        PROVE  Same(w.peer, e.chunk) /\ (Offered(w.peer, e.chunk)' => Offered(w.peer, e.chunk))
    <3>1. uploads[<<e.to, e.chunk>>] \in UploadStates
      BY <2>2, <2>3 DEF SlotTypes, Slots
    <3>2. w.peer \in Peers
      BY <3>1 DEF UploadStates
    <3> QED BY <1>4, <2>2, <3>2 DEF Still, NoOffered
  <2> QED BY <2>1, <2>3, EncodeKept
<1>5. ASSUME "RecvOffer" \notin U PROVE AllOffers'
  <2> SUFFICES ASSUME NEW e \in Of("RecvOffer")' PROVE OfferRight(e)'
    BY DEF AllOffers
  <2>1. OfferRight(e)
    BY <1>5 DEF AllOffers, NewTypes
  <2>2. Same(e.to, e.chunk)
    BY <2>1 DEF Still, OfferRight
  <2> QED BY <2>1, <2>2, OfferKept
<1> QED BY <1>1, <1>2, <1>3, <1>4, <1>5

(* The same for what is on the way to the peers and back to the uploader. *)
LEMMA QuietGet ==
  ASSUME EInv, Mono, Still, NEW U, NewTypes(U)
  PROVE  /\ "DownloadOk" \notin U => AllDownloads'
         /\ "Decode" \notin U => AllDecodes'
         /\ "Recover" \notin U => AllRecovers'
         /\ "RecoverEncode" \notin U => AllRecoverEncodes'
         /\ "FragmentAvailable" \notin U => AllAvailables'
         /\ "LoadOk" \notin U => AllLoadOks'
         /\ NoArrived /\ transfers' \subseteq transfers => AllTransfers'
<1> USE DEF EInv, EventsRight
<1>1. ASSUME "DownloadOk" \notin U PROVE AllDownloads'
  <2> SUFFICES ASSUME NEW e \in Of("DownloadOk")' PROVE DownloadRight(e)'
    BY DEF AllDownloads
  <2>1. DownloadRight(e)
    BY <1>1 DEF AllDownloads, NewTypes
  <2>2. Same(e.to, e.chunk)
    BY <2>1 DEF Still, DownloadRight
  <2> QED BY <2>1, <2>2, DownloadKept
<1>2. ASSUME "Decode" \notin U PROVE AllDecodes'
  BY <1>2, DecodeKept DEF AllDecodes, NewTypes
<1>3. ASSUME "Recover" \notin U PROVE AllRecovers'
  BY <1>3, RecoverKept DEF AllRecovers, NewTypes
<1>4. ASSUME "RecoverEncode" \notin U PROVE AllRecoverEncodes'
  BY <1>4, RecoverEncodeKept DEF AllRecoverEncodes, NewTypes
<1>5. ASSUME "FragmentAvailable" \notin U PROVE AllAvailables'
  BY <1>5, AvailableKept DEF AllAvailables, NewTypes
<1>6. ASSUME "LoadOk" \notin U PROVE AllLoadOks'
  BY <1>6, LoadOkKept DEF AllLoadOks, NewTypes
<1>7. ASSUME NoArrived, transfers' \subseteq transfers PROVE AllTransfers'
  <2> SUFFICES ASSUME NEW t \in transfers' PROVE TransferRight(t)'
    BY DEF AllTransfers
  <2>1. TransferRight(t)
    BY <1>7 DEF WorkRight, AllTransfers
  <2>2. Same(t.to, t.chunk) /\ (Arrived(t.to, t.chunk)' => Arrived(t.to, t.chunk))
    BY <1>7, <2>1 DEF Still, TransferRight, NoArrived
  <2> QED BY <2>1, <2>2, TransferKept
<1> QED BY <1>1, <1>2, <1>3, <1>4, <1>5, <1>6, <1>7

(* The same for the tasks of the file sessions and what concerns the       *)
(* disks, which stay.                                                      *)
LEMMA QuietDisk ==
  ASSUME EInv, Mono, Still, NEW U, NewTypes(U), disk' = disk
  PROVE  /\ "StoreOk" \notin U => AllStoreOks'
         /\ "StoreOk" \notin U /\ Fewer("Store") => AllStores'
         /\ "Pull" \notin U /\ Fewer("Load") => AllPulls'
         /\ Fewer("Load") => AllLoads'
         /\ AllDisks'
<1> USE DEF EInv, EventsRight, WorkRight
<1>1. ASSUME "StoreOk" \notin U PROVE AllStoreOks'
  <2> SUFFICES ASSUME NEW e \in Of("StoreOk")' PROVE StoreOkRight(e)'
    BY DEF AllStoreOks
  <2>1. StoreOkRight(e)
    BY <1>1 DEF AllStoreOks, NewTypes
  <2>2. Same(e.to, e.chunk) /\ disk'[<<e.to, e.chunk>>] # None
    BY <2>1 DEF Still, StoreOkRight
  <2> QED BY <2>1, <2>2, StoreOkKept
<1>2. ASSUME "StoreOk" \notin U, Fewer("Store") PROVE AllStores'
  <2> SUFFICES ASSUME NEW t \in Tasks("Store")' PROVE StoreRight(t)'
    BY DEF AllStores
  <2>1. StoreRight(t)
    BY <1>2 DEF AllStores, Fewer
  <2>2. Same(t.peer, t.chunk)
    BY <2>1 DEF Still, StoreRight
  <2>3. StoreOkEvent(t.peer, t.chunk) \notin inbox'
    <3>1. StoreOkEvent(t.peer, t.chunk).type = "StoreOk"
      BY DEF StoreOkEvent
    <3>2. StoreOkEvent(t.peer, t.chunk) \notin Of("StoreOk")
      BY <2>1 DEF StoreRight, Of
    <3> QED BY <1>2, <3>1, <3>2 DEF NewTypes, Of
  <2> QED BY <2>1, <2>2, <2>3, StoreKept
<1>3. ASSUME "Pull" \notin U, Fewer("Load") PROVE AllPulls'
  <2> SUFFICES ASSUME NEW e \in Of("Pull")' PROVE PullRight(e)'
    BY DEF AllPulls
  <2>1. PullRight(e)
    BY <1>3 DEF AllPulls, NewTypes
  <2>2. e.to \in Peers /\ e.chunk \in Chunks
    BY <2>1, AskedFacts DEF PullRight
  <2>3. In(e.to, e.chunk, "Available")' = In(e.to, e.chunk, "Available")
    BY <2>2, SameIn DEF Still
  <2> QED BY <1>3, <2>1, <2>3, PullKept DEF Fewer
<1>4. ASSUME Fewer("Load") PROVE AllLoads'
  <2> SUFFICES ASSUME NEW t \in Tasks("Load")' PROVE LoadRight(t)'
    BY DEF AllLoads
  <2>1. LoadRight(t)
    BY <1>4 DEF AllLoads, Fewer
  <2>2. disk'[<<t.peer, t.chunk>>] # None
    BY <2>1 DEF LoadRight
  <2> QED BY <2>1, <2>2, LoadKept
<1>5. AllDisks'
  BY DiskKept DEF AllDisks, SlotsRight
<1> QED BY <1>1, <1>2, <1>3, <1>4, <1>5

(* No new answer. *)
AnsweredSame(op) == \A p \in Peers, c \in Chunks : Answered(op, p, c)' => Answered(op, p, c)

(* The maps that a step leaves alone stay right. *)
LEMMA QuietSlots ==
  ASSUME EInv, Mono
  PROVE  /\ persists' = persists /\ disk' = disk => AllPersists'
         /\ uploads' = uploads /\ AnsweredSame("Put") => AllUploads'
         /\ downloads' = downloads /\ AnsweredSame("Get") => AllFetches'
         /\ pulls' = pulls => AllPullers'
         /\ answered' = answered => AllAnswered'
<1> USE DEF EInv, SlotsRight
<1>1. ASSUME persists' = persists, disk' = disk PROVE AllPersists'
  <2>1. \A q \in Peers, c \in Chunks : Same(q, c)
    BY <1>1 DEF Same, Invited, Index
  <2> QED BY <1>1, <2>1, PersistKept DEF AllPersists
<1>2. ASSUME uploads' = uploads, AnsweredSame("Put") PROVE AllUploads'
  BY <1>2, UploadKept DEF AllUploads, AnsweredSame
<1>3. ASSUME downloads' = downloads, AnsweredSame("Get") PROVE AllFetches'
  BY <1>3, DownloadsKept DEF AllFetches, AnsweredSame
<1>4. ASSUME pulls' = pulls PROVE AllPullers'
  BY <1>4, PullsKept DEF AllPullers
<1>5. ASSUME answered' = answered PROVE AllAnswered'
  BY <1>5, AnsweredKept DEF AllAnswered
<1> QED BY <1>1, <1>2, <1>3, <1>4, <1>5

(* A step with no new call keeps the facts about calls. *)
LEMMA AskedStays ==
  ASSUME AskedRight, asked' = asked, answered \subseteq answered'
  PROVE  AskedRight'
BY DEF AskedRight

(* What an event, once handled, leaves in the inbox. *)
LEMMA Flow ==
  ASSUME NEW e, NEW out, Handle(e, out), NEW U, \A o \in out : o.type \in U
  PROVE  /\ NewTypes(U)
         /\ \A type : Of(type)' \subseteq Of(type) \cup out
         /\ e.type \notin U => e \notin inbox'
BY DEF Handle, NewTypes, Of

(* Without a new RecvOffer nobody is newly offered a fragment. *)
LEMMA NoNewOffers == ASSUME NEW U, NewTypes(U), "RecvOffer" \notin U PROVE NoOffered
BY DEF NewTypes, NoOffered, Offered

(* Without a new DownloadOk nothing newly arrives. *)
LEMMA NoNewDownloads == ASSUME NEW U, NewTypes(U), "DownloadOk" \notin U PROVE NoArrived
BY DEF NewTypes, NoArrived, Arrived

(* The same persist states move nobody. *)
LEMMA StillWhenSame ==
  ASSUME persists' = persists
  PROVE  Still /\ \A q \in Peers, c \in Chunks : Forward(q, c)
BY DEF Still, Same, Forward, Invited, Index

(* The same uploads go forward and have no new entry. *)
LEMMA UploadsStay ==
  ASSUME uploads' = uploads
  PROVE  NoPairs /\ \A q \in Peers, c \in Chunks : UploadForward(q, c)
BY DEF NoPairs, UploadForward

(* The same answers are no new answer. *)
LEMMA AnsweredStays ==
  ASSUME answered' = answered
  PROVE  AnsweredSame("Put") /\ AnsweredSame("Get")
BY DEF AnsweredSame, Answered

(* The same tasks of the file sessions are no more tasks. *)
LEMMA TasksStay == ASSUME fsTasks' = fsTasks PROVE Fewer("Store") /\ Fewer("Load")
BY DEF Fewer, Tasks

(* A step in which nobody fails keeps FailsOnlyByOverlap. *)
LEMMA FailsStay ==
  ASSUME EInv, Mono, panicked' = panicked, failed' = failed
  PROVE  FailsOnlyByOverlap'
BY FailsKept DEF EInv, SlotTypes

(* Put keeps EInv: the call is the first for its chunk, so nobody is       *)
(* invited for it yet.                                                     *)
LEMMA PutStep ==
  ASSUME EInv, NEW p \in Peers, NEW c \in Chunks, Put(p, c)
  PROVE  EInv'
<1> DEFINE e == NewEncoderEvent(p, c)
           U == {"NewEncoder"}
<1>1. /\ <<p, c>> \in Putters /\ ~Asked("Put", p, c)
      /\ asked' = asked \cup {[op |-> "Put", peer |-> p, chunk |-> c]}
      /\ uploads' = [uploads EXCEPT ![<<p, c>>] = [encoder |-> FALSE, pending |-> {}, available |-> {}]]
      /\ downloads' = downloads /\ persists' = persists /\ pulls' = pulls /\ disk' = disk
      /\ fsTasks' = fsTasks /\ transfers' = transfers /\ answered' = answered /\ panicked' = panicked
  BY DEF Put, Asked, storage
<1>2. uploads[<<p, c>>] = None
  BY <1>1 DEF EInv, SlotsRight, AllUploads, UploadRight
<1>3. failed' = failed /\ inbox' = inbox \cup {e}
  BY <1>2 DEF Put, NewEncoderEvent
<1>4. ~Begun(c)
  <2> SUFFICES ASSUME NEW u \in Peers, Asked("Put", u, c) PROVE FALSE
    BY DEF Begun
  <2>1. <<u, c>> \in Putters
    BY DEF EInv, AskedRight, Asked
  <2>2. <<u, c>> = <<p, c>>
    BY <1>1, <2>1, EntropyAssumption
  <2> QED BY <1>1, <2>2
<1>5. /\ uploads'[<<p, c>>] = [encoder |-> FALSE, pending |-> {}, available |-> {}]
      /\ \A q \in Peers, d \in Chunks : <<q, d>> # <<p, c>> => uploads'[<<q, d>>] = uploads[<<q, d>>]
  BY <1>1 DEF EInv, SlotTypes, Slots
<1>6. Mono
  <2>1. \A q \in Peers, d \in Chunks : UploadForward(q, d)
    BY <1>4, <1>5 DEF UploadForward
  <2> QED BY <1>1, <2>1, StillWhenSame DEF Mono
<1>7. Still
  BY <1>1, StillWhenSame
<1>8. NewTypes(U) /\ "NewEncoder" \in U
  BY <1>3 DEF NewTypes, Of, NewEncoderEvent
<1>9. NoPairs
  BY <1>5 DEF NoPairs
<1>10. AllNewEncoders'
  <2> SUFFICES ASSUME NEW f \in Of("NewEncoder")' PROVE NewEncoderRight(f)'
    BY DEF AllNewEncoders
  <2>1. Of("Invite")' \subseteq Of("Invite")
    BY <1>8 DEF NewTypes
  <2>2. CASE f \in inbox
    <3>1. NewEncoderRight(f)
      BY <2>2 DEF EInv, EventsRight, AllNewEncoders, Of
    <3>2. f.chunk \in Chunks
      BY <3>1, AskedFacts DEF NewEncoderRight, EInv
    <3> QED BY <1>6, <1>7, <2>1, <3>1, <3>2, NewEncoderKept DEF Still, Same
  <2>3. CASE f = e
    <3>1. f.to = p /\ f.chunk = c /\ f = NewEncoderEvent(f.to, f.chunk)
      BY <2>3 DEF NewEncoderEvent
    <3>2. Asked("Put", p, c)'
      BY <1>1 DEF Asked
    <3>3. \A q \in Peers : ~Invited(q, c)'
      BY <1>1, <1>4 DEF EInv, SlotsRight, AllPersists, PersistRight, Invited
    <3>4. \A i \in Of("Invite") : i.chunk # c
      <4> SUFFICES ASSUME NEW i \in Of("Invite"), i.chunk = c PROVE FALSE
        OBVIOUS
      <4>1. Asked("Put", i.from, c)
        BY DEF EInv, EventsRight, AllInvites, InviteRight
      <4>2. i.from \in Peers
        BY <4>1, AskedFacts DEF EInv
      <4> QED BY <1>4, <4>1, <4>2 DEF Begun
    <3> QED BY <2>1, <3>1, <3>2, <3>3, <3>4 DEF NewEncoderRight, NewEncoderEvent
  <2> QED BY <1>3, <2>2, <2>3 DEF Of
<1>11. AllUploads'
  <2> SUFFICES ASSUME NEW q \in Peers, NEW d \in Chunks PROVE UploadRight(q, d)'
    BY DEF AllUploads
  <2>1. UploadRight(q, d)
    BY DEF EInv, SlotsRight, AllUploads
  <2>2. CASE <<q, d>> # <<p, c>>
    BY <1>1, <1>5, <1>6, <2>1, <2>2, UploadKept, AnsweredStays DEF EInv, AnsweredSame
  <2>3. CASE <<q, d>> = <<p, c>>
    <3>1. Asked("Put", p, c)'
      BY <1>1 DEF Asked
    <3>2. ~Answered("Put", p, c)'
      BY <1>1 DEF Answered, EInv, AllAnswered, AnsweredRight
    <3>3. uploads'[<<q, d>>].pending = {} /\ uploads'[<<q, d>>].available = {}
      BY <1>5, <2>3
    <3> QED BY <2>3, <3>1, <3>2, <3>3 DEF UploadRight
  <2> QED BY <2>2, <2>3
<1>12. AskedRight'
  BY <1>1 DEF EInv, AskedRight
<1>13. SlotTypes'
  <2>1. [encoder |-> FALSE, pending |-> {}, available |-> {}] \in UploadStates
    BY DEF UploadStates
  <2> QED BY <1>1, <1>3, <2>1 DEF EInv, SlotTypes
<1> HIDE DEF U
<1>14. AllInvites' /\ AllInviteOks' /\ AllEncodes' /\ AllOffers'
  BY <1>6, <1>7, <1>8, <1>9, QuietPut, NoNewOffers DEF U
<1>15. /\ AllDownloads' /\ AllDecodes' /\ AllRecovers' /\ AllRecoverEncodes' /\ AllAvailables' /\ AllLoadOks'
       /\ AllTransfers'
  BY <1>1, <1>6, <1>7, <1>8, QuietGet, NoNewDownloads DEF U
<1>16. AllStoreOks' /\ AllStores' /\ AllPulls' /\ AllLoads' /\ AllDisks'
  BY <1>1, <1>6, <1>7, <1>8, QuietDisk, TasksStay DEF U
<1>17. AllPersists' /\ AllFetches' /\ AllPullers' /\ AllAnswered'
  BY <1>1, <1>6, QuietSlots, AnsweredStays
<1>18. FailsOnlyByOverlap'
  BY <1>1, <1>3, <1>6, FailsStay
<1> QED BY <1>10, <1>11, <1>12, <1>13, <1>14, <1>15, <1>16, <1>17, <1>18
        DEF EInv, EventsRight, WorkRight, SlotsRight

(* NewEncoder keeps EInv: the encoder is set before the first Invite goes  *)
(* out, so InviteOk finds it (lib.rs:363).                                 *)
LEMMA NewEncoderStep ==
  ASSUME EInv, Awaited, NEW e \in Events("NewEncoder"), NewEncoder(e)
  PROVE  EInv'
<1> DEFINE p == e.to
           c == e.chunk
           U == {"Invite"}
<1>1. e \in Of("NewEncoder") /\ NewEncoderRight(e) /\ e.type = "NewEncoder"
  BY DEF Events, Of, EInv, EventsRight, AllNewEncoders
<1>2. /\ p \in Peers /\ c \in Chunks /\ Asked("Put", p, c)
      /\ e = NewEncoderEvent(p, c) /\ \A q \in Peers : ~Invited(q, c)
  BY <1>1, AskedFacts DEF NewEncoderRight, EInv
<1>3. /\ downloads' = downloads /\ persists' = persists /\ pulls' = pulls /\ disk' = disk
      /\ fsTasks' = fsTasks /\ transfers' = transfers /\ answered' = answered /\ panicked' = panicked
      /\ failed' = failed /\ asked' = asked
  <2>1. uploads[<<p, c>>] # None => ~uploads[<<p, c>>].encoder
    BY <1>1 DEF Awaited
  <2> QED BY <2>1 DEF NewEncoder, storage, history
<1>4. PICK out : /\ Handle(e, out) /\ \A o \in out : \E q \in Peers : o = InviteEvent(q, c, p)
  <2>1. Closest[c] \subseteq Peers
    BY <1>2, EntropyAssumption
  <2> QED BY <2>1 DEF NewEncoder, InviteEvent
<1>5. uploads' = IF uploads[<<p, c>>] = None THEN uploads
                 ELSE [uploads EXCEPT ![<<p, c>>].encoder = TRUE]
  BY DEF NewEncoder
<1>6. /\ uploads'[<<p, c>>] # None => uploads[<<p, c>>] # None /\ uploads'[<<p, c>>].encoder
      /\ uploads'[<<p, c>>].pending = uploads[<<p, c>>].pending
      /\ uploads'[<<p, c>>].available = uploads[<<p, c>>].available
      /\ \A q \in Peers, d \in Chunks : <<q, d>> # <<p, c>> => uploads'[<<q, d>>] = uploads[<<q, d>>]
      /\ uploads' \in [Slots -> UploadStates \cup {None}]
  <2>1. uploads \in [Slots -> UploadStates \cup {None}] /\ <<p, c>> \in Slots
    BY <1>2 DEF EInv, SlotTypes, Slots
  <2>2. CASE uploads[<<p, c>>] = None
    BY <1>5, <2>1, <2>2
  <2>3. CASE uploads[<<p, c>>] # None
    <3>1. uploads[<<p, c>>] \in UploadStates
      BY <2>1, <2>3
    <3>2. uploads'[<<p, c>>] = [uploads[<<p, c>>] EXCEPT !.encoder = TRUE]
      BY <1>5, <2>1, <2>3
    <3>3. uploads'[<<p, c>>] \in UploadStates
      BY <3>1, <3>2 DEF UploadStates
    <3>4. /\ uploads'[<<p, c>>].encoder
          /\ uploads'[<<p, c>>].pending = uploads[<<p, c>>].pending
          /\ uploads'[<<p, c>>].available = uploads[<<p, c>>].available
      BY <3>1, <3>2 DEF UploadStates
    <3>5. uploads' \in [Slots -> UploadStates \cup {None}]
      BY <1>5, <2>1, <2>3, <3>2, <3>3
    <3>6. \A q \in Peers, d \in Chunks : <<q, d>> # <<p, c>> => uploads'[<<q, d>>] = uploads[<<q, d>>]
      BY <1>5, <2>1, <2>3 DEF Slots
    <3> QED BY <2>3, <3>4, <3>5, <3>6
  <2> QED BY <2>2, <2>3
<1>7. Mono
  <2>1. \A q \in Peers, d \in Chunks : UploadForward(q, d)
    BY <1>6 DEF UploadForward
  <2> QED BY <1>3, <2>1, StillWhenSame DEF Mono
<1>8. Still
  BY <1>3, StillWhenSame
<1>9. /\ NewTypes(U) /\ e \notin inbox' /\ "Invite" \in U
      /\ \A type : Of(type)' \subseteq Of(type) \cup out
  <2>1. \A o \in out : o.type \in U
    BY <1>4 DEF InviteEvent
  <2> QED BY <1>1, <1>4, <2>1, Flow
<1>10. NoPairs
  BY <1>6 DEF NoPairs
<1>11. AllNewEncoders'
  <2> SUFFICES ASSUME NEW f \in Of("NewEncoder")' PROVE NewEncoderRight(f)'
    BY DEF AllNewEncoders
  <2>1. f \in Of("NewEncoder") /\ f # e
    BY <1>9 DEF NewTypes, Of
  <2>2. NewEncoderRight(f)
    BY <2>1 DEF EInv, EventsRight, AllNewEncoders
  <2>3. f.chunk \in Chunks
    BY <2>2, AskedFacts DEF NewEncoderRight, EInv
  <2>4. f.chunk # c
    <3> SUFFICES ASSUME f.chunk = c PROVE FALSE
      OBVIOUS
    <3>1. f.to = p
      BY <1>2, <2>2, AskedFacts DEF NewEncoderRight, EInv
    <3> QED BY <1>2, <2>1, <2>2, <3>1 DEF NewEncoderRight
  <2>5. \A i \in Of("Invite")' : i.chunk = f.chunk => i \in Of("Invite")
    <3>1. \A o \in out : o.chunk = c
      BY <1>4 DEF InviteEvent
    <3> QED BY <1>9, <2>4, <3>1
  <2> QED BY <1>7, <1>8, <2>2, <2>3, <2>5, NewEncoderKept DEF Still, Same
<1>12. AllInvites'
  <2> SUFFICES ASSUME NEW f \in Of("Invite")' PROVE InviteRight(f)'
    BY DEF AllInvites
  <2>1. CASE f \in Of("Invite")
    <3>1. InviteRight(f)
      BY <2>1 DEF EInv, EventsRight, AllInvites
    <3>2. f.to \in Peers /\ f.chunk \in Chunks
      BY <3>1, AskedFacts DEF InviteRight, EInv
    <3> QED BY <1>7, <1>8, <3>1, <3>2, InviteKept DEF Still, Same, EInv
  <2>2. CASE f \in out
    <3>1. PICK q \in Peers : f = InviteEvent(q, c, p)
      BY <1>4, <2>2
    <3>2. f.to = q /\ f.chunk = c /\ f.from = p
      BY <3>1 DEF InviteEvent
    <3>3. ~Invited(q, c)'
      BY <1>2, <1>3 DEF Invited
    <3>4. Asked("Put", p, c)'
      BY <1>2, <1>7, AskedKept
    <3>5. uploads'[<<f.from, f.chunk>>] # None => uploads'[<<f.from, f.chunk>>].encoder
      BY <1>6, <3>2
    <3> QED BY <3>1, <3>2, <3>3, <3>4, <3>5 DEF InviteRight
  <2> QED BY <1>9, <2>1, <2>2
<1>13. AllUploads'
  <2> SUFFICES ASSUME NEW q \in Peers, NEW d \in Chunks PROVE UploadRight(q, d)'
    BY DEF AllUploads
  <2>1. UploadRight(q, d)
    BY DEF EInv, SlotsRight, AllUploads
  <2>2. AnsweredSame("Put")
    BY <1>3, AnsweredStays
  <2>3. /\ uploads'[<<q, d>>] # None => uploads[<<q, d>>] # None
        /\ uploads'[<<q, d>>].pending = uploads[<<q, d>>].pending
        /\ uploads'[<<q, d>>].available = uploads[<<q, d>>].available
    BY <1>6
  <2> QED BY <1>7, <2>1, <2>2, <2>3, UploadKept DEF EInv, AnsweredSame
<1>14. AskedRight'
  BY <1>3, AskedStays DEF EInv
<1>15. SlotTypes'
  BY <1>3, <1>6 DEF EInv, SlotTypes
<1> HIDE DEF U
<1>16. AllInviteOks' /\ AllEncodes' /\ AllOffers'
  BY <1>7, <1>8, <1>9, <1>10, QuietPut, NoNewOffers DEF U
<1>17. /\ AllDownloads' /\ AllDecodes' /\ AllRecovers' /\ AllRecoverEncodes' /\ AllAvailables' /\ AllLoadOks'
       /\ AllTransfers'
  BY <1>3, <1>7, <1>8, <1>9, QuietGet, NoNewDownloads DEF U
<1>18. AllStoreOks' /\ AllStores' /\ AllPulls' /\ AllLoads' /\ AllDisks'
  BY <1>3, <1>7, <1>8, <1>9, QuietDisk, TasksStay DEF U
<1>19. AllPersists' /\ AllFetches' /\ AllPullers' /\ AllAnswered'
  BY <1>3, <1>7, QuietSlots, AnsweredStays
<1>20. FailsOnlyByOverlap'
  BY <1>3, <1>7, FailsStay
<1> QED BY <1>11, <1>12, <1>13, <1>14, <1>15, <1>16, <1>17, <1>18, <1>19, <1>20
        DEF EInv, EventsRight, WorkRight, SlotsRight

(* InviteOk keeps EInv: only the first answer with an index enters the     *)
(* upload, and that answer is its peer's only one, so the index of a       *)
(* pending entry is the one its peer keeps.                                *)
LEMMA InviteOkStep ==
  ASSUME EInv, NEW e \in Events("InviteOk"), RecvInviteOk(e)
  PROVE  EInv'
<1> DEFINE p == e.to
           c == e.chunk
           U == {"Encode"}
           w0 == [index |-> e.index, peer |-> e.from]
           fresh == uploads[<<p, c>>] # None /\ \A w \in uploads[<<p, c>>].pending : w.index # e.index
<1>1. e \in Of("InviteOk") /\ InviteOkRight(e) /\ e.type = "InviteOk"
  BY DEF Events, Of, EInv, EventsRight, AllInviteOks
<1>2. /\ p \in Peers /\ c \in Chunks /\ Asked("Put", p, c) /\ e.from \in Peers
      /\ Invited(e.from, c) /\ e = InviteOkEvent(p, c, Index(e.from, c), e.from)
      /\ e.index = Index(e.from, c)
  BY <1>1, AskedFacts DEF InviteOkRight, InviteOkEvent, EInv
<1>3. /\ downloads' = downloads /\ persists' = persists /\ pulls' = pulls /\ disk' = disk
      /\ fsTasks' = fsTasks /\ transfers' = transfers /\ answered' = answered
      /\ failed' = failed /\ asked' = asked
  BY DEF RecvInviteOk, storage, history
<1>4. panicked' = panicked
  <2>1. fresh => uploads[<<p, c>>].encoder
    BY <1>1 DEF InviteOkRight
  <2> QED BY <2>1 DEF RecvInviteOk
<1>5. PICK out : Handle(e, out) /\ out = IF fresh THEN {EncodeEvent(p, c, e.index)} ELSE {}
  BY DEF RecvInviteOk, EncodeEvent
<1>6. uploads' = IF fresh THEN [uploads EXCEPT ![<<p, c>>].pending = @ \cup {w0}] ELSE uploads
  BY DEF RecvInviteOk
<1>7. e.index \in Indices
  <2>1. persists[<<e.from, c>>] \in PersistStates
    BY <1>2 DEF EInv, SlotTypes, Slots, Invited
  <2> QED BY <1>2, <2>1 DEF PersistStates, Index
<1>8. /\ ~fresh => uploads' = uploads
      /\ fresh => /\ uploads'[<<p, c>>] # None => uploads[<<p, c>>] # None
                  /\ uploads'[<<p, c>>].pending = uploads[<<p, c>>].pending \cup {w0}
                  /\ uploads'[<<p, c>>].encoder = uploads[<<p, c>>].encoder
                  /\ uploads'[<<p, c>>].available = uploads[<<p, c>>].available
      /\ \A q \in Peers, d \in Chunks : <<q, d>> # <<p, c>> => uploads'[<<q, d>>] = uploads[<<q, d>>]
      /\ uploads' \in [Slots -> UploadStates \cup {None}]
  <2>1. uploads \in [Slots -> UploadStates \cup {None}] /\ <<p, c>> \in Slots
    BY <1>2 DEF EInv, SlotTypes, Slots
  <2>2. CASE ~fresh
    BY <1>6, <2>1, <2>2
  <2>3. CASE fresh
    <3>1. uploads[<<p, c>>] \in UploadStates
      BY <2>1, <2>3
    <3>2. uploads'[<<p, c>>] = [uploads[<<p, c>>] EXCEPT !.pending = @ \cup {w0}]
      BY <1>6, <2>1, <2>3
    <3>3. w0 \in [index : Indices, peer : Peers]
      BY <1>2, <1>7
    <3>4. uploads'[<<p, c>>] \in UploadStates
      BY <3>1, <3>2, <3>3 DEF UploadStates
    <3>5. /\ uploads'[<<p, c>>].encoder = uploads[<<p, c>>].encoder
          /\ uploads'[<<p, c>>].pending = uploads[<<p, c>>].pending \cup {w0}
          /\ uploads'[<<p, c>>].available = uploads[<<p, c>>].available
      BY <3>1, <3>2 DEF UploadStates
    <3>6. uploads' \in [Slots -> UploadStates \cup {None}]
      BY <1>6, <2>1, <2>3, <3>2, <3>4
    <3>7. \A q \in Peers, d \in Chunks : <<q, d>> # <<p, c>> => uploads'[<<q, d>>] = uploads[<<q, d>>]
      BY <1>6, <2>1, <2>3 DEF Slots
    <3> QED BY <2>3, <3>5, <3>6, <3>7
  <2> QED BY <2>2, <2>3
<1>9. Mono
  <2>1. \A q \in Peers, d \in Chunks : UploadForward(q, d)
    <3> SUFFICES ASSUME NEW q \in Peers, NEW d \in Chunks PROVE UploadForward(q, d)
      OBVIOUS
    <3>1. CASE fresh /\ <<q, d>> = <<p, c>>
      BY <1>8, <3>1 DEF UploadForward
    <3>2. CASE ~(fresh /\ <<q, d>> = <<p, c>>)
      BY <1>8, <3>2 DEF UploadForward
    <3> QED BY <3>1, <3>2
  <2> QED BY <1>3, <2>1, StillWhenSame DEF Mono
<1>10. Still
  BY <1>3, StillWhenSame
<1>11. /\ NewTypes(U) /\ e \notin inbox' /\ "Encode" \in U
       /\ \A type : Of(type)' \subseteq Of(type) \cup out
  <2>1. \A o \in out : o.type \in U
    BY <1>5 DEF EncodeEvent
  <2> QED BY <1>1, <1>5, <2>1, Flow
<1>12. NoOffered
  BY <1>11, NoNewOffers
<1>13. AllInviteOks'
  <2> SUFFICES ASSUME NEW f \in Of("InviteOk")' PROVE InviteOkRight(f)'
    BY DEF AllInviteOks
  <2>1. f \in Of("InviteOk") /\ f # e
    BY <1>11 DEF NewTypes, Of
  <2>2. InviteOkRight(f)
    BY <2>1 DEF EInv, EventsRight, AllInviteOks
  <2>3. f.chunk \in Chunks /\ f.to \in Peers /\ f.from \in Peers
    BY <2>2, AskedFacts DEF InviteOkRight, EInv
  <2>4. Same(f.from, f.chunk) /\ (Offered(f.from, f.chunk)' => Offered(f.from, f.chunk))
    BY <1>10, <1>12, <2>3 DEF Still, NoOffered
  <2>5. ASSUME NEW w \in uploads'[<<f.to, f.chunk>>].pending, w.peer = f.from
        PROVE  w \in uploads[<<f.to, f.chunk>>].pending
    <3>1. CASE fresh /\ <<f.to, f.chunk>> = <<p, c>>
      <4>1. f.from # e.from
        BY <1>2, <2>1, <2>2, <3>1 DEF InviteOkRight
      <4>2. w # w0
        BY <2>5, <4>1
      <4> QED BY <1>8, <2>5, <3>1, <4>2
    <3>2. CASE ~(fresh /\ <<f.to, f.chunk>> = <<p, c>>)
      BY <1>8, <2>3, <2>5, <3>2
    <3> QED BY <3>1, <3>2
  <2> QED BY <1>9, <2>2, <2>4, <2>5, InviteOkKept DEF EInv
<1>14. AllEncodes'
  <2> SUFFICES ASSUME NEW f \in Of("Encode")' PROVE EncodeRight(f)'
    BY DEF AllEncodes
  <2>1. CASE f \in Of("Encode")
    <3>1. EncodeRight(f)
      BY <2>1 DEF EInv, EventsRight, AllEncodes
    <3>2. f.chunk \in Chunks /\ f.to \in Peers
      BY <3>1, AskedFacts DEF EncodeRight, EInv
    <3>3. ASSUME NEW w \in uploads[<<f.to, f.chunk>>].pending, uploads[<<f.to, f.chunk>>] # None
          PROVE  Same(w.peer, f.chunk) /\ (Offered(w.peer, f.chunk)' => Offered(w.peer, f.chunk))
      <4>1. uploads[<<f.to, f.chunk>>] \in UploadStates
        BY <3>2, <3>3 DEF EInv, SlotTypes, Slots
      <4>2. w.peer \in Peers
        BY <4>1 DEF UploadStates
      <4> QED BY <1>10, <1>12, <3>2, <4>2 DEF Still, NoOffered
    <3> QED BY <1>9, <3>1, <3>3, EncodeKept DEF EInv
  <2>2. CASE f \in out
    <3>1. fresh /\ f = EncodeEvent(p, c, e.index)
      BY <1>5, <2>2
    <3>2. f.to = p /\ f.chunk = c /\ f.index = e.index
      BY <3>1 DEF EncodeEvent
    <3>3. Asked("Put", p, c)'
      BY <1>2, <1>9, AskedKept
    <3>4. w0 \in uploads'[<<p, c>>].pending /\ w0.index = e.index /\ w0.peer = e.from
      BY <1>8, <3>1
    <3>5. Waiting(e.from, c) /\ ~Offered(e.from, c)
      BY <1>1, <3>1 DEF InviteOkRight
    <3>6. Waiting(e.from, c)' /\ ~Offered(e.from, c)'
      BY <1>2, <1>10, <1>12, <3>5, SameIn DEF Still, NoOffered
    <3> QED BY <1>7, <3>1, <3>2, <3>3, <3>4, <3>6 DEF EncodeRight
  <2> QED BY <1>11, <2>1, <2>2
<1>15. AllUploads'
  <2> SUFFICES ASSUME NEW q \in Peers, NEW d \in Chunks PROVE UploadRight(q, d)'
    BY DEF AllUploads
  <2>1. UploadRight(q, d) /\ AnsweredSame("Put")
    BY <1>3, AnsweredStays DEF EInv, SlotsRight, AllUploads
  <2>2. CASE ~(fresh /\ <<q, d>> = <<p, c>>)
    <3>1. uploads'[<<q, d>>] = uploads[<<q, d>>]
      BY <1>8, <2>2
    <3> QED BY <1>9, <2>1, <3>1, UploadKept DEF EInv, AnsweredSame
  <2>3. CASE fresh /\ <<q, d>> = <<p, c>>
    <3>1. q = p /\ d = c
      BY <2>3
    <3>2. UploadRight(p, c) /\ uploads[<<p, c>>] # None
      BY <2>1, <2>3, <3>1
    <3>3. Asked("Put", p, c)' /\ ~Answered("Put", p, c)' /\ Begun(c)
      BY <1>2, <1>9, <2>1, <3>2, AskedKept DEF UploadRight, AnsweredSame, Begun
    <3>4. uploads[<<p, c>>] \in UploadStates
      BY <1>2, <2>3 DEF EInv, SlotTypes, Slots
    <3>5. \A w \in uploads'[<<p, c>>].pending : Invited(w.peer, c)' /\ w.index = Index(w.peer, c)'
      BY <1>2, <1>3, <1>8, <2>3, <3>2 DEF UploadRight, Invited, Index
    <3>6. \A v, w \in uploads'[<<p, c>>].pending : v.index = w.index => v = w
      BY <1>8, <2>3, <3>2 DEF UploadRight
    <3>7. \A r \in uploads'[<<p, c>>].available : In(r, c, "Available")' /\ Paired(r, c)'
      <4> SUFFICES ASSUME NEW r \in uploads[<<p, c>>].available
                   PROVE  In(r, c, "Available")' /\ Paired(r, c)'
        BY <1>8, <2>3
      <4>1. r \in Peers
        BY <3>4 DEF UploadStates
      <4> QED BY <1>2, <1>9, <3>2, <3>3, <4>1, InvitedKept, PairedKept DEF UploadRight, In
    <3> QED BY <3>1, <3>3, <3>5, <3>6, <3>7 DEF UploadRight
  <2> QED BY <2>2, <2>3
<1>16. AskedRight'
  BY <1>3, AskedStays DEF EInv
<1>17. SlotTypes'
  BY <1>3, <1>4, <1>8 DEF EInv, SlotTypes
<1> HIDE DEF U
<1>18. AllNewEncoders' /\ AllInvites' /\ AllOffers'
  BY <1>9, <1>10, <1>11, QuietPut DEF U
<1>19. /\ AllDownloads' /\ AllDecodes' /\ AllRecovers' /\ AllRecoverEncodes' /\ AllAvailables' /\ AllLoadOks'
       /\ AllTransfers'
  BY <1>3, <1>9, <1>10, <1>11, QuietGet, NoNewDownloads DEF U
<1>20. AllStoreOks' /\ AllStores' /\ AllPulls' /\ AllLoads' /\ AllDisks'
  BY <1>3, <1>9, <1>10, <1>11, QuietDisk, TasksStay DEF U
<1>21. AllPersists' /\ AllFetches' /\ AllPullers' /\ AllAnswered'
  BY <1>3, <1>9, QuietSlots, AnsweredStays
<1>22. FailsOnlyByOverlap'
  BY <1>3, <1>4, <1>9, FailsStay
<1> QED BY <1>13, <1>14, <1>15, <1>16, <1>17, <1>18, <1>19, <1>20, <1>21, <1>22
        DEF EInv, EventsRight, WorkRight, SlotsRight

(* Encode keeps EInv: the one peer pending under the index is offered the  *)
(* fragment, once (the notify of RecvOffer is still None).                 *)
LEMMA EncodeStep ==
  ASSUME EInv, NEW e \in Events("Encode"), Encode(e)
  PROVE  EInv'
<1> DEFINE p == e.to
           c == e.chunk
           U == {"RecvOffer"}
<1>1. e \in Of("Encode") /\ EncodeRight(e) /\ e.type = "Encode"
  BY DEF Events, Of, EInv, EventsRight, AllEncodes
<1>2. /\ p \in Peers /\ c \in Chunks /\ Asked("Put", p, c) /\ e.index \in Indices
      /\ e = EncodeEvent(p, c, e.index) /\ e.of = e.index
  BY <1>1, AskedFacts DEF EncodeRight, EncodeEvent, EInv
<1>3. /\ downloads' = downloads /\ persists' = persists /\ pulls' = pulls /\ disk' = disk
      /\ fsTasks' = fsTasks /\ transfers' = transfers /\ answered' = answered /\ uploads' = uploads
      /\ failed' = failed /\ asked' = asked /\ panicked' = panicked
  BY DEF Encode, storage, history, outcomes
<1>4. PICK out :
        /\ Handle(e, out)
        /\ \A o \in out : /\ uploads[<<p, c>>] # None
                          /\ \E w \in uploads[<<p, c>>].pending :
                               w.index = e.index /\ o = OfferEvent(w.peer, c, e.index, p)
  BY <1>2 DEF Encode, OfferEvent
<1>5. Mono
  BY <1>3, StillWhenSame, UploadsStay DEF Mono
<1>6. Still /\ NoPairs
  BY <1>3, StillWhenSame, UploadsStay
<1>7. /\ NewTypes(U) /\ e \notin inbox' /\ "RecvOffer" \in U
      /\ \A type : Of(type)' \subseteq Of(type) \cup out
  <2>1. \A o \in out : o.type \in U
    BY <1>4 DEF OfferEvent
  <2> QED BY <1>1, <1>4, <2>1, Flow
<1>8. ASSUME NEW o \in out
      PROVE  /\ o.to \in Peers /\ o.chunk = c /\ o.index = e.index /\ o.of = e.index /\ o.receipt = p
             /\ p # None /\ uploads[<<p, c>>] # None
             /\ [index |-> e.index, peer |-> o.to] \in uploads[<<p, c>>].pending
             /\ Invited(o.to, c) /\ e.index = Index(o.to, c) /\ o = OfferEvent(o.to, c, e.index, p)
             /\ Waiting(o.to, c)
  <2>1. PICK w \in uploads[<<p, c>>].pending : w.index = e.index /\ o = OfferEvent(w.peer, c, e.index, p)
    BY <1>4
  <2>2. uploads[<<p, c>>] # None /\ uploads[<<p, c>>] \in UploadStates
    BY <1>2, <1>4 DEF EInv, SlotTypes, Slots
  <2>3. w = [index |-> e.index, peer |-> w.peer] /\ w.peer \in Peers
    BY <2>1, <2>2 DEF UploadStates
  <2>4. UploadRight(p, c)
    BY <1>2 DEF EInv, SlotsRight, AllUploads
  <2>5. Invited(w.peer, c) /\ w.index = Index(w.peer, c)
    BY <2>2, <2>4 DEF UploadRight
  <2>6. PICK v \in uploads[<<p, c>>].pending : v.index = e.index /\ Waiting(v.peer, c)
    BY <1>1, <2>2 DEF EncodeRight
  <2>7. v = w
    BY <2>1, <2>2, <2>4, <2>6 DEF UploadRight
  <2>8. /\ o.to = w.peer /\ o.chunk = c /\ o.index = e.index /\ o.of = e.index /\ o.receipt = p
    BY <2>1 DEF OfferEvent
  <2> QED BY <1>2, <2>1, <2>2, <2>3, <2>5, <2>6, <2>7, <2>8, EntropyNoneAssumption
<1>9. ASSUME NEW q \in Peers, NEW d \in Chunks, Offered(q, d)', ~Offered(q, d)
      PROVE  d = c /\ \E o \in out : o.to = q
  <2>1. PICK o \in Of("RecvOffer")' : o.receipt # None /\ o.to = q /\ o.chunk = d
    BY <1>9 DEF Offered
  <2>2. o \in out
    BY <1>7, <1>9, <2>1 DEF Offered
  <2> QED BY <1>8, <2>1, <2>2
<1>10. AllInviteOks'
  <2> SUFFICES ASSUME NEW f \in Of("InviteOk")' PROVE InviteOkRight(f)'
    BY DEF AllInviteOks
  <2>1. f \in Of("InviteOk")
    BY <1>7 DEF NewTypes
  <2>2. InviteOkRight(f)
    BY <2>1 DEF EInv, EventsRight, AllInviteOks
  <2>3. f.chunk \in Chunks /\ f.to \in Peers /\ f.from \in Peers
    BY <2>2, AskedFacts DEF InviteOkRight, EInv
  <2>4. Same(f.from, f.chunk)
    BY <1>6, <2>3 DEF Still
  <2>5. ASSUME uploads[<<f.to, f.chunk>>] # None, Offered(f.from, f.chunk)', ~Offered(f.from, f.chunk)
        PROVE  FALSE
    <3>1. PICK o \in out : o.to = f.from /\ f.chunk = c
      BY <1>9, <2>3, <2>5
    <3>2. f.to = p
      BY <1>2, <2>2, <3>1, AskedFacts DEF InviteOkRight, EInv
    <3>3. [index |-> e.index, peer |-> f.from] \in uploads[<<f.to, f.chunk>>].pending
      BY <1>8, <3>1, <3>2
    <3> QED BY <2>2, <2>5, <3>3 DEF InviteOkRight
  <2> QED BY <1>3, <1>5, <2>2, <2>4, <2>5, InviteOkKept DEF EInv
<1>11. AllEncodes'
  <2> SUFFICES ASSUME NEW f \in Of("Encode")' PROVE EncodeRight(f)'
    BY DEF AllEncodes
  <2>1. f \in Of("Encode") /\ f # e
    BY <1>7 DEF NewTypes, Of
  <2>2. EncodeRight(f)
    BY <2>1 DEF EInv, EventsRight, AllEncodes
  <2>3. f.chunk \in Chunks /\ f.to \in Peers
    BY <2>2, AskedFacts DEF EncodeRight, EInv
  <2>4. ASSUME NEW w \in uploads[<<f.to, f.chunk>>].pending, uploads[<<f.to, f.chunk>>] # None,
               w.index = f.index
        PROVE  Same(w.peer, f.chunk) /\ (Offered(w.peer, f.chunk)' => Offered(w.peer, f.chunk))
    <3>1. uploads[<<f.to, f.chunk>>] \in UploadStates
      BY <2>3, <2>4 DEF EInv, SlotTypes, Slots
    <3>2. w.peer \in Peers
      BY <3>1 DEF UploadStates
    <3>3. ASSUME Offered(w.peer, f.chunk)', ~Offered(w.peer, f.chunk) PROVE FALSE
      <4>1. PICK o \in out : o.to = w.peer /\ f.chunk = c
        BY <1>9, <2>3, <3>2, <3>3
      <4>2. f.to = p
        BY <1>2, <2>2, <4>1, AskedFacts DEF EncodeRight, EInv
      <4>3. UploadRight(p, c)
        BY <1>2 DEF EInv, SlotsRight, AllUploads
      <4>4. w.index = Index(w.peer, c)
        BY <2>4, <4>1, <4>2, <4>3 DEF UploadRight
      <4>5. f.index = e.index
        BY <1>8, <2>4, <4>1, <4>4
      <4>6. f = EncodeEvent(p, c, e.index)
        BY <2>2, <4>1, <4>2, <4>5 DEF EncodeRight
      <4> QED BY <1>2, <2>1, <4>6
    <3> QED BY <1>6, <2>3, <3>2, <3>3 DEF Still
  <2> QED BY <1>5, <2>2, <2>4, EncodeKept DEF EInv
<1>12. AllOffers'
  <2> SUFFICES ASSUME NEW f \in Of("RecvOffer")' PROVE OfferRight(f)'
    BY DEF AllOffers
  <2>1. CASE f \in Of("RecvOffer")
    <3>1. OfferRight(f)
      BY <2>1 DEF EInv, EventsRight, AllOffers
    <3>2. Same(f.to, f.chunk)
      BY <1>6, <3>1 DEF Still, OfferRight
    <3> QED BY <1>5, <3>1, <3>2, OfferKept DEF EInv
  <2>2. CASE f \in out
    <3>1. /\ f.to \in Peers /\ f.chunk = c /\ f.index = e.index /\ f.of = e.index /\ f.receipt = p
          /\ p # None /\ uploads[<<p, c>>] # None
          /\ [index |-> e.index, peer |-> f.to] \in uploads[<<p, c>>].pending
          /\ Invited(f.to, c) /\ e.index = Index(f.to, c) /\ f = OfferEvent(f.to, c, e.index, p)
          /\ Waiting(f.to, c)
      BY <1>8, <2>2
    <3>2. Asked("Put", p, c)' /\ Begun(c)
      BY <1>2, <1>5, AskedKept DEF Begun
    <3>3. Waiting(f.to, c)' /\ Index(f.to, c)' = Index(f.to, c)
      <4>1. Same(f.to, c)
        BY <1>2, <1>6, <3>1 DEF Still
      <4>2. Waiting(f.to, c)' = Waiting(f.to, c)
        BY <4>1, SameIn
      <4> QED BY <3>1, <4>1, <4>2 DEF Same
    <3>4. Paired(f.to, c)
      <4> SUFFICES ASSUME NEW u \in Peers, uploads[<<u, c>>] # None
                   PROVE  [index |-> e.index, peer |-> f.to] \in uploads[<<u, c>>].pending
        BY <3>1 DEF Paired
      <4>1. Asked("Put", u, c)
        BY <1>2 DEF EInv, SlotsRight, AllUploads, UploadRight
      <4>2. u = p
        BY <1>2, <4>1, AskedFacts DEF EInv
      <4> QED BY <3>1, <4>2
    <3>5. Paired(f.to, c)'
      BY <1>2, <1>5, <3>1, <3>2, <3>4, PairedKept
    <3> QED BY <1>2, <3>1, <3>2, <3>3, <3>5 DEF OfferRight
  <2> QED BY <1>7, <2>1, <2>2
<1>13. AskedRight'
  BY <1>3, AskedStays DEF EInv
<1>14. SlotTypes'
  BY <1>3 DEF EInv, SlotTypes
<1> HIDE DEF U
<1>15. AllNewEncoders' /\ AllInvites'
  BY <1>5, <1>6, <1>7, QuietPut DEF U
<1>16. /\ AllDownloads' /\ AllDecodes' /\ AllRecovers' /\ AllRecoverEncodes' /\ AllAvailables' /\ AllLoadOks'
       /\ AllTransfers'
  BY <1>3, <1>5, <1>6, <1>7, QuietGet, NoNewDownloads DEF U
<1>17. AllStoreOks' /\ AllStores' /\ AllPulls' /\ AllLoads' /\ AllDisks'
  BY <1>3, <1>5, <1>6, <1>7, QuietDisk, TasksStay DEF U
<1>18. AllPersists' /\ AllFetches' /\ AllPullers' /\ AllAnswered' /\ AllUploads'
  BY <1>3, <1>5, QuietSlots, AnsweredStays
<1>19. FailsOnlyByOverlap'
  BY <1>3, <1>5, FailsStay
<1> QED BY <1>10, <1>11, <1>12, <1>13, <1>14, <1>15, <1>16, <1>17, <1>18, <1>19
        DEF EInv, EventsRight, WorkRight, SlotsRight

(* A transfer that ends without its fragment keeps EInv. *)
LEMMA TransferFailStep ==
  ASSUME EInv, NEW t \in transfers, TransferFail(t)
  PROVE  EInv'
<1>1. /\ downloads' = downloads /\ persists' = persists /\ pulls' = pulls /\ disk' = disk
      /\ fsTasks' = fsTasks /\ transfers' \subseteq transfers /\ answered' = answered /\ uploads' = uploads
      /\ failed' = failed /\ asked' = asked /\ panicked' = panicked /\ inbox' = inbox
  BY DEF TransferFail, storage, outcomes
<1>2. Mono
  BY <1>1, StillWhenSame, UploadsStay DEF Mono
<1>3. Still /\ NoPairs /\ NewTypes({})
  BY <1>1, StillWhenSame, UploadsStay DEF NewTypes, Of
<1>4. AskedRight'
  BY <1>1, AskedStays DEF EInv
<1>5. SlotTypes'
  BY <1>1 DEF EInv, SlotTypes
<1>6. AllNewEncoders' /\ AllInvites' /\ AllInviteOks' /\ AllEncodes' /\ AllOffers'
  BY <1>2, <1>3, QuietPut, NoNewOffers
<1>7. /\ AllDownloads' /\ AllDecodes' /\ AllRecovers' /\ AllRecoverEncodes' /\ AllAvailables' /\ AllLoadOks'
      /\ AllTransfers'
  BY <1>1, <1>2, <1>3, QuietGet, NoNewDownloads
<1>8. AllStoreOks' /\ AllStores' /\ AllPulls' /\ AllLoads' /\ AllDisks'
  BY <1>1, <1>2, <1>3, QuietDisk, TasksStay
<1>9. AllPersists' /\ AllFetches' /\ AllPullers' /\ AllAnswered' /\ AllUploads'
  BY <1>1, <1>2, QuietSlots, AnsweredStays
<1>10. FailsOnlyByOverlap'
  BY <1>1, <1>2, FailsStay
<1> QED BY <1>4, <1>5, <1>6, <1>7, <1>8, <1>9, <1>10
        DEF EInv, EventsRight, WorkRight, SlotsRight

(* A transfer that arrives keeps EInv: it is the only one to a peer that   *)
(* does not get the chunk.                                                 *)
LEMMA TransferOkStep ==
  ASSUME EInv, NEW t \in transfers, TransferOk(t)
  PROVE  EInv'
<1> DEFINE e == [type |-> "DownloadOk", to |-> t.to, chunk |-> t.chunk, index |-> t.index, of |-> t.of]
           U == {"DownloadOk"}
<1>1. /\ downloads' = downloads /\ persists' = persists /\ pulls' = pulls /\ disk' = disk
      /\ fsTasks' = fsTasks /\ transfers' = transfers \ {t} /\ answered' = answered /\ uploads' = uploads
      /\ failed' = failed /\ asked' = asked /\ panicked' = panicked /\ inbox' = inbox \cup {e}
  BY DEF TransferOk, storage, outcomes, history
<1>2. Mono
  BY <1>1, StillWhenSame, UploadsStay DEF Mono
<1>3. Still /\ NoPairs /\ NewTypes(U) /\ "DownloadOk" \in U
  BY <1>1, StillWhenSame, UploadsStay DEF NewTypes, Of
<1>4. TransferRight(t)
  BY DEF EInv, WorkRight, AllTransfers
<1>5. AllDownloads'
  <2> SUFFICES ASSUME NEW f \in Of("DownloadOk")' PROVE DownloadRight(f)'
    BY DEF AllDownloads
  <2>1. CASE f \in Of("DownloadOk")
    <3>1. DownloadRight(f)
      BY <2>1 DEF EInv, EventsRight, AllDownloads
    <3>2. Same(f.to, f.chunk)
      BY <1>3, <3>1 DEF Still, DownloadRight
    <3> QED BY <1>2, <3>1, <3>2, DownloadKept
  <2>2. CASE f = e
    <3>1. DownloadRight(f)
      <4>1. t.to \in Peers /\ t.chunk \in Chunks /\ t.index \in Indices /\ t.of = t.index
        BY <1>4 DEF TransferRight
      <4>2. \/ Asked("Get", t.to, t.chunk)
            \/ Taken(t.to, t.chunk) /\ t.index = Index(t.to, t.chunk)
        BY <1>4 DEF TransferRight, OfferTransfer
      <4>3. f.to = t.to /\ f.chunk = t.chunk /\ f.index = t.index /\ f = DownloadEvent(f.to, f.chunk, f.index)
        BY <2>2, <4>1 DEF DownloadEvent
      <4> QED BY <4>1, <4>2, <4>3 DEF DownloadRight
    <3>2. Same(f.to, f.chunk)
      BY <1>3, <3>1 DEF Still, DownloadRight
    <3> QED BY <1>2, <3>1, <3>2, DownloadKept
  <2> QED BY <1>1, <2>1, <2>2 DEF Of
<1>6. AllTransfers'
  <2> SUFFICES ASSUME NEW s \in transfers' PROVE TransferRight(s)'
    BY DEF AllTransfers
  <2>1. s \in transfers /\ s # t
    BY <1>1
  <2>2. TransferRight(s)
    BY <2>1 DEF EInv, WorkRight, AllTransfers
  <2>3. s.to \in Peers /\ s.chunk \in Chunks
    BY <2>2 DEF TransferRight
  <2>4. ASSUME ~Asked("Get", s.to, s.chunk), Arrived(s.to, s.chunk)', ~Arrived(s.to, s.chunk) PROVE FALSE
    <3>1. s.to = t.to /\ s.chunk = t.chunk
      BY <1>1, <2>4 DEF Arrived, Of
    <3>2. /\ s = OfferTransfer(t.to, t.chunk, Index(t.to, t.chunk), s.receipt)
          /\ t = OfferTransfer(t.to, t.chunk, Index(t.to, t.chunk), t.receipt)
          /\ Asked("Put", s.receipt, t.chunk) /\ Asked("Put", t.receipt, t.chunk)
      BY <1>4, <2>2, <2>4, <3>1 DEF TransferRight
    <3>3. s.receipt = t.receipt
      BY <3>2, AskedFacts DEF EInv
    <3> QED BY <2>1, <3>2, <3>3
  <2> QED BY <1>2, <1>3, <2>2, <2>3, <2>4, TransferKept DEF Still
<1>7. AskedRight'
  BY <1>1, AskedStays DEF EInv
<1>8. SlotTypes'
  BY <1>1 DEF EInv, SlotTypes
<1> HIDE DEF U
<1>9. AllNewEncoders' /\ AllInvites' /\ AllInviteOks' /\ AllEncodes' /\ AllOffers'
  BY <1>2, <1>3, QuietPut, NoNewOffers DEF U
<1>10. AllDecodes' /\ AllRecovers' /\ AllRecoverEncodes' /\ AllAvailables' /\ AllLoadOks'
  BY <1>1, <1>2, <1>3, QuietGet DEF U
<1>11. AllStoreOks' /\ AllStores' /\ AllPulls' /\ AllLoads' /\ AllDisks'
  BY <1>1, <1>2, <1>3, QuietDisk, TasksStay DEF U
<1>12. AllPersists' /\ AllFetches' /\ AllPullers' /\ AllAnswered' /\ AllUploads'
  BY <1>1, <1>2, QuietSlots, AnsweredStays
<1>13. FailsOnlyByOverlap'
  BY <1>1, <1>2, FailsStay
<1> QED BY <1>5, <1>6, <1>7, <1>8, <1>9, <1>10, <1>11, <1>12, <1>13
        DEF EInv, EventsRight, WorkRight, SlotsRight

(* FragmentAvailable keeps EInv: the peers counted are pending under       *)
(* different indices and Available, so the ChunkN-th makes the put served. *)
LEMMA FragmentAvailableStep ==
  ASSUME EInv, NEW e \in Events("FragmentAvailable"), RecvFragmentAvailable(e)
  PROVE  EInv'
<1> DEFINE p == e.to
           c == e.chunk
           available == uploads[<<p, c>>].available \cup {e.from}
           done == uploads[<<p, c>>] # None /\ Cardinality(available) = ChunkN
<1>1. AvailableRight(e)
  BY DEF Events, Of, EInv, EventsRight, AllAvailables
<1>2. p \in Peers /\ c \in Chunks /\ Asked("Put", p, c) /\ e.from \in Peers
  BY <1>1, AskedFacts DEF AvailableRight, EInv
<1>3. /\ downloads' = downloads /\ persists' = persists /\ pulls' = pulls /\ disk' = disk
      /\ fsTasks' = fsTasks /\ transfers' = transfers
      /\ failed' = failed /\ asked' = asked /\ panicked' = panicked
      /\ Handle(e, {})
      /\ uploads' = IF uploads[<<p, c>>] = None THEN uploads
                    ELSE [uploads EXCEPT ![<<p, c>>] =
                            IF done THEN None ELSE [@ EXCEPT !.available = available]]
      /\ answered' = IF done THEN answered \cup {[op |-> "Put", peer |-> p, chunk |-> c, genuine |-> TRUE]}
                     ELSE answered
  BY DEF RecvFragmentAvailable, storage, outcomes
<1>4. /\ uploads' \in [Slots -> UploadStates \cup {None}]
      /\ \A q \in Peers, d \in Chunks : <<q, d>> # <<p, c>> => uploads'[<<q, d>>] = uploads[<<q, d>>]
      /\ uploads[<<p, c>>] = None => uploads'[<<p, c>>] = None
      /\ done => uploads'[<<p, c>>] = None
      /\ uploads[<<p, c>>] # None /\ ~done =>
           /\ uploads'[<<p, c>>].pending = uploads[<<p, c>>].pending
           /\ uploads'[<<p, c>>].encoder = uploads[<<p, c>>].encoder
           /\ uploads'[<<p, c>>].available = available
  <2>1. uploads \in [Slots -> UploadStates \cup {None}] /\ <<p, c>> \in Slots
    BY <1>2 DEF EInv, SlotTypes, Slots
  <2>2. CASE uploads[<<p, c>>] = None
    BY <1>3, <2>1, <2>2
  <2>3. CASE uploads[<<p, c>>] # None
    <3>1. uploads[<<p, c>>] \in UploadStates
      BY <2>1, <2>3
    <3>2. PICK u : u = IF done THEN None ELSE [uploads[<<p, c>>] EXCEPT !.available = available]
      OBVIOUS
    <3>3. uploads' = [uploads EXCEPT ![<<p, c>>] = u]
      BY <1>3, <2>1, <2>3, <3>2
    <3>4. ~done => /\ u \in UploadStates /\ u.pending = uploads[<<p, c>>].pending
                   /\ u.encoder = uploads[<<p, c>>].encoder /\ u.available = available
      BY <1>2, <3>1, <3>2 DEF UploadStates
    <3>5. uploads' \in [Slots -> UploadStates \cup {None}] /\ uploads'[<<p, c>>] = u
      BY <2>1, <3>2, <3>3, <3>4
    <3>6. \A q \in Peers, d \in Chunks : <<q, d>> # <<p, c>> => uploads'[<<q, d>>] = uploads[<<q, d>>]
      BY <2>1, <3>3 DEF Slots
    <3> QED BY <2>3, <3>2, <3>4, <3>5, <3>6
  <2> QED BY <2>2, <2>3
<1>5. Mono
  <2>1. \A q \in Peers, d \in Chunks : UploadForward(q, d)
    <3> SUFFICES ASSUME NEW q \in Peers, NEW d \in Chunks PROVE UploadForward(q, d)
      OBVIOUS
    <3>1. CASE <<q, d>> = <<p, c>>
      BY <1>4, <3>1 DEF UploadForward
    <3>2. CASE <<q, d>> # <<p, c>>
      BY <1>4, <3>2 DEF UploadForward
    <3> QED BY <3>1, <3>2
  <2> QED BY <1>3, <2>1, StillWhenSame DEF Mono
<1>6. Still
  BY <1>3, StillWhenSame
<1>7. NoPairs
  <2> SUFFICES ASSUME NEW q \in Peers, NEW d \in Chunks, uploads'[<<q, d>>] # None
               PROVE  uploads'[<<q, d>>].pending \subseteq uploads[<<q, d>>].pending
    BY DEF NoPairs
  <2>1. CASE <<q, d>> = <<p, c>>
    BY <1>4, <2>1
  <2>2. CASE <<q, d>> # <<p, c>>
    BY <1>4, <2>2
  <2> QED BY <2>1, <2>2
<1>8. NewTypes({})
  BY <1>3, Flow
<1>9. ASSUME uploads[<<p, c>>] # None
      PROVE  /\ UploadRight(p, c) /\ available \subseteq Peers
             /\ \A q \in available : In(q, c, "Available") /\ Paired(q, c)
  <2>1. UploadRight(p, c)
    BY <1>2 DEF EInv, SlotsRight, AllUploads
  <2>2. uploads[<<p, c>>] \in UploadStates
    BY <1>2, <1>9 DEF EInv, SlotTypes, Slots
  <2>3. uploads[<<p, c>>].available \subseteq Peers
    BY <2>2 DEF UploadStates
  <2>4. In(e.from, c, "Available") /\ Paired(e.from, c)
    BY <1>1, <1>9 DEF AvailableRight
  <2> QED BY <1>2, <1>9, <2>1, <2>3, <2>4 DEF UploadRight
<1>10. done => Served(c)
  <2> SUFFICES ASSUME done PROVE Served(c)
    OBVIOUS
  <2>1. ASSUME NEW q \in available, NEW r \in available, Index(q, c) = Index(r, c) PROVE q = r
    <3>1. /\ [index |-> Index(q, c), peer |-> q] \in uploads[<<p, c>>].pending
          /\ [index |-> Index(r, c), peer |-> r] \in uploads[<<p, c>>].pending
      BY <1>2, <1>9 DEF Paired
    <3>2. [index |-> Index(q, c), peer |-> q] = [index |-> Index(r, c), peer |-> r]
      BY <1>9, <2>1, <3>1 DEF UploadRight
    <3> QED BY <3>2
  <2>2. available \in SUBSET Peers /\ Cardinality(available) = ChunkN
    BY <1>9
  <2>3. \A q \in available : In(q, c, "Available")
    BY <1>9
  <2> HIDE DEF available
  <2> QED BY <2>1, <2>2, <2>3 DEF Served
<1>11. AllAnswered'
  <2> SUFFICES ASSUME NEW a \in answered' PROVE AnsweredRight(a)'
    BY DEF AllAnswered
  <2>1. CASE a \in answered
    BY <1>5, <2>1, AnsweredKept DEF EInv, AllAnswered
  <2>2. CASE done /\ a = [op |-> "Put", peer |-> p, chunk |-> c, genuine |-> TRUE]
    <3>1. Asked("Put", p, c)' /\ Served(c)'
      BY <1>2, <1>5, <1>10, <2>2, AskedKept, ServedKept
    <3> QED BY <2>2, <3>1 DEF AnsweredRight
  <2> QED BY <1>3, <2>1, <2>2
<1>12. AllUploads'
  <2> SUFFICES ASSUME NEW q \in Peers, NEW d \in Chunks PROVE UploadRight(q, d)'
    BY DEF AllUploads
  <2>1. UploadRight(q, d)
    BY DEF EInv, SlotsRight, AllUploads
  <2>2. CASE <<q, d>> # <<p, c>>
    <3>1. Answered("Put", q, d)' => Answered("Put", q, d)
      BY <1>3, <2>2 DEF Answered
    <3> QED BY <1>4, <1>5, <2>1, <2>2, <3>1, UploadKept DEF EInv
  <2>3. CASE <<q, d>> = <<p, c>> /\ uploads'[<<p, c>>] # None
    <3>1. q = p /\ d = c /\ uploads[<<p, c>>] # None /\ ~done
      BY <1>4, <2>3
    <3>2. Asked("Put", p, c)' /\ Begun(c)
      BY <1>2, <1>5, AskedKept DEF Begun
    <3>3. ~Answered("Put", p, c)'
      BY <1>3, <2>1, <3>1 DEF Answered, UploadRight
    <3>4. /\ \A w \in uploads'[<<p, c>>].pending : Invited(w.peer, c)' /\ w.index = Index(w.peer, c)'
          /\ \A v, w \in uploads'[<<p, c>>].pending : v.index = w.index => v = w
      BY <1>3, <1>4, <2>1, <3>1 DEF UploadRight, Invited, Index
    <3>5. \A r \in uploads'[<<p, c>>].available : In(r, c, "Available")' /\ Paired(r, c)'
      <4> SUFFICES ASSUME NEW r \in available PROVE In(r, c, "Available")' /\ Paired(r, c)'
        BY <1>4, <3>1
      <4>1. r \in Peers /\ In(r, c, "Available") /\ Paired(r, c)
        BY <1>9, <3>1
      <4> QED BY <1>2, <1>5, <3>2, <4>1, InvitedKept, PairedKept DEF In
    <3> QED BY <3>1, <3>2, <3>3, <3>4, <3>5 DEF UploadRight
  <2>4. CASE <<q, d>> = <<p, c>> /\ uploads'[<<p, c>>] = None
    BY <2>4 DEF UploadRight
  <2> QED BY <2>2, <2>3, <2>4
<1>13. AskedRight'
  BY <1>3, <1>5, AskedStays DEF EInv, Mono
<1>14. SlotTypes'
  BY <1>3, <1>4 DEF EInv, SlotTypes
<1>15. AnsweredSame("Get")
  BY <1>3 DEF AnsweredSame, Answered
<1>16. AllNewEncoders' /\ AllInvites' /\ AllInviteOks' /\ AllEncodes' /\ AllOffers'
  BY <1>5, <1>6, <1>7, <1>8, QuietPut, NoNewOffers
<1>17. /\ AllDownloads' /\ AllDecodes' /\ AllRecovers' /\ AllRecoverEncodes' /\ AllAvailables' /\ AllLoadOks'
       /\ AllTransfers'
  BY <1>3, <1>5, <1>6, <1>8, QuietGet, NoNewDownloads
<1>18. AllStoreOks' /\ AllStores' /\ AllPulls' /\ AllLoads' /\ AllDisks'
  BY <1>3, <1>5, <1>6, <1>8, QuietDisk, TasksStay
<1>19. AllPersists' /\ AllFetches' /\ AllPullers'
  BY <1>3, <1>5, <1>15, QuietSlots
<1>20. FailsOnlyByOverlap'
  BY <1>3, <1>5, FailsStay
<1> QED BY <1>11, <1>12, <1>13, <1>14, <1>16, <1>17, <1>18, <1>19, <1>20
        DEF EInv, EventsRight, WorkRight, SlotsRight

(* Get keeps EInv: the put of the chunk is answered, so no upload of it    *)
(* goes on.                                                                *)
LEMMA GetStep ==
  ASSUME EInv, NEW p \in Peers, NEW c \in Chunks, Get(p, c)
  PROVE  EInv'
<1> DEFINE U == {"Pull"}
<1>1. /\ \A g \in asked : g.op = "Put" \/ g.chunk # c
      /\ \E a \in answered : a.op = "Put" /\ a.chunk = c
      /\ asked' = asked \cup {[op |-> "Get", peer |-> p, chunk |-> c]}
      /\ downloads' = [downloads EXCEPT ![<<p, c>>] = NewRecover]
      /\ uploads' = uploads /\ persists' = persists /\ pulls' = pulls /\ disk' = disk
      /\ fsTasks' = fsTasks /\ transfers' = transfers /\ answered' = answered /\ panicked' = panicked
  BY DEF Get, storage
<1>2. \A q : ~Asked("Get", q, c)
  BY <1>1 DEF Asked
<1>3. downloads[<<p, c>>] = None
  BY <1>2 DEF EInv, SlotsRight, AllFetches, DownloadsRight
<1>4. failed' = failed /\ inbox' = inbox \cup {PullEvent(q, c, p) : q \in Closest[c]}
  BY <1>3 DEF Get, PullEvent
<1>5. Closest[c] \subseteq Peers
  BY EntropyAssumption
<1>6. /\ downloads'[<<p, c>>] = NewRecover
      /\ \A q \in Peers, d \in Chunks : <<q, d>> # <<p, c>> => downloads'[<<q, d>>] = downloads[<<q, d>>]
      /\ downloads' \in [Slots -> RecoverStates \cup {None}]
  <2>1. downloads \in [Slots -> RecoverStates \cup {None}] /\ <<p, c>> \in Slots
    BY DEF EInv, SlotTypes, Slots
  <2>2. NewRecover \in RecoverStates
    BY DEF NewRecover, RecoverStates
  <2>3. downloads' \in [Slots -> RecoverStates \cup {None}] /\ downloads'[<<p, c>>] = NewRecover
    BY <1>1, <2>1, <2>2
  <2>4. \A q \in Peers, d \in Chunks : <<q, d>> # <<p, c>> => downloads'[<<q, d>>] = downloads[<<q, d>>]
    BY <1>1, <2>1 DEF Slots
  <2> QED BY <2>3, <2>4
<1>7. Mono
  BY <1>1, StillWhenSame, UploadsStay DEF Mono
<1>8. Still /\ NoPairs
  BY <1>1, StillWhenSame, UploadsStay
<1>9. NewTypes(U) /\ "Pull" \in U
  <2>1. \A q : PullEvent(q, c, p).type = "Pull"
    BY DEF PullEvent
  <2> QED BY <1>4, <2>1 DEF NewTypes, Of
<1>10. AllPulls'
  <2> SUFFICES ASSUME NEW f \in Of("Pull")' PROVE PullRight(f)'
    BY DEF AllPulls
  <2>1. CASE f \in inbox
    <3>1. PullRight(f)
      BY <2>1 DEF EInv, EventsRight, AllPulls, Of
    <3>2. f.to \in Peers /\ f.chunk \in Chunks
      BY <3>1, AskedFacts DEF PullRight, EInv
    <3>3. In(f.to, f.chunk, "Available")' = In(f.to, f.chunk, "Available")
      BY <1>8, <3>2, SameIn DEF Still
    <3>4. Fewer("Load")
      BY <1>1, TasksStay
    <3> QED BY <1>1, <1>7, <3>1, <3>3, <3>4, PullKept DEF Fewer
  <2>2. CASE f \notin inbox
    <3>1. PICK q \in Peers : f = PullEvent(q, c, p)
      BY <1>4, <1>5, <2>2 DEF Of
    <3>2. f.to = q /\ f.chunk = c /\ f.from = p
      BY <3>1 DEF PullEvent
    <3>3. Asked("Get", p, c)'
      BY <1>1 DEF Asked
    <3>4. ASSUME NEW t \in Tasks("Load"), <<t.peer, t.chunk>> = <<q, c>> PROVE FALSE
      <4>1. Asked("Get", t.by, t.chunk)
        BY DEF EInv, WorkRight, AllLoads, LoadRight
      <4> QED BY <1>2, <3>4, <4>1
    <3>5. Tasks("Load")' = Tasks("Load")
      BY <1>1 DEF Tasks
    <3>6. ~Fetched(c) /\ PersistRight(q, c)
      BY <1>2 DEF Fetched, EInv, SlotsRight, AllPersists
    <3>7. In(q, c, "Available") => disk[<<q, c>>] # None
      BY <3>6 DEF PersistRight, In
    <3>8. In(q, c, "Available")' = In(q, c, "Available")
      BY <1>8, SameIn DEF Still
    <3> QED BY <1>1, <3>1, <3>2, <3>3, <3>4, <3>5, <3>7, <3>8 DEF PullRight
  <2> QED BY <2>1, <2>2
<1>11. AllFetches'
  <2> SUFFICES ASSUME NEW q \in Peers, NEW d \in Chunks PROVE DownloadsRight(q, d)'
    BY DEF AllFetches
  <2>1. DownloadsRight(q, d) /\ AnsweredSame("Get")
    BY <1>1, AnsweredStays DEF EInv, SlotsRight, AllFetches
  <2>2. CASE <<q, d>> # <<p, c>>
    BY <1>6, <1>7, <2>1, <2>2, DownloadsKept DEF AnsweredSame
  <2>3. CASE <<q, d>> = <<p, c>>
    <3>1. Asked("Get", p, c)'
      BY <1>1 DEF Asked
    <3>2. ~Answered("Get", p, c)'
      BY <1>1, <1>2 DEF Answered, EInv, AllAnswered, AnsweredRight
    <3>3. downloads'[<<q, d>>].pending = {} /\ downloads'[<<q, d>>].decoder = {}
      BY <1>6, <2>3 DEF NewRecover
    <3> QED BY <2>3, <3>1, <3>2, <3>3 DEF DownloadsRight, Genuine
  <2> QED BY <2>2, <2>3
<1>12. AskedRight'
  <2>1. \A g \in asked' : /\ g.peer \in Peers /\ g.chunk \in Chunks
                          /\ (g.op = "Put" => <<g.peer, g.chunk>> \in Putters)
    <3> SUFFICES ASSUME NEW g \in asked'
                 PROVE  g.peer \in Peers /\ g.chunk \in Chunks /\ (g.op = "Put" => <<g.peer, g.chunk>> \in Putters)
      OBVIOUS
    <3>1. CASE g \in asked
      BY <3>1 DEF EInv, AskedRight
    <3>2. CASE g = [op |-> "Get", peer |-> p, chunk |-> c]
      BY <3>2
    <3> QED BY <1>1, <3>1, <3>2
  <2>2. \A g, h \in asked' : g.op = "Get" /\ h.op = "Get" /\ g.chunk = h.chunk => g.peer = h.peer
    BY <1>1 DEF EInv, AskedRight
  <2>3. \A g \in asked' : g.op = "Get" => \E a \in answered' : a.op = "Put" /\ a.chunk = g.chunk
    BY <1>1 DEF EInv, AskedRight
  <2> QED BY <2>1, <2>2, <2>3 DEF AskedRight
<1>13. SlotTypes'
  BY <1>1, <1>4, <1>6 DEF EInv, SlotTypes
<1> HIDE DEF U
<1>14. AllNewEncoders' /\ AllInvites' /\ AllInviteOks' /\ AllEncodes' /\ AllOffers'
  BY <1>7, <1>8, <1>9, QuietPut, NoNewOffers DEF U
<1>15. /\ AllDownloads' /\ AllDecodes' /\ AllRecovers' /\ AllRecoverEncodes' /\ AllAvailables' /\ AllLoadOks'
       /\ AllTransfers'
  BY <1>1, <1>7, <1>8, <1>9, QuietGet, NoNewDownloads DEF U
<1>16. AllStoreOks' /\ AllStores' /\ AllLoads' /\ AllDisks'
  BY <1>1, <1>7, <1>8, <1>9, QuietDisk, TasksStay DEF U
<1>17. AllPersists' /\ AllPullers' /\ AllAnswered' /\ AllUploads'
  BY <1>1, <1>7, QuietSlots, AnsweredStays
<1>18. FailsOnlyByOverlap'
  BY <1>1, <1>4, <1>7, FailsStay
<1> QED BY <1>10, <1>11, <1>12, <1>13, <1>14, <1>15, <1>16, <1>17, <1>18
        DEF EInv, EventsRight, WorkRight, SlotsRight

(* Pull keeps EInv: an Available peer has the fragment on disk as this is  *)
(* the chunk's only get.                                                   *)
LEMMA PullStep ==
  ASSUME EInv, NEW e \in Events("Pull"), RecvPull(e)
  PROVE  EInv'
<1> DEFINE p == e.to
           c == e.chunk
           serve == persists[<<p, c>>] # None /\ persists[<<p, c>>].status = "Available"
           t0 == LoadTask(p, c, Index(p, c), e.from)
<1>1. e \in Of("Pull") /\ PullRight(e)
  BY DEF Events, Of, EInv, EventsRight, AllPulls
<1>2. p \in Peers /\ c \in Chunks /\ Asked("Get", e.from, c) /\ e.from \in Peers /\ e = PullEvent(p, c, e.from)
  BY <1>1, AskedFacts DEF PullRight, EInv
<1>3. /\ downloads' = downloads /\ persists' = persists /\ uploads' = uploads /\ disk' = disk
      /\ transfers' = transfers /\ answered' = answered
      /\ failed' = failed /\ asked' = asked /\ panicked' = panicked
      /\ Handle(e, {})
      /\ pulls' = IF serve THEN [pulls EXCEPT ![<<p, c>>] = @ \cup {e.from}] ELSE pulls
      /\ fsTasks' = IF serve THEN fsTasks \cup {t0} ELSE fsTasks
  BY DEF RecvPull, outcomes, history, LoadTask, Index
<1>4. Mono
  BY <1>3, StillWhenSame, UploadsStay DEF Mono
<1>5. Still /\ NoPairs /\ NewTypes({})
  BY <1>3, StillWhenSame, UploadsStay, Flow
<1>6. e \notin inbox'
  BY <1>3, Flow
<1>7. Fewer("Store") /\ Tasks("Load")' \subseteq Tasks("Load") \cup (IF serve THEN {t0} ELSE {})
  BY <1>3 DEF Fewer, Tasks, LoadTask
<1>8. serve => In(p, c, "Available") /\ disk[<<p, c>>] # None
  BY <1>1 DEF PullRight, In, Invited
<1>9. t0.peer = p /\ t0.chunk = c /\ t0.by = e.from /\ t0.op = "Load"
  BY DEF LoadTask
<1>10. AllPulls'
  <2> SUFFICES ASSUME NEW f \in Of("Pull")' PROVE PullRight(f)'
    BY DEF AllPulls
  <2>1. f \in Of("Pull") /\ f # e
    BY <1>5, <1>6 DEF NewTypes, Of
  <2>2. PullRight(f)
    BY <2>1 DEF EInv, EventsRight, AllPulls
  <2>3. f.to \in Peers /\ f.chunk \in Chunks
    BY <2>2, AskedFacts DEF PullRight, EInv
  <2>4. <<f.to, f.chunk>> # <<p, c>>
    BY <1>2, <2>1, <2>2, AskedFacts DEF PullRight, EInv
  <2>5. In(f.to, f.chunk, "Available")' = In(f.to, f.chunk, "Available")
    BY <1>5, <2>3, SameIn DEF Still
  <2>6. \A t \in Tasks("Load")' : <<t.peer, t.chunk>> = <<f.to, f.chunk>> => t \in Tasks("Load")
    BY <1>7, <1>9, <2>4
  <2> QED BY <1>3, <1>4, <2>2, <2>5, <2>6, PullKept
<1>11. AllLoads'
  <2> SUFFICES ASSUME NEW t \in Tasks("Load")' PROVE LoadRight(t)'
    BY DEF AllLoads
  <2>1. LoadRight(t)
    <3>1. CASE t \in Tasks("Load")
      BY <3>1 DEF EInv, WorkRight, AllLoads
    <3>2. CASE serve /\ t = t0
      BY <1>2, <1>8, <1>9, <3>2 DEF LoadRight
    <3> QED BY <1>7, <3>1, <3>2
  <2>2. disk'[<<t.peer, t.chunk>>] # None
    BY <1>3, <2>1 DEF LoadRight
  <2> QED BY <1>4, <2>1, <2>2, LoadKept DEF EInv
<1>12. pulls \in [Slots -> SUBSET Peers] /\ <<p, c>> \in Slots
  BY <1>2 DEF EInv, SlotTypes, Slots
<1>13. AllPullers'
  <2> SUFFICES ASSUME NEW q \in Peers, NEW d \in Chunks PROVE PullsRight(q, d)'
    BY DEF AllPullers
  <2>1. \A r \in pulls'[<<q, d>>] : r \in pulls[<<q, d>>] \/ (<<q, d>> = <<p, c>> /\ r = e.from)
    BY <1>3, <1>12 DEF Slots
  <2>2. PullsRight(q, d)
    BY DEF EInv, SlotsRight, AllPullers
  <2>3. \A r \in pulls'[<<q, d>>] : Asked("Get", r, d)
    BY <1>2, <2>1, <2>2 DEF PullsRight
  <2> QED BY <1>4, <2>3, AskedKept DEF PullsRight
<1>14. AskedRight'
  BY <1>3, AskedStays DEF EInv
<1>15. SlotTypes'
  <2>1. pulls' \in [Slots -> SUBSET Peers]
    BY <1>2, <1>3, <1>12
  <2> QED BY <1>3, <2>1 DEF EInv, SlotTypes
<1>16. AllNewEncoders' /\ AllInvites' /\ AllInviteOks' /\ AllEncodes' /\ AllOffers'
  BY <1>4, <1>5, QuietPut, NoNewOffers
<1>17. /\ AllDownloads' /\ AllDecodes' /\ AllRecovers' /\ AllRecoverEncodes' /\ AllAvailables' /\ AllLoadOks'
       /\ AllTransfers'
  BY <1>3, <1>4, <1>5, QuietGet, NoNewDownloads
<1>18. AllStoreOks' /\ AllStores' /\ AllDisks'
  BY <1>3, <1>4, <1>5, <1>7, QuietDisk
<1>19. AllPersists' /\ AllFetches' /\ AllAnswered' /\ AllUploads'
  BY <1>3, <1>4, QuietSlots, AnsweredStays
<1>20. FailsOnlyByOverlap'
  BY <1>3, <1>4, FailsStay
<1> QED BY <1>10, <1>11, <1>13, <1>14, <1>15, <1>16, <1>17, <1>18, <1>19, <1>20
        DEF EInv, EventsRight, WorkRight, SlotsRight

(* LoadOk keeps EInv: the offers without a receipt go to a peer that gets  *)
(* the chunk.                                                              *)
LEMMA LoadOkStep ==
  ASSUME EInv, NEW e \in Events("LoadOk"), LoadOk(e)
  PROVE  EInv'
<1> DEFINE p == e.to
           c == e.chunk
           U == {"RecvOffer"}
           Offer(q) == [type |-> "RecvOffer", to |-> q, chunk |-> c, index |-> e.fragment.index,
                        of |-> e.fragment.of, from |-> p, receipt |-> None]
<1>1. e \in Of("LoadOk") /\ LoadOkRight(e) /\ e.type = "LoadOk"
  BY DEF Events, Of, EInv, EventsRight, AllLoadOks
<1>2. /\ p \in Peers /\ c \in Chunks /\ e.fragment \in Fragments /\ e.fragment.index = e.fragment.of
  BY <1>1 DEF LoadOkRight
<1>3. /\ downloads' = downloads /\ persists' = persists /\ uploads' = uploads /\ disk' = disk
      /\ transfers' = transfers /\ answered' = answered /\ fsTasks' = fsTasks
      /\ failed' = failed /\ asked' = asked /\ panicked' = panicked
      /\ pulls' = [pulls EXCEPT ![<<p, c>>] = {}]
  BY DEF LoadOk, outcomes, history
<1>4. PICK out : Handle(e, out) /\ \A o \in out : \E q \in pulls[<<p, c>>] : o = Offer(q)
  BY DEF LoadOk
<1>5. Mono
  BY <1>3, StillWhenSame, UploadsStay DEF Mono
<1>6. /\ NewTypes(U) /\ "RecvOffer" \in U
      /\ \A type : Of(type)' \subseteq Of(type) \cup out
  <2>1. \A o \in out : o.type \in U
    BY <1>4
  <2> QED BY <1>4, <2>1, Flow
<1>7. Still /\ NoPairs
  BY <1>3, StillWhenSame, UploadsStay
<1>8. \A o \in out : o.receipt = None
  BY <1>4
<1>9. NoOffered
  BY <1>6, <1>8 DEF NoOffered, Offered
<1>10. AllOffers'
  <2> SUFFICES ASSUME NEW f \in Of("RecvOffer")' PROVE OfferRight(f)'
    BY DEF AllOffers
  <2>1. CASE f \in Of("RecvOffer")
    <3>1. OfferRight(f)
      BY <2>1 DEF EInv, EventsRight, AllOffers
    <3>2. Same(f.to, f.chunk)
      BY <1>7, <3>1 DEF Still, OfferRight
    <3> QED BY <1>5, <3>1, <3>2, OfferKept DEF EInv
  <2>2. CASE f \in out
    <3>1. PICK q \in pulls[<<p, c>>] : f = Offer(q)
      BY <1>4, <2>2
    <3>2. Asked("Get", q, c)
      BY <1>2 DEF EInv, SlotsRight, AllPullers, PullsRight
    <3>3. q \in Peers /\ Asked("Get", q, c)'
      BY <1>5, <3>2, AskedKept, AskedFacts DEF EInv
    <3>4. /\ f.to = q /\ f.chunk = c /\ f.receipt = None
          /\ f.index = e.fragment.index /\ f.of = e.fragment.of
      BY <3>1
    <3>5. e.fragment.index \in Indices
      BY <1>2 DEF Fragments
    <3> QED BY <1>2, <3>3, <3>4, <3>5 DEF OfferRight
  <2> QED BY <1>6, <2>1, <2>2
<1>11. AllPullers'
  <2> SUFFICES ASSUME NEW q \in Peers, NEW d \in Chunks PROVE PullsRight(q, d)'
    BY DEF AllPullers
  <2>1. pulls \in [Slots -> SUBSET Peers] /\ <<q, d>> \in Slots
    BY DEF EInv, SlotTypes, Slots
  <2>2. pulls'[<<q, d>>] \subseteq pulls[<<q, d>>]
    BY <1>3, <2>1
  <2>3. PullsRight(q, d)
    BY DEF EInv, SlotsRight, AllPullers
  <2> QED BY <1>5, <2>2, <2>3, PullsKept
<1>12. AskedRight'
  BY <1>3, AskedStays DEF EInv
<1>13. SlotTypes'
  <2>1. pulls' \in [Slots -> SUBSET Peers]
    BY <1>3 DEF EInv, SlotTypes
  <2> QED BY <1>3, <2>1 DEF EInv, SlotTypes
<1> HIDE DEF U
<1>14. AllNewEncoders' /\ AllInvites' /\ AllInviteOks' /\ AllEncodes'
  BY <1>5, <1>6, <1>7, <1>9, QuietPut DEF U
<1>15. /\ AllDownloads' /\ AllDecodes' /\ AllRecovers' /\ AllRecoverEncodes' /\ AllAvailables' /\ AllLoadOks'
       /\ AllTransfers'
  BY <1>3, <1>5, <1>6, <1>7, QuietGet, NoNewDownloads DEF U
<1>16. AllStoreOks' /\ AllStores' /\ AllPulls' /\ AllLoads' /\ AllDisks'
  BY <1>3, <1>5, <1>6, <1>7, QuietDisk, TasksStay DEF U
<1>17. AllPersists' /\ AllFetches' /\ AllAnswered' /\ AllUploads'
  BY <1>3, <1>5, QuietSlots, AnsweredStays
<1>18. FailsOnlyByOverlap'
  BY <1>3, <1>5, FailsStay
<1> QED BY <1>10, <1>11, <1>12, <1>13, <1>14, <1>15, <1>16, <1>17, <1>18
        DEF EInv, EventsRight, WorkRight, SlotsRight

(* Recover keeps EInv: what was decoded is genuine. *)
LEMMA RecoverStep ==
  ASSUME EInv, NEW e \in Events("Recover"), Recover(e)
  PROVE  EInv'
<1> DEFINE p == e.to
           c == e.chunk
<1>1. RecoverRight(e)
  BY DEF Events, Of, EInv, EventsRight, AllRecovers
<1>2. p \in Peers /\ c \in Chunks /\ Asked("Get", p, c) /\ e.genuine
  BY <1>1, AskedFacts DEF RecoverRight, EInv
<1>3. /\ uploads' = uploads /\ persists' = persists /\ disk' = disk /\ pulls' = pulls
      /\ transfers' = transfers /\ fsTasks' = fsTasks
      /\ failed' = failed /\ asked' = asked /\ panicked' = panicked
      /\ Handle(e, {})
      /\ downloads' = [downloads EXCEPT ![<<p, c>>] = None]
      /\ answered \subseteq answered'
      /\ answered' \subseteq answered \cup {[op |-> "Get", peer |-> p, chunk |-> c, genuine |-> e.genuine]}
  BY DEF Recover, outcomes, storage
<1>4. Mono
  BY <1>3, StillWhenSame, UploadsStay DEF Mono
<1>5. Still /\ NoPairs /\ NewTypes({})
  BY <1>3, StillWhenSame, UploadsStay, Flow
<1>6. AnsweredSame("Put")
  BY <1>3 DEF AnsweredSame, Answered
<1>7. \A q \in Peers, d \in Chunks : Answered("Get", q, d)' => Answered("Get", q, d) \/ (q = p /\ d = c)
  BY <1>3 DEF Answered
<1>8. downloads \in [Slots -> RecoverStates \cup {None}] /\ <<p, c>> \in Slots
  BY <1>2 DEF EInv, SlotTypes, Slots
<1>9. AllFetches'
  <2> SUFFICES ASSUME NEW q \in Peers, NEW d \in Chunks PROVE DownloadsRight(q, d)'
    BY DEF AllFetches
  <2>1. DownloadsRight(q, d) /\ <<q, d>> \in Slots
    BY DEF EInv, SlotsRight, AllFetches, Slots
  <2>2. CASE <<q, d>> = <<p, c>>
    <3>1. downloads'[<<q, d>>] = None
      BY <1>3, <1>8, <2>2
    <3> QED BY <3>1 DEF DownloadsRight
  <2>3. CASE <<q, d>> # <<p, c>>
    <3>1. downloads'[<<q, d>>] = downloads[<<q, d>>]
      BY <1>3, <1>8, <2>1, <2>3
    <3>2. Answered("Get", q, d)' => Answered("Get", q, d)
      BY <1>7, <2>3
    <3> QED BY <1>4, <2>1, <3>1, <3>2, DownloadsKept
  <2> QED BY <2>2, <2>3
<1>10. AllAnswered'
  <2> SUFFICES ASSUME NEW a \in answered' PROVE AnsweredRight(a)'
    BY DEF AllAnswered
  <2>1. CASE a \in answered
    BY <1>4, <2>1, AnsweredKept DEF EInv, AllAnswered
  <2>2. CASE a = [op |-> "Get", peer |-> p, chunk |-> c, genuine |-> e.genuine]
    <3>1. Asked("Get", p, c)'
      BY <1>2, <1>4, AskedKept
    <3> QED BY <1>2, <2>2, <3>1 DEF AnsweredRight
  <2> QED BY <1>3, <2>1, <2>2
<1>11. AskedRight'
  BY <1>3, AskedStays DEF EInv
<1>12. SlotTypes'
  <2>1. downloads' \in [Slots -> RecoverStates \cup {None}]
    BY <1>3, <1>8
  <2> QED BY <1>3, <2>1 DEF EInv, SlotTypes
<1>13. AllNewEncoders' /\ AllInvites' /\ AllInviteOks' /\ AllEncodes' /\ AllOffers'
  BY <1>4, <1>5, QuietPut, NoNewOffers
<1>14. /\ AllDownloads' /\ AllDecodes' /\ AllRecovers' /\ AllRecoverEncodes' /\ AllAvailables' /\ AllLoadOks'
       /\ AllTransfers'
  BY <1>3, <1>4, <1>5, QuietGet, NoNewDownloads
<1>15. AllStoreOks' /\ AllStores' /\ AllPulls' /\ AllLoads' /\ AllDisks'
  BY <1>3, <1>4, <1>5, QuietDisk, TasksStay
<1>16. AllPersists' /\ AllPullers' /\ AllUploads'
  BY <1>3, <1>4, <1>6, QuietSlots
<1>17. FailsOnlyByOverlap'
  BY <1>3, <1>4, FailsStay
<1> QED BY <1>9, <1>10, <1>11, <1>12, <1>13, <1>14, <1>15, <1>16, <1>17
        DEF EInv, EventsRight, WorkRight, SlotsRight

-----------------------------------------------------------------------------
(* Facts of the invariant that several steps need. *)

(* Once a chunk is got no upload of it goes on. *)
LEMMA FetchedClosed ==
  ASSUME EInv, NEW u \in Peers, NEW c \in Chunks, Fetched(c)
  PROVE  uploads[<<u, c>>] = None
<1> SUFFICES ASSUME uploads[<<u, c>>] # None PROVE FALSE
  OBVIOUS
<1>1. PICK q \in Peers : Asked("Get", q, c)
  BY DEF Fetched
<1>2. PICK a \in answered : a.op = "Put" /\ a.chunk = c
  BY <1>1, AskedFacts DEF EInv
<1>3. Asked("Put", a.peer, c)
  BY <1>2 DEF EInv, AllAnswered, AnsweredRight
<1>4. UploadRight(u, c)
  BY DEF EInv, SlotsRight, AllUploads
<1>5. a.peer = u
  BY <1>3, <1>4, AskedFacts DEF EInv, UploadRight
<1> QED BY <1>2, <1>4, <1>5 DEF UploadRight, Answered

(* Who asks for a chunk is a peer and has it fetched. *)
LEMMA AskedFetched ==
  ASSUME EInv, NEW q, NEW c, Asked("Get", q, c)
  PROVE  q \in Peers /\ c \in Chunks /\ Fetched(c)
BY AskedFacts DEF EInv, Fetched

(* A step that moves one peer's fragment of one chunk. *)
StillBut(p, c) == \A q \in Peers, d \in Chunks : <<q, d>> # <<p, c>> => Same(q, d)

(* Nobody is about to send the peer an offer of its fragment. *)
Closed(p, c) == Fetched(c) \/ Offered(p, c) \/ ~Waiting(p, c)

(* If the one slot that moves goes forward, all do. *)
LEMMA MoveForward ==
  ASSUME NEW p \in Peers, NEW c \in Chunks, StillBut(p, c), Forward(p, c)
  PROVE  \A q \in Peers, d \in Chunks : Forward(q, d)
<1> SUFFICES ASSUME NEW q \in Peers, NEW d \in Chunks PROVE Forward(q, d)
  OBVIOUS
<1>1. CASE <<q, d>> = <<p, c>>
  BY <1>1
<1>2. CASE <<q, d>> # <<p, c>>
  BY <1>2 DEF StillBut, Same, Forward
<1> QED BY <1>1, <1>2

(* An InviteOk stays right when a peer moves that no answer of an upload   *)
(* that goes on is from.                                                   *)
LEMMA MoveInviteOk ==
  ASSUME EInv, Mono, NEW p \in Peers, NEW c \in Chunks, StillBut(p, c), Closed(p, c), NoOffered, NoPairs,
         NEW e \in Of("InviteOk")
  PROVE  InviteOkRight(e)'
<1>1. InviteOkRight(e)
  BY DEF EInv, EventsRight, AllInviteOks
<1>2. e.to \in Peers /\ e.chunk \in Chunks /\ e.from \in Peers /\ Asked("Put", e.to, e.chunk)
  BY <1>1, AskedFacts DEF InviteOkRight, EInv
<1>3. ASSUME uploads'[<<e.to, e.chunk>>] # None
      PROVE  /\ Same(e.from, e.chunk) /\ (Offered(e.from, e.chunk)' => Offered(e.from, e.chunk))
             /\ \A w \in uploads'[<<e.to, e.chunk>>].pending :
                  w.peer = e.from => w \in uploads[<<e.to, e.chunk>>].pending
  <2>1. uploads[<<e.to, e.chunk>>] # None
    BY <1>2, <1>3, LiveKept DEF EInv
  <2>2. Waiting(e.from, e.chunk) /\ ~Offered(e.from, e.chunk)
    BY <1>1, <2>1 DEF InviteOkRight
  <2>3. ~Fetched(e.chunk)
    BY <1>2, <2>1, FetchedClosed
  <2>4. <<e.from, e.chunk>> # <<p, c>>
    BY <2>2, <2>3 DEF Closed
  <2> QED BY <1>2, <1>3, <2>4 DEF StillBut, NoOffered, NoPairs
<1> QED BY <1>1, <1>3, InviteOkKept DEF EInv

(* So does an encoded fragment. *)
LEMMA MoveEncode ==
  ASSUME EInv, Mono, NEW p \in Peers, NEW c \in Chunks, StillBut(p, c), Closed(p, c), NoOffered,
         NEW e \in Of("Encode")
  PROVE  EncodeRight(e)'
<1>1. EncodeRight(e)
  BY DEF EInv, EventsRight, AllEncodes
<1>2. e.to \in Peers /\ e.chunk \in Chunks /\ Asked("Put", e.to, e.chunk) /\ e.index \in Indices
      /\ e = EncodeEvent(e.to, e.chunk, e.index)
  BY <1>1, AskedFacts DEF EncodeRight, EInv
<1>3. ASSUME uploads'[<<e.to, e.chunk>>] # None
      PROVE  \E w \in uploads'[<<e.to, e.chunk>>].pending :
               w.index = e.index /\ Waiting(w.peer, e.chunk)' /\ ~Offered(w.peer, e.chunk)'
  <2>1. uploads[<<e.to, e.chunk>>] # None
        /\ uploads[<<e.to, e.chunk>>].pending \subseteq uploads'[<<e.to, e.chunk>>].pending
    BY <1>2, <1>3, LiveKept DEF EInv
  <2>2. PICK w \in uploads[<<e.to, e.chunk>>].pending :
          w.index = e.index /\ Waiting(w.peer, e.chunk) /\ ~Offered(w.peer, e.chunk)
    BY <1>1, <2>1 DEF EncodeRight
  <2>3. ~Fetched(e.chunk)
    BY <1>2, <2>1, FetchedClosed
  <2>4. <<w.peer, e.chunk>> # <<p, c>>
    BY <2>2, <2>3 DEF Closed
  <2>5. uploads[<<e.to, e.chunk>>] \in UploadStates
    BY <1>2, <2>1 DEF EInv, SlotTypes, Slots
  <2>6. w.peer \in Peers
    BY <2>5 DEF UploadStates
  <2>7. Waiting(w.peer, e.chunk)' /\ ~Offered(w.peer, e.chunk)'
    BY <1>2, <2>2, <2>4, <2>6, SameIn DEF StillBut, NoOffered
  <2> QED BY <2>1, <2>2, <2>7
<1>4. Asked("Put", e.to, e.chunk)'
  BY <1>2, AskedKept
<1> QED BY <1>2, <1>3, <1>4 DEF EncodeRight

(* An offer stays right when its peer gets the chunk, or does not wait, or *)
(* is not the one that moves.                                              *)
LEMMA MoveOffer ==
  ASSUME EInv, Mono, NEW p \in Peers, NEW c \in Chunks, StillBut(p, c), NEW e \in Of("RecvOffer"),
         \/ Asked("Get", p, c) \/ ~Waiting(p, c)
         \/ e.receipt = None \/ <<e.to, e.chunk>> # <<p, c>>
  PROVE  OfferRight(e)'
<1>1. OfferRight(e)
  BY DEF EInv, EventsRight, AllOffers
<1>2. ASSUME e.receipt # None, ~Asked("Get", e.to, e.chunk) PROVE Same(e.to, e.chunk)
  <2>1. Waiting(e.to, e.chunk) /\ e.to \in Peers /\ e.chunk \in Chunks
    BY <1>1, <1>2 DEF OfferRight
  <2> QED BY <1>2, <2>1 DEF StillBut
<1> QED BY <1>1, <1>2, OfferKept DEF EInv

(* A transfer stays right when its peer gets the chunk, or its fragment    *)
(* has arrived, or is not expected.                                        *)
LEMMA MoveTransfer ==
  ASSUME EInv, Mono, NEW p \in Peers, NEW c \in Chunks, StillBut(p, c), NoArrived, NEW t \in transfers,
         Asked("Get", p, c) \/ ~Taken(p, c) \/ Arrived(p, c)
  PROVE  TransferRight(t)'
<1>1. TransferRight(t)
  BY DEF EInv, WorkRight, AllTransfers
<1>2. ASSUME ~Asked("Get", t.to, t.chunk)
      PROVE  Same(t.to, t.chunk) /\ (Arrived(t.to, t.chunk)' => Arrived(t.to, t.chunk))
  <2>1. Taken(t.to, t.chunk) /\ ~Arrived(t.to, t.chunk) /\ t.to \in Peers /\ t.chunk \in Chunks
    BY <1>1, <1>2 DEF TransferRight
  <2>2. <<t.to, t.chunk>> # <<p, c>>
    BY <1>2, <2>1
  <2> QED BY <2>1, <2>2 DEF StillBut, NoArrived
<1> QED BY <1>1, <1>2, TransferKept

(* A fragment that arrived stays right when its peer gets the chunk, or    *)
(* another one moves.                                                      *)
LEMMA MoveDownload ==
  ASSUME EInv, Mono, NEW p \in Peers, NEW c \in Chunks, StillBut(p, c), NEW e \in Of("DownloadOk"),
         Asked("Get", p, c) \/ ~Taken(p, c) \/ <<e.to, e.chunk>> # <<p, c>>
  PROVE  DownloadRight(e)'
<1>1. DownloadRight(e)
  BY DEF EInv, EventsRight, AllDownloads
<1>2. ASSUME ~Asked("Get", e.to, e.chunk) PROVE Same(e.to, e.chunk)
  BY <1>1, <1>2 DEF StillBut, DownloadRight
<1> QED BY <1>1, <1>2, DownloadKept

(* A task that stores stays right when the peer that moves is not Storing, *)
(* or has stored.                                                          *)
LEMMA MoveStore ==
  ASSUME EInv, Mono, NEW p \in Peers, NEW c \in Chunks, StillBut(p, c), disk' = disk,
         NEW U, NewTypes(U), "StoreOk" \notin U, NEW t \in Tasks("Store"),
         ~In(p, c, "Storing") \/ StoreOkEvent(p, c) \in inbox
  PROVE  StoreRight(t)'
<1>1. StoreRight(t)
  BY DEF EInv, WorkRight, AllStores
<1>2. <<t.peer, t.chunk>> # <<p, c>>
  BY <1>1 DEF StoreRight
<1>3. Same(t.peer, t.chunk)
  BY <1>1, <1>2 DEF StillBut, StoreRight
<1>4. StoreOkEvent(t.peer, t.chunk) \notin inbox'
  <2>1. StoreOkEvent(t.peer, t.chunk).type = "StoreOk"
    BY DEF StoreOkEvent
  <2>2. StoreOkEvent(t.peer, t.chunk) \notin Of("StoreOk")
    BY <1>1 DEF StoreRight, Of
  <2> QED BY <2>1, <2>2 DEF NewTypes, Of
<1> QED BY <1>1, <1>3, <1>4, StoreKept

(* A StoreOk stays right when the peer that moves is not Storing, or it is *)
(* another's.                                                              *)
LEMMA MoveStoreOk ==
  ASSUME EInv, Mono, NEW p \in Peers, NEW c \in Chunks, StillBut(p, c), disk' = disk, NEW e \in Of("StoreOk"),
         ~In(p, c, "Storing") \/ <<e.to, e.chunk>> # <<p, c>>
  PROVE  StoreOkRight(e)'
<1>1. StoreOkRight(e)
  BY DEF EInv, EventsRight, AllStoreOks
<1>2. Same(e.to, e.chunk) /\ disk'[<<e.to, e.chunk>>] # None
  BY <1>1 DEF StillBut, StoreOkRight
<1> QED BY <1>1, <1>2, StoreOkKept

(* Pulls, loads and disks stay right when the peer that moves gets         *)
(* Available with its fragment on the disk.                                *)
LEMMA MovePulls ==
  ASSUME EInv, Mono, NEW p \in Peers, NEW c \in Chunks, StillBut(p, c), disk' = disk,
         NEW U, NewTypes(U), "Pull" \notin U, Fewer("Load"),
         In(p, c, "Available")' => In(p, c, "Available") \/ disk[<<p, c>>] # None
  PROVE  AllPulls' /\ AllLoads' /\ AllDisks'
<1>1. AllPulls'
  <2> SUFFICES ASSUME NEW e \in Of("Pull")' PROVE PullRight(e)'
    BY DEF AllPulls
  <2>1. PullRight(e)
    BY DEF AllPulls, NewTypes, EInv, EventsRight
  <2>2. e.to \in Peers /\ e.chunk \in Chunks
    BY <2>1, AskedFacts DEF PullRight, EInv
  <2>3. In(e.to, e.chunk, "Available")' =>
           disk'[<<e.to, e.chunk>>] # None \/
           (In(e.to, e.chunk, "Available") /\ disk'[<<e.to, e.chunk>>] = disk[<<e.to, e.chunk>>])
    <3>1. CASE <<e.to, e.chunk>> = <<p, c>>
      BY <3>1
    <3>2. CASE <<e.to, e.chunk>> # <<p, c>>
      BY <2>2, <3>2, SameIn DEF StillBut
    <3> QED BY <3>1, <3>2
  <2> QED BY <2>1, <2>3, PullKept DEF Fewer
<1>2. AllLoads'
  <2> SUFFICES ASSUME NEW t \in Tasks("Load")' PROVE LoadRight(t)'
    BY DEF AllLoads
  <2>1. LoadRight(t)
    BY DEF AllLoads, Fewer, EInv, WorkRight
  <2>2. disk'[<<t.peer, t.chunk>>] # None
    BY <2>1 DEF LoadRight
  <2> QED BY <2>1, <2>2, LoadKept DEF EInv
<1>3. AllDisks'
  BY DiskKept DEF AllDisks, SlotsRight, EInv
<1> QED BY <1>1, <1>2, <1>3

(* Encoders that are new and Invites stay right: the peer that moves was   *)
(* already invited.                                                        *)
LEMMA MoveInvites ==
  ASSUME EInv, Mono, NEW p \in Peers, NEW c \in Chunks, StillBut(p, c), Invited(p, c),
         NEW U, NewTypes(U), "NewEncoder" \notin U, "Invite" \notin U
  PROVE  AllNewEncoders' /\ AllInvites'
<1>1. \A q \in Peers, d \in Chunks : Invited(q, d)' => Invited(q, d)
  <2> SUFFICES ASSUME NEW q \in Peers, NEW d \in Chunks, Invited(q, d)' PROVE Invited(q, d)
    OBVIOUS
  <2>1. CASE <<q, d>> = <<p, c>>
    BY <2>1
  <2>2. CASE <<q, d>> # <<p, c>>
    BY <2>2 DEF StillBut, Same
  <2> QED BY <2>1, <2>2
<1>2. AllNewEncoders'
  <2> SUFFICES ASSUME NEW e \in Of("NewEncoder")' PROVE NewEncoderRight(e)'
    BY DEF AllNewEncoders
  <2>1. NewEncoderRight(e)
    BY DEF AllNewEncoders, NewTypes, EInv, EventsRight
  <2>2. e.chunk \in Chunks
    BY <2>1, AskedFacts DEF NewEncoderRight, EInv
  <2>3. \A i \in Of("Invite")' : i.chunk = e.chunk => i \in Of("Invite")
    BY DEF NewTypes
  <2> QED BY <1>1, <2>1, <2>2, <2>3, NewEncoderKept
<1>3. AllInvites'
  <2> SUFFICES ASSUME NEW e \in Of("Invite")' PROVE InviteRight(e)'
    BY DEF AllInvites
  <2>1. InviteRight(e)
    BY DEF AllInvites, NewTypes, EInv, EventsRight
  <2>2. e.chunk \in Chunks /\ e.to \in Peers
    BY <2>1, AskedFacts DEF InviteRight, EInv
  <2> QED BY <1>1, <2>1, <2>2, InviteKept DEF EInv
<1> QED BY <1>2, <1>3

(* The persist states stay right when the one that moves is. *)
LEMMA MovePersists ==
  ASSUME EInv, Mono, NEW p \in Peers, NEW c \in Chunks, StillBut(p, c), disk' = disk,
         \A q \in Peers, d \in Chunks : <<q, d>> # <<p, c>> => persists'[<<q, d>>] = persists[<<q, d>>],
         PersistRight(p, c)'
  PROVE  AllPersists'
<1> SUFFICES ASSUME NEW q \in Peers, NEW d \in Chunks PROVE PersistRight(q, d)'
  BY DEF AllPersists
<1>1. CASE <<q, d>> = <<p, c>>
  <2>1. q = p /\ d = c
    BY <1>1
  <2> QED BY <2>1
<1>2. CASE <<q, d>> # <<p, c>>
  <2>1. PersistRight(q, d) /\ Same(q, d)
    BY <1>2 DEF EInv, SlotsRight, AllPersists, StillBut
  <2>2. persists'[<<q, d>>].recover = persists[<<q, d>>].recover
    BY <1>2
  <2> QED BY <2>1, <2>2, PersistKept
<1> QED BY <1>1, <1>2

(* Events that no move of a peer can make wrong. *)
LEMMA RestKept ==
  ASSUME EInv, Mono, NEW U, NewTypes(U)
  PROVE  /\ "Decode" \notin U => AllDecodes'
         /\ "Recover" \notin U => AllRecovers'
         /\ "RecoverEncode" \notin U => AllRecoverEncodes'
         /\ "FragmentAvailable" \notin U => AllAvailables'
         /\ "LoadOk" \notin U => AllLoadOks'
<1> USE DEF EInv, EventsRight
<1>1. "Decode" \notin U => AllDecodes'
  BY DecodeKept DEF AllDecodes, NewTypes
<1>2. "Recover" \notin U => AllRecovers'
  BY RecoverKept DEF AllRecovers, NewTypes
<1>3. "RecoverEncode" \notin U => AllRecoverEncodes'
  BY RecoverEncodeKept DEF AllRecoverEncodes, NewTypes
<1>4. "FragmentAvailable" \notin U => AllAvailables'
  BY AvailableKept DEF AllAvailables, NewTypes
<1>5. "LoadOk" \notin U => AllLoadOks'
  BY LoadOkKept DEF AllLoadOks, NewTypes
<1> QED BY <1>1, <1>2, <1>3, <1>4, <1>5

-----------------------------------------------------------------------------
(* The recovery: what the worker is given and what it answers. *)

(* A recovery has only fragments of the chunk. *)
GenuineState(r) ==
  /\ r \in RecoverStates
  /\ r.decoder # None => Genuine(r.decoder)
  /\ Genuine(r.pending)

(* What the worker answers p about c, or nothing. *)
Replies(out, p, c, own) ==
  \A o \in out :
    /\ o.to = p /\ o.chunk = c
    /\ \/ o.type = "Decode" /\ o.got \in SUBSET Fragments /\ Genuine(o.got)
       \/ o.type = "Recover" /\ o.genuine
       \/ own # None /\ o.type = "RecoverEncode" /\ o.of = own

(* The worker's answer to genuine fragments is genuine. *)
LEMMA DecodedReplies ==
  ASSUME NEW p, NEW c, NEW got \in SUBSET Fragments, Genuine(got), NEW own, NEW o \in Decoded(p, c, got, own)
  PROVE  Replies({o}, p, c, own)
<1>1. PICK done \in BOOLEAN :
        o = IF ~done THEN [type |-> "Decode", to |-> p, chunk |-> c, got |-> got]
            ELSE IF own = None THEN [type |-> "Recover", to |-> p, chunk |-> c, genuine |-> Genuine(got)]
            ELSE [type |-> "RecoverEncode", to |-> p, chunk |-> c, of |-> IF Genuine(got) THEN own ELSE None]
  BY DEF Decoded, CanDecode
<1>2. CASE ~done
  BY <1>1, <1>2 DEF Replies
<1>3. CASE done /\ own = None
  BY <1>1, <1>3 DEF Replies
<1>4. CASE done /\ own # None
  BY <1>1, <1>4 DEF Replies
<1> QED BY <1>2, <1>3, <1>4

(* A genuine fragment more leaves the fragments genuine. *)
LEMMA GenuineMore ==
  ASSUME NEW S \in SUBSET Fragments, Genuine(S), NEW f \in Fragments, f.index = f.of
  PROVE  S \cup {f} \in SUBSET Fragments /\ Genuine(S \cup {f})
BY DEF Genuine

(* submit_decode keeps a recovery genuine and is answered so (lib.rs:494). *)
LEMMA SubmitRight ==
  ASSUME NEW r, GenuineState(r), NEW f \in Fragments, f.index = f.of,
         NEW p, NEW c, NEW own
  PROVE  /\ GenuineState(SubmitDecode(r, f))
         /\ \A out \in SubmitEvents(p, c, r, f, own) : Replies(out, p, c, own)
<1>1. CASE r.decoder # None
  <2>1. r \in RecoverStates /\ Genuine(r.decoder) /\ Genuine(r.pending)
    BY <1>1 DEF GenuineState
  <2>2. r.decoder \in SUBSET Fragments
    BY <1>1, <2>1 DEF RecoverStates
  <2>3. r.decoder \cup {f} \in SUBSET Fragments /\ Genuine(r.decoder \cup {f})
    BY <2>1, <2>2, GenuineMore
  <2>4. GenuineState(SubmitDecode(r, f))
    <3>1. SubmitDecode(r, f) = [r EXCEPT !.decoder = None]
      BY <1>1 DEF SubmitDecode
    <3>2. /\ SubmitDecode(r, f).decoder = None /\ SubmitDecode(r, f).pending = r.pending
          /\ SubmitDecode(r, f) \in RecoverStates
      BY <2>1, <3>1 DEF RecoverStates
    <3> QED BY <2>1, <3>2 DEF GenuineState
  <2>5. ASSUME NEW out \in SubmitEvents(p, c, r, f, own) PROVE Replies(out, p, c, own)
    <3>1. PICK o \in Decoded(p, c, r.decoder \cup {f}, own) : out = {o}
      BY <1>1 DEF SubmitEvents
    <3>2. Replies({o}, p, c, own)
      BY <2>3, DecodedReplies
    <3> QED BY <3>1, <3>2
  <2> QED BY <2>4, <2>5
<1>2. CASE r.decoder = None
  <2>1. GenuineState(SubmitDecode(r, f))
    <3>1. SubmitDecode(r, f) = [r EXCEPT !.pending = {g \in r.pending : g.index # f.index} \cup {f}]
      BY <1>2 DEF SubmitDecode, GenuineState, RecoverStates
    <3>2. r.pending \in SUBSET Fragments /\ Genuine(r.pending)
      BY DEF GenuineState, RecoverStates
    <3>3. {g \in r.pending : g.index # f.index} \in SUBSET Fragments
          /\ Genuine({g \in r.pending : g.index # f.index})
      BY <3>2 DEF Genuine
    <3>4. {g \in r.pending : g.index # f.index} \cup {f} \in SUBSET Fragments
          /\ Genuine({g \in r.pending : g.index # f.index} \cup {f})
      BY <3>3, GenuineMore
    <3> DEFINE new == {g \in r.pending : g.index # f.index} \cup {f}
    <3> HIDE DEF new
    <3>5. SubmitDecode(r, f) = [r EXCEPT !.pending = new] /\ new \in SUBSET Fragments /\ Genuine(new)
      BY <3>1, <3>4 DEF new
    <3>6. SubmitDecode(r, f).decoder = None /\ SubmitDecode(r, f).pending = new
          /\ SubmitDecode(r, f) \in RecoverStates
      BY <1>2, <3>5 DEF GenuineState, RecoverStates
    <3> QED BY <3>5, <3>6 DEF GenuineState
  <2>2. SubmitEvents(p, c, r, f, own) = {{}}
    BY <1>2 DEF SubmitEvents
  <2> QED BY <2>1, <2>2 DEF Replies
<1> QED BY <1>1, <1>2

(* on_decode keeps a recovery genuine (lib.rs:664). *)
LEMMA OnDecodeRight ==
  ASSUME NEW r, GenuineState(r), NEW got \in SUBSET Fragments, Genuine(got), NEW f
  PROVE  GenuineState(OnDecode(r, got, f))
<1>1. CASE r.pending = {}
  <2>1. OnDecode(r, got, f) = [r EXCEPT !.decoder = got]
    BY <1>1 DEF OnDecode
  <2> QED BY <2>1 DEF GenuineState, RecoverStates
<1>2. CASE r.pending # {}
  <2> DEFINE new == r.pending \ {f}
  <2>1. new \in SUBSET Fragments /\ Genuine(new)
    BY DEF GenuineState, RecoverStates, Genuine
  <2>2. OnDecode(r, got, f) = [r EXCEPT !.pending = new]
    BY <1>2 DEF OnDecode, GenuineState, RecoverStates
  <2> HIDE DEF new
  <2>3. OnDecode(r, got, f).decoder = r.decoder /\ OnDecode(r, got, f).pending = new
        /\ OnDecode(r, got, f) \in RecoverStates
    BY <2>1, <2>2 DEF GenuineState, RecoverStates
  <2> QED BY <2>1, <2>3 DEF GenuineState
<1> QED BY <1>1, <1>2

(* The worker's answers to a peer that gets the chunk are right events. *)
LEMMA RepliesRight ==
  ASSUME EInv, Mono, NEW p, NEW c, Asked("Get", p, c), NEW e, NEW out, Handle(e, out), NEW own,
         Replies(out, p, c, own), own # None => Invited(p, c) /\ own = Index(p, c)
  PROVE  AllDecodes' /\ AllRecovers' /\ AllRecoverEncodes'
<1>1. p \in Peers /\ c \in Chunks /\ Asked("Get", p, c)'
  BY AskedFacts, AskedKept DEF EInv
<1>2. \A type : Of(type)' \subseteq Of(type) \cup out
  BY DEF Handle, Of
<1>3. AllDecodes'
  <2> SUFFICES ASSUME NEW d \in Of("Decode")' PROVE DecodeRight(d)'
    BY DEF AllDecodes
  <2>1. d \in Of("Decode") => DecodeRight(d)
    BY DEF EInv, EventsRight, AllDecodes
  <2>2. d \in out => DecodeRight(d)
    BY DEF Replies, DecodeRight, Of
  <2> QED BY <1>2, <2>1, <2>2, DecodeKept
<1>4. AllRecovers'
  <2> SUFFICES ASSUME NEW d \in Of("Recover")' PROVE RecoverRight(d)'
    BY DEF AllRecovers
  <2>1. d \in Of("Recover") => RecoverRight(d)
    BY DEF EInv, EventsRight, AllRecovers
  <2>2. d \in out => RecoverRight(d)
    BY DEF Replies, RecoverRight, Of
  <2> QED BY <1>2, <2>1, <2>2, RecoverKept
<1>5. AllRecoverEncodes'
  <2> SUFFICES ASSUME NEW d \in Of("RecoverEncode")' PROVE RecoverEncodeRight(d)'
    BY DEF AllRecoverEncodes
  <2>1. d \in Of("RecoverEncode") => RecoverEncodeRight(d)
    BY DEF EInv, EventsRight, AllRecoverEncodes
  <2>2. d \in out => RecoverEncodeRight(d)
    BY DEF Replies, RecoverEncodeRight, Of
  <2> QED BY <1>2, <2>1, <2>2, RecoverEncodeKept DEF EInv
<1> QED BY <1>3, <1>4, <1>5

(* The worker's answers are events of three types. *)
LEMMA RepliesFlow ==
  ASSUME NEW p, NEW c, NEW e, NEW out, Handle(e, out), NEW own, Replies(out, p, c, own)
  PROVE  NewTypes({"Decode", "Recover", "RecoverEncode"})
BY DEF Replies, Handle, NewTypes, Of

(* The recoveries of a get and of an invited peer are genuine. *)
LEMMA RecoverStatesRight ==
  ASSUME EInv, NEW p \in Peers, NEW c \in Chunks
  PROVE  /\ downloads[<<p, c>>] # None => GenuineState(downloads[<<p, c>>])
         /\ Invited(p, c) => GenuineState(persists[<<p, c>>].recover) /\ persists[<<p, c>>] \in PersistStates
<1>1. DownloadsRight(p, c) /\ PersistRight(p, c)
  BY DEF EInv, SlotsRight, AllFetches, AllPersists
<1>2. /\ downloads[<<p, c>>] # None => downloads[<<p, c>>] \in RecoverStates
      /\ Invited(p, c) => persists[<<p, c>>] \in PersistStates
  BY DEF EInv, SlotTypes, Slots, Invited
<1>3. Invited(p, c) => persists[<<p, c>>].recover \in RecoverStates
  BY <1>2 DEF PersistStates
<1> QED BY <1>1, <1>2, <1>3 DEF DownloadsRight, PersistRight, GenuineState

(* What is recovered at one slot changes. *)
LEMMA FetchesChanged ==
  ASSUME EInv, Mono, NEW p \in Peers, NEW c \in Chunks, AnsweredSame("Get"), NEW r, GenuineState(r),
         downloads[<<p, c>>] # None, downloads' = [downloads EXCEPT ![<<p, c>>] = r]
  PROVE  AllFetches' /\ downloads' \in [Slots -> RecoverStates \cup {None}]
<1>1. downloads \in [Slots -> RecoverStates \cup {None}] /\ <<p, c>> \in Slots /\ r \in RecoverStates
  BY DEF EInv, SlotTypes, Slots, GenuineState
<1>2. AllFetches'
  <2> SUFFICES ASSUME NEW q \in Peers, NEW d \in Chunks PROVE DownloadsRight(q, d)'
    BY DEF AllFetches
  <2>1. DownloadsRight(q, d) /\ DownloadsRight(p, c) /\ <<q, d>> \in Slots
    BY DEF EInv, SlotsRight, AllFetches, Slots
  <2>2. CASE <<q, d>> # <<p, c>>
    <3>1. downloads'[<<q, d>>] = downloads[<<q, d>>]
      BY <1>1, <2>1, <2>2
    <3> QED BY <2>1, <3>1, DownloadsKept DEF AnsweredSame
  <2>3. CASE <<q, d>> = <<p, c>>
    <3>1. downloads'[<<q, d>>] = r /\ q = p /\ d = c
      BY <1>1, <2>3
    <3>2. Asked("Get", p, c)' /\ ~Answered("Get", p, c)'
      BY <2>1, AskedKept DEF DownloadsRight, AnsweredSame
    <3>3. r.decoder # None => Genuine(r.decoder)
      BY DEF GenuineState
    <3>4. Genuine(r.pending)
      BY DEF GenuineState
    <3> QED BY <3>1, <3>2, <3>3, <3>4 DEF DownloadsRight, Genuine
  <2> QED BY <2>2, <2>3
<1>3. downloads' \in [Slots -> RecoverStates \cup {None}]
  BY <1>1
<1> QED BY <1>2, <1>3

(* The persist states stay right when a recovery is replaced by a genuine  *)
(* one.                                                                    *)
LEMMA PersistsChanged ==
  ASSUME EInv, Mono, NEW p \in Peers, NEW c \in Chunks, disk' = disk, Invited(p, c), Same(p, c),
         NEW w \in PersistStates, GenuineState(w.recover), persists' = [persists EXCEPT ![<<p, c>>] = w]
  PROVE  AllPersists' /\ persists' \in [Slots -> PersistStates \cup {None}]
<1>1. persists \in [Slots -> PersistStates \cup {None}] /\ <<p, c>> \in Slots
  BY DEF EInv, SlotTypes, Slots
<1>2. persists'[<<p, c>>] = w
  BY <1>1
<1>3. \A q \in Peers, d \in Chunks : <<q, d>> # <<p, c>> => persists'[<<q, d>>] = persists[<<q, d>>]
  BY <1>1 DEF Slots
<1>4. StillBut(p, c)
  BY <1>3 DEF StillBut, Same, Invited, Index
<1>5. PersistRight(p, c)
  BY DEF EInv, SlotsRight, AllPersists
<1>6. /\ persists'[<<p, c>>].recover.decoder # None => Genuine(persists'[<<p, c>>].recover.decoder)
      /\ Genuine(persists'[<<p, c>>].recover.pending)
  BY <1>2 DEF GenuineState
<1>7. PersistRight(p, c)'
  BY <1>5, <1>6, PersistChanged
<1> QED BY <1>1, <1>3, <1>4, <1>7, MovePersists

(* If the slot that moves stays the same too, nobody moves. *)
LEMMA StillWhenElsewhere ==
  ASSUME NEW p, NEW c, StillBut(p, c), Same(p, c)
  PROVE  Still
<1> SUFFICES ASSUME NEW q \in Peers, NEW d \in Chunks PROVE Same(q, d)
  BY DEF Still
<1>1. CASE <<q, d>> = <<p, c>>
  <2>1. q = p /\ d = c
    BY <1>1
  <2> QED BY <2>1
<1>2. CASE <<q, d>> # <<p, c>>
  BY <1>2 DEF StillBut
<1> QED BY <1>1, <1>2

(* If nobody moves, all go forward. *)
LEMMA StillForward == ASSUME Still PROVE \A q \in Peers, c \in Chunks : Forward(q, c)
BY DEF Still, Same, Forward

(* Decode keeps EInv, and finds a status other than Recovering (the        *)
(* unreachable! of lib.rs:656) only by the overlap.                        *)
LEMMA DecodeStep ==
  ASSUME EInv, Awaited, NEW e \in Events("Decode"), Decode(e)
  PROVE  EInv'
<1> DEFINE p == e.to
           c == e.chunk
           U == {"Decode", "Recover", "RecoverEncode"}
           state == persists[<<p, c>>]
           fetching == downloads[<<p, c>>] # None
           recovering == ~fetching /\ state # None /\ state.status = "Recovering"
           recover == IF fetching THEN downloads[<<p, c>>] ELSE state.recover
           own == IF fetching THEN None ELSE state.index
<1>1. DecodeRight(e)
  BY DEF Events, Of, EInv, EventsRight, AllDecodes
<1>2. p \in Peers /\ c \in Chunks /\ Asked("Get", p, c) /\ e.got \in SUBSET Fragments /\ Genuine(e.got)
  BY <1>1, AskedFacts DEF DecodeRight, EInv
<1>3. /\ uploads' = uploads /\ disk' = disk /\ pulls' = pulls
      /\ transfers' = transfers /\ fsTasks' = fsTasks /\ answered' = answered
      /\ failed' = failed /\ asked' = asked
      /\ panicked' = panicked \/ (panicked' = panicked \cup {p} /\ state # None)
  <2>1. e \in Of("Decode")
    BY DEF Events, Of
  <2>2. fetching => recover.decoder = None
    BY <2>1 DEF Awaited
  <2> QED BY <2>2 DEF Decode, history, storage, Panic
<1>a. PICK f \in IF (fetching \/ recovering) /\ recover.pending # {} THEN recover.pending ELSE {None} :
            /\ \E out \in IF f = None THEN {{}} ELSE {{d} : d \in Decoded(p, c, e.got \cup {f}, own)} :
                  Handle(e, out)
            /\ downloads' = IF fetching THEN [downloads EXCEPT ![<<p, c>>] = OnDecode(@, e.got, f)]
                            ELSE downloads
            /\ persists' = IF recovering THEN [persists EXCEPT ![<<p, c>>].recover = OnDecode(@, e.got, f)]
                           ELSE persists
  BY DEF Decode
<1>4. PICK out :
        /\ (fetching \/ recovering) /\ recover.pending # {} => f \in recover.pending
        /\ ~((fetching \/ recovering) /\ recover.pending # {}) => f = None
        /\ f = None => out = {}
        /\ f # None => \E d \in Decoded(p, c, e.got \cup {f}, own) : out = {d}
        /\ Handle(e, out)
        /\ downloads' = IF fetching THEN [downloads EXCEPT ![<<p, c>>] = OnDecode(@, e.got, f)] ELSE downloads
        /\ persists' = IF recovering THEN [persists EXCEPT ![<<p, c>>].recover = OnDecode(@, e.got, f)]
                       ELSE persists
  <2> HIDE DEF recovering, recover, own
  <2>1. PICK out \in IF f = None THEN {{}} ELSE {{d} : d \in Decoded(p, c, e.got \cup {f}, own)} : Handle(e, out)
    BY <1>a
  <2> QED BY <1>a, <2>1
<1>5. /\ recovering => Invited(p, c)
      /\ recovering => state \in PersistStates
      /\ fetching \/ recovering => GenuineState(recover)
  <2>1. recovering => Invited(p, c)
    BY DEF Invited
  <2> QED BY <1>2, <2>1, RecoverStatesRight
<1>6. fetching \/ recovering => GenuineState(OnDecode(recover, e.got, f))
  BY <1>2, <1>5, OnDecodeRight
<1>7. Replies(out, p, c, own)
  <2>1. CASE f = None
    BY <1>4, <2>1 DEF Replies
  <2>2. CASE f # None
    <3>1. f \in recover.pending /\ GenuineState(recover)
      BY <1>4, <1>5, <2>2
    <3>2. recover \in RecoverStates /\ Genuine(recover.pending)
      BY <3>1 DEF GenuineState
    <3>3. recover.pending \subseteq Fragments
      BY <3>2 DEF RecoverStates
    <3>4. f \in Fragments /\ f.index = f.of
      BY <3>1, <3>2, <3>3 DEF Genuine
    <3>5. e.got \cup {f} \in SUBSET Fragments /\ Genuine(e.got \cup {f})
      BY <1>2, <3>4, GenuineMore
    <3>6. PICK d \in Decoded(p, c, e.got \cup {f}, own) : out = {d}
      BY <1>4, <2>2
    <3>7. Replies({d}, p, c, own)
      BY <3>5, DecodedReplies
    <3> QED BY <3>6, <3>7
  <2> QED BY <2>1, <2>2
<1>8. Still /\ persists' \in [Slots -> PersistStates \cup {None}]
      /\ (Mono => AllPersists')
  <2>1. CASE ~recovering
    <3>1. persists' = persists
      BY <1>4, <2>1
    <3> QED BY <1>3, <3>1, StillWhenSame, QuietSlots DEF EInv, SlotTypes
  <2>2. CASE recovering
    <3> DEFINE r == OnDecode(recover, e.got, f)
               w == [state EXCEPT !.recover = r]
    <3>1. GenuineState(r) /\ recover = state.recover
      BY <1>6, <2>2
    <3>2. persists' = [persists EXCEPT ![<<p, c>>].recover = r]
      BY <1>4, <2>2
    <3>3. Invited(p, c) /\ state \in PersistStates
      BY <1>5, <2>2
    <3>4. persists \in [Slots -> PersistStates \cup {None}] /\ <<p, c>> \in Slots
      BY <1>2 DEF EInv, SlotTypes, Slots
    <3> HIDE DEF r, recovering, recover
    <3>5. r \in RecoverStates
      BY <3>1 DEF GenuineState
    <3>6. w \in PersistStates /\ w.recover = r
          /\ w.index = state.index /\ w.status = state.status /\ w.notify = state.notify
      BY <3>3, <3>5 DEF PersistStates
    <3>7. persists' = [persists EXCEPT ![<<p, c>>] = w]
      BY <3>2, <3>4
    <3> HIDE DEF w
    <3>8. persists'[<<p, c>>] = w
      BY <3>4, <3>7
    <3>9. Same(p, c)
      BY <3>3, <3>6, <3>8, EntropyNoneAssumption DEF Same, Invited, Index
    <3>10. StillBut(p, c)
      BY <3>4, <3>7 DEF StillBut, Same, Invited, Index, Slots
    <3>11. Still
      BY <3>9, <3>10, StillWhenElsewhere
    <3>12. GenuineState(w.recover)
      BY <3>1, <3>6
    <3>13. ASSUME Mono PROVE AllPersists'
      BY <1>2, <1>3, <3>3, <3>6, <3>7, <3>9, <3>12, <3>13, PersistsChanged
    <3>14. persists' \in [Slots -> PersistStates \cup {None}]
      BY <3>4, <3>6, <3>7
    <3> QED BY <3>11, <3>13, <3>14
  <2> QED BY <2>1, <2>2
<1> HIDE DEF recovering, recover, own
<1>9. Mono
  BY <1>3, <1>8, StillForward, UploadsStay DEF Mono
<1>10. AllPersists'
  BY <1>8, <1>9
<1>11. own # None /\ out # {} => Invited(p, c) /\ own = Index(p, c)
  BY <1>4, <1>5 DEF own, recovering, Index
<1>12. AllDecodes' /\ AllRecovers' /\ AllRecoverEncodes'
  <2>1. CASE own # None /\ out # {}
    BY <1>2, <1>4, <1>7, <1>9, <1>11, <2>1, RepliesRight
  <2>2. CASE own = None
    BY <1>2, <1>4, <1>7, <1>9, <2>2, RepliesRight
  <2>3. CASE out = {}
    <3>1. Replies(out, p, c, None)
      BY <2>3 DEF Replies
    <3> QED BY <1>2, <1>4, <1>9, <3>1, RepliesRight
  <2> QED BY <2>1, <2>2, <2>3
<1>13. NewTypes(U)
  BY <1>4, <1>7, RepliesFlow
<1>14. NoPairs /\ AnsweredSame("Get")
  BY <1>3, UploadsStay, AnsweredStays
<1>15. AllFetches' /\ downloads' \in [Slots -> RecoverStates \cup {None}]
  <2>1. CASE ~fetching
    <3>1. downloads' = downloads
      BY <1>4, <2>1
    <3> QED BY <1>9, <1>14, <3>1, QuietSlots DEF EInv, SlotTypes
  <2>2. CASE fetching
    <3> DEFINE r == OnDecode(downloads[<<p, c>>], e.got, f)
    <3>1. downloads' = [downloads EXCEPT ![<<p, c>>] = r]
      BY <1>4, <2>2
    <3>2. GenuineState(r)
      BY <1>6, <2>2 DEF recover
    <3> HIDE DEF r
    <3> QED BY <1>2, <1>9, <1>14, <2>2, <3>1, <3>2, FetchesChanged
  <2> QED BY <2>1, <2>2
<1>16. AskedRight'
  BY <1>3, AskedStays DEF EInv
<1>17. SlotTypes'
  BY <1>2, <1>3, <1>8, <1>15 DEF EInv, SlotTypes
<1>18. AllNewEncoders' /\ AllInvites' /\ AllInviteOks' /\ AllEncodes' /\ AllOffers'
  BY <1>8, <1>9, <1>13, <1>14, QuietPut, NoNewOffers
<1>19. AllDownloads' /\ AllAvailables' /\ AllLoadOks' /\ AllTransfers'
  BY <1>3, <1>8, <1>9, <1>13, QuietGet, NoNewDownloads
<1>20. AllStoreOks' /\ AllStores' /\ AllPulls' /\ AllLoads' /\ AllDisks'
  BY <1>3, <1>8, <1>9, <1>13, QuietDisk, TasksStay
<1>21. AllPullers' /\ AllUploads' /\ AllAnswered'
  BY <1>3, <1>9, QuietSlots, AnsweredStays
<1>22. FailsOnlyByOverlap'
  <2>1. state # None => Overlap(p)
    BY <1>2 DEF Overlap
  <2>2. \A q \in (panicked' \cup failed') \ (panicked \cup failed) : Overlap(q)'
    BY <1>2, <1>3, <1>9, <2>1, OverlapKept
  <2> QED BY <1>9, <2>2, FailsKept DEF EInv, SlotTypes
<1> QED BY <1>10, <1>12, <1>15, <1>16, <1>17, <1>18, <1>19, <1>20, <1>21, <1>22
        DEF EInv, EventsRight, WorkRight, SlotsRight

(* A store keeps EInv: the directory is not there, as the fragment is      *)
(* stored once.                                                            *)
LEMMA FsStoreStep ==
  ASSUME EInv, NEW t \in fsTasks, FsStore(t)
  PROVE  EInv'
<1> DEFINE p == t.peer
           c == t.chunk
           U == {"StoreOk"}
           e == StoreOkEvent(p, c)
<1>1. t \in Tasks("Store") /\ StoreRight(t)
  BY DEF FsStore, Tasks, EInv, WorkRight, AllStores
<1>2. /\ p \in Peers /\ c \in Chunks /\ In(p, c, "Storing") /\ Invited(p, c)
      /\ t = StoreTask(p, c, Index(p, c)) /\ disk[<<p, c>>] = None /\ e \notin inbox
      /\ t.fragment = [index |-> Index(p, c), of |-> Index(p, c)]
  BY <1>1 DEF StoreRight, In, StoreTask
<1>3. /\ uploads' = uploads /\ downloads' = downloads /\ persists' = persists /\ pulls' = pulls
      /\ transfers' = transfers /\ answered' = answered /\ asked' = asked
      /\ panicked' = panicked /\ failed' = failed
      /\ fsTasks' = fsTasks \ {t} /\ inbox' = inbox \cup {e}
      /\ disk' = [disk EXCEPT ![<<p, c>>] = t.fragment]
  BY <1>2 DEF FsStore, history, StoreOkEvent
<1>4. t.fragment \in Fragments /\ t.fragment # None
  <2>1. persists[<<p, c>>] \in PersistStates
    BY <1>2 DEF EInv, SlotTypes, Slots, Invited
  <2>2. Index(p, c) \in Indices
    BY <2>1 DEF PersistStates, Index
  <2> QED BY <1>2, <2>2, EntropyNoneAssumption DEF Fragments
<1>5. disk \in [Slots -> Fragments \cup {None}] /\ <<p, c>> \in Slots
  BY <1>2 DEF EInv, SlotTypes, Slots
<1>6. /\ disk'[<<p, c>>] = t.fragment
      /\ \A q, d : <<q, d>> \in Slots /\ <<q, d>> # <<p, c>> => disk'[<<q, d>>] = disk[<<q, d>>]
      /\ disk' \in [Slots -> Fragments \cup {None}]
  BY <1>3, <1>4, <1>5
<1>7. \A q \in Peers, d \in Chunks : disk[<<q, d>>] # None => disk'[<<q, d>>] = disk[<<q, d>>]
  BY <1>2, <1>6 DEF Slots
<1>8. Mono
  BY <1>3, StillWhenSame, UploadsStay DEF Mono
<1>9. Still /\ NoPairs
  BY <1>3, StillWhenSame, UploadsStay
<1>10. /\ NewTypes(U) /\ Of("StoreOk")' \subseteq Of("StoreOk") \cup {e} /\ "StoreOk" \in U
  BY <1>3 DEF NewTypes, Of, StoreOkEvent
<1>11. Fewer("Store") /\ Fewer("Load") /\ t \notin Tasks("Store")'
  BY <1>3 DEF Fewer, Tasks
<1>12. AllStoreOks'
  <2> SUFFICES ASSUME NEW f \in Of("StoreOk")' PROVE StoreOkRight(f)'
    BY DEF AllStoreOks
  <2>1. CASE f \in Of("StoreOk")
    <3>1. StoreOkRight(f)
      BY <2>1 DEF EInv, EventsRight, AllStoreOks
    <3>2. Same(f.to, f.chunk) /\ disk'[<<f.to, f.chunk>>] # None
      BY <1>7, <1>9, <3>1 DEF Still, StoreOkRight
    <3> QED BY <3>1, <3>2, StoreOkKept
  <2>2. CASE f = e
    <3>1. f.to = p /\ f.chunk = c /\ f = StoreOkEvent(f.to, f.chunk)
      BY <2>2 DEF StoreOkEvent
    <3>2. In(p, c, "Storing")'
      BY <1>2, <1>9, SameIn DEF Still
    <3> QED BY <1>2, <1>4, <1>6, <3>1, <3>2 DEF StoreOkRight, StoreOkEvent
  <2> QED BY <1>10, <2>1, <2>2
<1>13. AllStores'
  <2> SUFFICES ASSUME NEW s \in Tasks("Store")' PROVE StoreRight(s)'
    BY DEF AllStores
  <2>1. StoreRight(s) /\ s # t
    BY <1>11 DEF EInv, WorkRight, AllStores, Fewer
  <2>2. <<s.peer, s.chunk>> # <<p, c>>
    BY <1>2, <2>1 DEF StoreRight
  <2>3. s.peer \in Peers /\ s.chunk \in Chunks /\ StoreOkEvent(s.peer, s.chunk) \notin inbox
    BY <2>1 DEF StoreRight
  <2>4. StoreOkEvent(s.peer, s.chunk) \notin inbox'
    BY <1>3, <2>2, <2>3 DEF StoreOkEvent
  <2>5. disk'[<<s.peer, s.chunk>>] = disk[<<s.peer, s.chunk>>] /\ Same(s.peer, s.chunk)
    BY <1>6, <1>9, <2>2, <2>3 DEF Still, Slots
  <2> QED BY <2>1, <2>4, <2>5, StoreKept
<1>14. AllPulls'
  <2> SUFFICES ASSUME NEW f \in Of("Pull")' PROVE PullRight(f)'
    BY DEF AllPulls
  <2>1. PullRight(f)
    BY <1>10 DEF EInv, EventsRight, AllPulls, NewTypes
  <2>2. f.to \in Peers /\ f.chunk \in Chunks
    BY <2>1, AskedFacts DEF PullRight, EInv
  <2>3. In(f.to, f.chunk, "Available")' => disk'[<<f.to, f.chunk>>] # None
    <3>1. In(f.to, f.chunk, "Available")' = In(f.to, f.chunk, "Available")
      BY <1>9, <2>2, SameIn DEF Still
    <3> QED BY <1>7, <2>1, <2>2, <3>1 DEF PullRight
  <2> QED BY <1>8, <1>11, <2>1, <2>3, PullKept DEF Fewer
<1>15. AllLoads'
  <2> SUFFICES ASSUME NEW s \in Tasks("Load")' PROVE LoadRight(s)'
    BY DEF AllLoads
  <2>1. LoadRight(s)
    BY <1>11 DEF EInv, WorkRight, AllLoads, Fewer
  <2>2. s.chunk \in Chunks
    BY <2>1, AskedFacts DEF EInv, LoadRight
  <2>3. disk'[<<s.peer, s.chunk>>] # None
    BY <1>7, <2>1, <2>2 DEF LoadRight
  <2> QED BY <1>8, <2>1, <2>3, LoadKept DEF EInv
<1>16. AllPersists'
  <2> SUFFICES ASSUME NEW q \in Peers, NEW d \in Chunks PROVE PersistRight(q, d)'
    BY DEF AllPersists
  <2>1. PersistRight(q, d) /\ Same(q, d)
    BY <1>9 DEF EInv, SlotsRight, AllPersists, Still
  <2>2. disk'[<<q, d>>] = disk[<<q, d>>] \/ (disk'[<<q, d>>] # None /\ ~In(q, d, "Recovering"))
    <3>1. CASE <<q, d>> = <<p, c>>
      <4>1. q = p /\ d = c
        BY <3>1
      <4> QED BY <1>2, <1>4, <1>6, <4>1 DEF In
    <3>2. CASE <<q, d>> # <<p, c>>
      BY <1>6, <3>2 DEF Slots
    <3> QED BY <3>1, <3>2
  <2> QED BY <1>3, <1>8, <2>1, <2>2, PersistKept
<1>17. AllDisks'
  <2> SUFFICES ASSUME NEW q \in Peers, NEW d \in Chunks PROVE DiskRight(q, d)'
    BY DEF AllDisks
  <2>1. CASE <<q, d>> = <<p, c>>
    <3>1. q = p /\ d = c
      BY <2>1
    <3>2. Invited(p, c)' /\ Index(p, c)' = Index(p, c)
      BY <1>2, <1>8, InvitedKept
    <3>3. DiskRight(p, c)'
      BY <1>2, <1>6, <3>2 DEF DiskRight
    <3> QED BY <3>1, <3>3
  <2>2. CASE <<q, d>> # <<p, c>>
    <3>1. disk'[<<q, d>>] = disk[<<q, d>>] /\ DiskRight(q, d)
      BY <1>6, <2>2 DEF Slots, EInv, SlotsRight, AllDisks
    <3> QED BY <1>8, <3>1, DiskKept
  <2> QED BY <2>1, <2>2
<1>18. AskedRight'
  BY <1>3, AskedStays DEF EInv
<1>19. SlotTypes'
  BY <1>3, <1>6 DEF EInv, SlotTypes
<1> HIDE DEF U
<1>20. AllNewEncoders' /\ AllInvites' /\ AllInviteOks' /\ AllEncodes' /\ AllOffers'
  BY <1>8, <1>9, <1>10, QuietPut, NoNewOffers DEF U
<1>21. /\ AllDownloads' /\ AllDecodes' /\ AllRecovers' /\ AllRecoverEncodes' /\ AllAvailables' /\ AllLoadOks'
       /\ AllTransfers'
  BY <1>3, <1>8, <1>9, <1>10, QuietGet, NoNewDownloads DEF U
<1>22. AllFetches' /\ AllPullers' /\ AllUploads' /\ AllAnswered'
  BY <1>3, <1>8, QuietSlots, AnsweredStays
<1>23. FailsOnlyByOverlap'
  BY <1>3, <1>8, FailsStay
<1> QED BY <1>12, <1>13, <1>14, <1>15, <1>16, <1>17, <1>18, <1>19, <1>20, <1>21, <1>22, <1>23
        DEF EInv, EventsRight, WorkRight, SlotsRight

(* A load keeps EInv: the file is there, as the fragment is loaded once,   *)
(* for the chunk's only get.                                               *)
LEMMA FsLoadStep ==
  ASSUME EInv, NEW t \in fsTasks, FsLoad(t)
  PROVE  EInv'
<1> DEFINE p == t.peer
           c == t.chunk
           U == {"LoadOk"}
           e == [type |-> "LoadOk", to |-> p, chunk |-> c, fragment |-> disk[<<p, c>>]]
<1>1. t \in Tasks("Load") /\ LoadRight(t)
  BY DEF FsLoad, Tasks, EInv, WorkRight, AllLoads
<1>2. /\ p \in Peers /\ c \in Chunks /\ In(p, c, "Available") /\ disk[<<p, c>>] # None
      /\ t = LoadTask(p, c, Index(p, c), t.by) /\ Asked("Get", t.by, c) /\ t.index = Index(p, c)
  BY <1>1, AskedFacts DEF LoadRight, LoadTask, EInv
<1>3. disk[<<p, c>>] = [index |-> Index(p, c), of |-> Index(p, c)]
  BY <1>2 DEF EInv, SlotsRight, AllDisks, DiskRight
<1>4. /\ uploads' = uploads /\ downloads' = downloads /\ persists' = persists /\ pulls' = pulls
      /\ transfers' = transfers /\ answered' = answered /\ asked' = asked
      /\ panicked' = panicked /\ failed' = failed
      /\ fsTasks' = fsTasks \ {t} /\ inbox' = inbox \cup {e}
      /\ disk' = [disk EXCEPT ![<<p, c>>] = None]
  BY <1>2, <1>3 DEF FsLoad, history
<1>5. disk \in [Slots -> Fragments \cup {None}] /\ <<p, c>> \in Slots
  BY <1>2 DEF EInv, SlotTypes, Slots
<1>6. /\ disk'[<<p, c>>] = None
      /\ \A q, d : <<q, d>> \in Slots /\ <<q, d>> # <<p, c>> => disk'[<<q, d>>] = disk[<<q, d>>]
      /\ disk' \in [Slots -> Fragments \cup {None}]
  BY <1>4, <1>5
<1>7. Mono
  BY <1>4, StillWhenSame, UploadsStay DEF Mono
<1>8. Still /\ NoPairs
  BY <1>4, StillWhenSame, UploadsStay
<1>9. NewTypes(U) /\ Of("LoadOk")' \subseteq Of("LoadOk") \cup {e} /\ "LoadOk" \in U
  BY <1>4 DEF NewTypes, Of
<1>10. Fewer("Store") /\ Fewer("Load") /\ t \notin Tasks("Load")'
  BY <1>4 DEF Fewer, Tasks
<1>11. ~In(p, c, "Storing")
  BY <1>2 DEF In
<1>12. AllStoreOks'
  <2> SUFFICES ASSUME NEW f \in Of("StoreOk")' PROVE StoreOkRight(f)'
    BY DEF AllStoreOks
  <2>1. StoreOkRight(f)
    BY <1>9 DEF EInv, EventsRight, AllStoreOks, NewTypes
  <2>2. f.to \in Peers /\ f.chunk \in Chunks /\ <<f.to, f.chunk>> # <<p, c>>
    BY <1>11, <2>1 DEF StoreOkRight
  <2>3. Same(f.to, f.chunk) /\ disk'[<<f.to, f.chunk>>] # None
    BY <1>6, <1>8, <2>1, <2>2 DEF Still, StoreOkRight, Slots
  <2> QED BY <2>1, <2>3, StoreOkKept
<1>13. AllStores'
  <2> SUFFICES ASSUME NEW s \in Tasks("Store")' PROVE StoreRight(s)'
    BY DEF AllStores
  <2>1. StoreRight(s)
    BY <1>10 DEF EInv, WorkRight, AllStores, Fewer
  <2>2. /\ s.peer \in Peers /\ s.chunk \in Chunks /\ StoreOkEvent(s.peer, s.chunk) \notin inbox
        /\ <<s.peer, s.chunk>> # <<p, c>>
    BY <1>11, <2>1 DEF StoreRight
  <2>3. StoreOkEvent(s.peer, s.chunk) \notin inbox'
    BY <1>4, <2>2 DEF StoreOkEvent
  <2>4. disk'[<<s.peer, s.chunk>>] = disk[<<s.peer, s.chunk>>] /\ Same(s.peer, s.chunk)
    BY <1>6, <1>8, <2>2 DEF Still, Slots
  <2> QED BY <2>1, <2>3, <2>4, StoreKept
<1>14. AllPulls'
  <2> SUFFICES ASSUME NEW f \in Of("Pull")' PROVE PullRight(f)'
    BY DEF AllPulls
  <2>1. PullRight(f)
    BY <1>9 DEF EInv, EventsRight, AllPulls, NewTypes
  <2>2. f.to \in Peers /\ f.chunk \in Chunks
    BY <2>1, AskedFacts DEF PullRight, EInv
  <2>3. <<f.to, f.chunk>> # <<p, c>>
    BY <1>1, <2>1 DEF PullRight
  <2>4. In(f.to, f.chunk, "Available")' = In(f.to, f.chunk, "Available")
    BY <1>8, <2>2, SameIn DEF Still
  <2>5. disk'[<<f.to, f.chunk>>] = disk[<<f.to, f.chunk>>]
    BY <1>6, <2>2, <2>3 DEF Slots
  <2> QED BY <1>7, <1>10, <2>1, <2>4, <2>5, PullKept DEF Fewer
<1>15. AllLoads'
  <2> SUFFICES ASSUME NEW s \in Tasks("Load")' PROVE LoadRight(s)'
    BY DEF AllLoads
  <2>1. LoadRight(s) /\ s # t
    BY <1>10 DEF EInv, WorkRight, AllLoads, Fewer
  <2>2. s.chunk \in Chunks /\ s.peer \in Peers /\ Asked("Get", s.by, s.chunk)
        /\ s = LoadTask(s.peer, s.chunk, Index(s.peer, s.chunk), s.by)
    BY <2>1, AskedFacts DEF EInv, LoadRight
  <2>3. <<s.peer, s.chunk>> # <<p, c>>
    <3> SUFFICES ASSUME s.peer = p, s.chunk = c PROVE FALSE
      OBVIOUS
    <3>1. s.by = t.by
      BY <1>2, <2>2, AskedFacts DEF EInv
    <3> QED BY <1>2, <2>1, <2>2, <3>1
  <2>4. disk'[<<s.peer, s.chunk>>] # None
    BY <1>6, <2>1, <2>2, <2>3 DEF LoadRight, Slots
  <2> QED BY <1>7, <2>1, <2>4, LoadKept DEF EInv
<1>16. AllLoadOks'
  <2> SUFFICES ASSUME NEW f \in Of("LoadOk")' PROVE LoadOkRight(f)'
    BY DEF AllLoadOks
  <2>1. CASE f \in Of("LoadOk")
    BY <2>1, LoadOkKept DEF EInv, EventsRight, AllLoadOks
  <2>2. CASE f = e
    <3>1. disk[<<p, c>>] \in Fragments /\ disk[<<p, c>>].index = disk[<<p, c>>].of
      BY <1>2, <1>3, <1>5
    <3> QED BY <1>2, <2>2, <3>1 DEF LoadOkRight
  <2> QED BY <1>9, <2>1, <2>2
<1>17. AllPersists'
  <2> SUFFICES ASSUME NEW q \in Peers, NEW d \in Chunks PROVE PersistRight(q, d)'
    BY DEF AllPersists
  <2>1. PersistRight(q, d) /\ Same(q, d)
    BY <1>8 DEF EInv, SlotsRight, AllPersists, Still
  <2>2. disk'[<<q, d>>] = disk[<<q, d>>] \/ (disk'[<<q, d>>] = None /\ Fetched(d))
    <3>1. CASE <<q, d>> = <<p, c>>
      <4>1. q = p /\ d = c /\ Fetched(c)
        BY <1>2, <3>1, AskedFetched
      <4> QED BY <1>6, <4>1
    <3>2. CASE <<q, d>> # <<p, c>>
      BY <1>6, <3>2 DEF Slots
    <3> QED BY <3>1, <3>2
  <2> QED BY <1>4, <1>7, <2>1, <2>2, PersistKept
<1>18. AllDisks'
  <2> SUFFICES ASSUME NEW q \in Peers, NEW d \in Chunks PROVE DiskRight(q, d)'
    BY DEF AllDisks
  <2>1. DiskRight(q, d) /\ <<q, d>> \in Slots
    BY DEF EInv, SlotsRight, AllDisks, Slots
  <2>2. disk'[<<q, d>>] = disk[<<q, d>>] \/ disk'[<<q, d>>] = None
    BY <1>6, <2>1
  <2> QED BY <1>7, <2>1, <2>2, DiskKept
<1>19. AskedRight'
  BY <1>4, AskedStays DEF EInv
<1>20. SlotTypes'
  BY <1>4, <1>6 DEF EInv, SlotTypes
<1> HIDE DEF U
<1>21. AllNewEncoders' /\ AllInvites' /\ AllInviteOks' /\ AllEncodes' /\ AllOffers'
  BY <1>7, <1>8, <1>9, QuietPut, NoNewOffers DEF U
<1>22. /\ AllDownloads' /\ AllDecodes' /\ AllRecovers' /\ AllRecoverEncodes' /\ AllAvailables'
       /\ AllTransfers'
  BY <1>4, <1>7, <1>8, <1>9, QuietGet, NoNewDownloads DEF U
<1>23. AllFetches' /\ AllPullers' /\ AllUploads' /\ AllAnswered'
  BY <1>4, <1>7, QuietSlots, AnsweredStays
<1>24. FailsOnlyByOverlap'
  BY <1>4, <1>7, FailsStay
<1> QED BY <1>12, <1>13, <1>14, <1>15, <1>16, <1>17, <1>18, <1>19, <1>20, <1>21, <1>22, <1>23, <1>24
        DEF EInv, EventsRight, WorkRight, SlotsRight

(* Invite keeps EInv: the invited peer is new, so its answer carries the   *)
(* index it keeps.                                                         *)
LEMMA InviteStep ==
  ASSUME EInv, NEW e \in Events("Invite"), RecvInvite(e)
  PROVE  EInv'
<1> DEFINE p == e.to
           c == e.chunk
           u == e.from
           U == {"InviteOk"}
           New(i) == [index |-> i, status |-> "Recovering", notify |-> None,
                      recover |-> NewRecover, received |-> {}, cancelled |-> FALSE]
<1>1. e \in Of("Invite") /\ InviteRight(e) /\ e.type = "Invite"
  BY DEF Events, Of, EInv, EventsRight, AllInvites
<1>2. /\ p \in Peers /\ c \in Chunks /\ u \in Peers /\ Asked("Put", u, c) /\ ~Invited(p, c)
      /\ e = InviteEvent(p, c, u) /\ Begun(c)
      /\ uploads[<<u, c>>] # None => uploads[<<u, c>>].encoder
  BY <1>1, AskedFacts DEF InviteRight, EInv, Begun
<1>3. /\ uploads' = uploads /\ downloads' = downloads /\ pulls' = pulls /\ disk' = disk /\ fsTasks' = fsTasks
      /\ transfers' = transfers /\ answered' = answered /\ asked' = asked
      /\ panicked' = panicked /\ failed' = failed
  BY DEF RecvInvite, history, outcomes, storage
<1>a. PICK i \in Draws[p] :
        /\ Handle(e, IF u = p THEN {} ELSE {InviteOkEvent(u, c, i, p)})
        /\ persists' = IF u = p THEN persists ELSE [persists EXCEPT ![<<p, c>>] = New(i)]
  BY <1>2 DEF RecvInvite, InviteOkEvent, Invited
<1>4. PICK out :
        /\ Handle(e, out) /\ i \in Draws[p]
        /\ out = IF u = p THEN {} ELSE {InviteOkEvent(u, c, i, p)}
        /\ persists' = IF u = p THEN persists ELSE [persists EXCEPT ![<<p, c>>] = New(i)]
  BY <1>a
<1>5. i \in Indices
  BY <1>2, <1>4, EntropyAssumption DEF Indices
<1>6. New(i) \in PersistStates /\ New(i) # None
  <2>1. NewRecover \in RecoverStates
    BY DEF NewRecover, RecoverStates
  <2>2. New(i) \in PersistStates
    BY <1>5, <2>1 DEF PersistStates
  <2> QED BY <2>2, EntropyNoneAssumption
<1>7. /\ New(i).index = i /\ New(i).status = "Recovering" /\ New(i).notify = None /\ New(i).recover = NewRecover
  OBVIOUS
<1> HIDE DEF New
<1>8. persists \in [Slots -> PersistStates \cup {None}] /\ <<p, c>> \in Slots
  BY <1>2 DEF EInv, SlotTypes, Slots
<1>9. /\ persists'[<<p, c>>] = IF u = p THEN None ELSE New(i)
      /\ \A q \in Peers, d \in Chunks : <<q, d>> # <<p, c>> => persists'[<<q, d>>] = persists[<<q, d>>]
      /\ persists' \in [Slots -> PersistStates \cup {None}]
  BY <1>2, <1>4, <1>6, <1>8 DEF Slots, Invited
<1>10. StillBut(p, c) /\ Forward(p, c)
  BY <1>2, <1>9 DEF StillBut, Same, Invited, Index, Forward
<1>11. Mono
  BY <1>2, <1>3, <1>10, MoveForward, UploadsStay DEF Mono
<1>12. /\ NewTypes(U) /\ e \notin inbox' /\ "InviteOk" \in U
       /\ \A type : Of(type)' \subseteq Of(type) \cup out
  <2>1. \A o \in out : o.type \in U
    BY <1>4 DEF InviteOkEvent
  <2> QED BY <1>1, <1>4, <2>1, Flow
<1>13. /\ u # p => /\ Invited(p, c)' /\ Index(p, c)' = i /\ Waiting(p, c)'
       /\ ~In(p, c, "Available")'
  BY <1>6, <1>7, <1>9 DEF Invited, Index, Waiting, In
<1>14. /\ ~Waiting(p, c) /\ ~Taken(p, c) /\ ~In(p, c, "Storing") /\ ~Offered(p, c)
  <2>1. ~Waiting(p, c) /\ ~Taken(p, c) /\ ~In(p, c, "Storing")
    BY <1>2 DEF Waiting, Taken, In
  <2>2. ~Offered(p, c)
    BY <1>2 DEF Offered, EInv, EventsRight, AllOffers, OfferRight, Paired
  <2> QED BY <2>1, <2>2
<1>15. NoOffered /\ NoArrived /\ NoPairs
  BY <1>3, <1>12, NoNewOffers, NoNewDownloads, UploadsStay
<1>16. AllNewEncoders'
  <2> SUFFICES ASSUME NEW f \in Of("NewEncoder")' PROVE NewEncoderRight(f)'
    BY DEF AllNewEncoders
  <2>1. NewEncoderRight(f)
    BY <1>12 DEF AllNewEncoders, NewTypes, EInv, EventsRight
  <2>2. f.chunk \in Chunks /\ f.chunk # c
    BY <1>1, <2>1, AskedFacts DEF NewEncoderRight, EInv
  <2>3. \A i2 \in Of("Invite")' : i2.chunk = f.chunk => i2 \in Of("Invite")
    BY <1>12 DEF NewTypes
  <2>4. \A q \in Peers : Invited(q, f.chunk)' => Invited(q, f.chunk)
    BY <1>10, <2>2 DEF StillBut, Same
  <2> QED BY <1>11, <2>1, <2>3, <2>4, NewEncoderKept
<1>17. AllInvites'
  <2> SUFFICES ASSUME NEW f \in Of("Invite")' PROVE InviteRight(f)'
    BY DEF AllInvites
  <2>1. InviteRight(f) /\ f # e
    BY <1>12 DEF AllInvites, NewTypes, EInv, EventsRight, Of
  <2>2. f.chunk \in Chunks /\ f.to \in Peers
    BY <2>1, AskedFacts DEF InviteRight, EInv
  <2>3. <<f.to, f.chunk>> # <<p, c>>
    BY <1>2, <2>1, AskedFacts DEF InviteRight, EInv
  <2>4. Invited(f.to, f.chunk)' => Invited(f.to, f.chunk)
    BY <1>10, <2>2, <2>3 DEF StillBut, Same
  <2> QED BY <1>11, <2>1, <2>4, InviteKept DEF EInv
<1>18. AllInviteOks'
  <2> SUFFICES ASSUME NEW f \in Of("InviteOk")' PROVE InviteOkRight(f)'
    BY DEF AllInviteOks
  <2>1. CASE f \in Of("InviteOk")
    BY <1>2, <1>10, <1>11, <1>14, <1>15, <2>1, MoveInviteOk DEF Closed
  <2>2. CASE f \in out
    <3>1. u # p /\ f = InviteOkEvent(u, c, i, p)
      BY <1>4, <2>2
    <3>2. f.to = u /\ f.chunk = c /\ f.index = i /\ f.from = p
      BY <3>1 DEF InviteOkEvent
    <3>3. Asked("Put", u, c)'
      BY <1>2, <1>11, AskedKept
    <3>4. Invited(p, c)' /\ Index(p, c)' = i /\ Waiting(p, c)' /\ ~Offered(p, c)'
      BY <1>2, <1>13, <1>14, <1>15, <3>1 DEF NoOffered
    <3>5. ASSUME uploads'[<<u, c>>] # None
          PROVE  uploads'[<<u, c>>].encoder /\ \A w \in uploads'[<<u, c>>].pending : w.peer # p
      <4>1. UploadRight(u, c)
        BY <1>2 DEF EInv, SlotsRight, AllUploads
      <4> QED BY <1>2, <1>3, <3>5, <4>1 DEF UploadRight
    <3> QED BY <1>2, <3>1, <3>2, <3>3, <3>4, <3>5 DEF InviteOkRight
  <2> QED BY <1>12, <2>1, <2>2
<1>19. AllEncodes'
  <2> SUFFICES ASSUME NEW f \in Of("Encode")' PROVE EncodeRight(f)'
    BY DEF AllEncodes
  <2>1. f \in Of("Encode")
    BY <1>12 DEF NewTypes
  <2> QED BY <1>2, <1>10, <1>11, <1>14, <1>15, <2>1, MoveEncode DEF Closed
<1>20. AllOffers'
  <2> SUFFICES ASSUME NEW f \in Of("RecvOffer")' PROVE OfferRight(f)'
    BY DEF AllOffers
  <2>1. f \in Of("RecvOffer")
    BY <1>12 DEF NewTypes
  <2> QED BY <1>2, <1>10, <1>11, <1>14, <2>1, MoveOffer
<1>21. AllTransfers'
  BY <1>2, <1>3, <1>10, <1>11, <1>14, <1>15, MoveTransfer DEF AllTransfers
<1>22. AllDownloads'
  <2> SUFFICES ASSUME NEW f \in Of("DownloadOk")' PROVE DownloadRight(f)'
    BY DEF AllDownloads
  <2>1. f \in Of("DownloadOk")
    BY <1>12 DEF NewTypes
  <2> QED BY <1>2, <1>10, <1>11, <1>14, <2>1, MoveDownload
<1>23. AllStores'
  <2> SUFFICES ASSUME NEW t \in Tasks("Store")' PROVE StoreRight(t)'
    BY DEF AllStores
  <2>1. t \in Tasks("Store")
    BY <1>3 DEF Tasks
  <2> QED BY <1>2, <1>3, <1>10, <1>11, <1>12, <1>14, <2>1, MoveStore
<1>24. AllStoreOks'
  <2> SUFFICES ASSUME NEW f \in Of("StoreOk")' PROVE StoreOkRight(f)'
    BY DEF AllStoreOks
  <2>1. f \in Of("StoreOk")
    BY <1>12 DEF NewTypes
  <2> QED BY <1>2, <1>3, <1>10, <1>11, <1>14, <2>1, MoveStoreOk
<1>25. AllPersists'
  <2>1. disk[<<p, c>>] = None
    BY <1>2 DEF EInv, SlotsRight, AllDisks, DiskRight
  <2>2. ASSUME u # p PROVE PersistRight(p, c)'
    <3>1. Begun(c)'
      BY <1>2, <1>11, BegunKept
    <3>2. persists'[<<p, c>>] = New(i)
      BY <1>9, <2>2
    <3>3. Genuine(persists'[<<p, c>>].recover.decoder) /\ Genuine(persists'[<<p, c>>].recover.pending)
      BY <1>7, <3>2 DEF NewRecover, Genuine
    <3>4. ~In(p, c, "Available")' /\ persists'[<<p, c>>].notify = None
      BY <1>7, <1>13, <3>2
    <3> QED BY <1>3, <2>1, <3>1, <3>3, <3>4 DEF PersistRight, Genuine
  <2>3. ASSUME u = p PROVE PersistRight(p, c)'
    BY <1>9, <2>3 DEF PersistRight, Invited
  <2> QED BY <1>2, <1>3, <1>9, <1>10, <1>11, <2>2, <2>3, MovePersists
<1>26. AskedRight'
  BY <1>3, AskedStays DEF EInv
<1>27. SlotTypes'
  BY <1>3, <1>9 DEF EInv, SlotTypes
<1> HIDE DEF U
<1>28. AllPulls' /\ AllLoads' /\ AllDisks'
  BY <1>2, <1>3, <1>10, <1>11, <1>12, <1>13, MovePulls, TasksStay DEF U
<1>29. AllDecodes' /\ AllRecovers' /\ AllRecoverEncodes' /\ AllAvailables' /\ AllLoadOks'
  BY <1>11, <1>12, RestKept DEF U
<1>30. AllFetches' /\ AllPullers' /\ AllUploads' /\ AllAnswered'
  BY <1>3, <1>11, QuietSlots, AnsweredStays
<1>31. FailsOnlyByOverlap'
  BY <1>3, <1>11, FailsStay
<1> QED BY <1>16, <1>17, <1>18, <1>19, <1>20, <1>21, <1>22, <1>23, <1>24, <1>25, <1>26, <1>27,
           <1>28, <1>29, <1>30, <1>31
        DEF EInv, EventsRight, WorkRight, SlotsRight

(* RecvOffer keeps EInv: neither assertion fails and no receipt is missing *)
(* but for a peer that gets the chunk it was invited for.                  *)
LEMMA RecvOfferStep ==
  ASSUME EInv, NEW e \in Events("RecvOffer"), RecvOffer(e)
  PROVE  EInv'
<1> DEFINE p == e.to
           c == e.chunk
           state == persists[<<p, c>>]
           fetching == downloads[<<p, c>>] # None
           persisting == ~fetching /\ state # None
           recovering == persisting /\ state.status = "Recovering"
           mine == recovering /\ e.index = state.index
           own == mine /\ state.notify = None /\ e.receipt # None
           told == persisting /\ ~recovering /\ e.receipt # None
           more == IF fetching THEN {Transfer(e, "download")}
                   ELSE IF recovering /\ (mine => own) THEN {Transfer(e, "persist")} ELSE {}
           U == {"FragmentAvailable"}
<1>1. e \in Of("RecvOffer") /\ OfferRight(e) /\ e.type = "RecvOffer"
  BY DEF Events, Of, EInv, EventsRight, AllOffers
<1>2. /\ p \in Peers /\ c \in Chunks /\ e.index \in Indices /\ e.of = e.index
      /\ e.receipt = None => Asked("Get", p, c)
      /\ e.receipt # None =>
           /\ Paired(p, c) /\ e = OfferEvent(p, c, Index(p, c), e.receipt) /\ e.index = Index(p, c)
           /\ e.from = e.receipt /\ Asked("Put", e.receipt, c) /\ e.receipt \in Peers
           /\ Asked("Get", p, c) \/ Waiting(p, c)
  BY <1>1, AskedFacts DEF OfferRight, OfferEvent, EInv
<1>3. /\ uploads' = uploads /\ downloads' = downloads /\ pulls' = pulls /\ disk' = disk /\ fsTasks' = fsTasks
      /\ answered' = answered /\ asked' = asked
  BY DEF RecvOffer, history, storage
<1>4. PICK out :
        /\ Handle(e, out) /\ out = IF told THEN {Available(p, c, e.receipt)} ELSE {}
        /\ transfers' = transfers \cup more
        /\ persists' = IF own THEN [persists EXCEPT ![<<p, c>>].notify = e.receipt] ELSE persists
        /\ panicked' \subseteq panicked \cup {p} /\ failed' \subseteq failed \cup {p}
  <2>1. told => e.index = state.index
    BY <1>2 DEF Index
  <2> QED BY <2>1 DEF RecvOffer, Panic
<1>5. (panicked' = panicked /\ failed' = failed) \/ (Asked("Get", p, c) /\ state # None)
  <2>1. persisting => state # None
    OBVIOUS
  <2>2. e.receipt # None => Index(p, c) = state.index
    BY DEF Index
  <2>3. mine /\ ~Asked("Get", p, c) => state.notify = None
    BY <1>2 DEF Waiting
  <2> QED BY <1>2, <2>1, <2>2, <2>3 DEF RecvOffer
<1>6. state # None => state \in PersistStates /\ Invited(p, c)
  BY <1>2 DEF EInv, SlotTypes, Slots, Invited
<1>7. persists \in [Slots -> PersistStates \cup {None}] /\ <<p, c>> \in Slots
  BY <1>2 DEF EInv, SlotTypes, Slots
<1>8. own => /\ Invited(p, c)' /\ Index(p, c)' = Index(p, c)
             /\ persists'[<<p, c>>].status = "Recovering" /\ persists'[<<p, c>>].notify = e.receipt
             /\ persists'[<<p, c>>].recover = state.recover
             /\ persists' \in [Slots -> PersistStates \cup {None}]
  <2> SUFFICES ASSUME own
               PROVE  /\ Invited(p, c)' /\ Index(p, c)' = Index(p, c)
                      /\ persists'[<<p, c>>].status = "Recovering" /\ persists'[<<p, c>>].notify = e.receipt
                      /\ persists'[<<p, c>>].recover = state.recover
                      /\ persists' \in [Slots -> PersistStates \cup {None}]
    OBVIOUS
  <2> DEFINE w == [state EXCEPT !.notify = e.receipt]
  <2>1. state \in PersistStates /\ state.status = "Recovering" /\ state # None
    BY <1>6
  <2>2. e.receipt \in Peers \cup {None}
    BY <1>2
  <2>3. /\ w \in PersistStates /\ w.index = state.index /\ w.status = "Recovering"
        /\ w.notify = e.receipt /\ w.recover = state.recover
    BY <2>1, <2>2 DEF PersistStates
  <2>4. persists' = [persists EXCEPT ![<<p, c>>] = w]
    BY <1>4, <1>7
  <2> HIDE DEF w
  <2>5. persists'[<<p, c>>] = w /\ persists' \in [Slots -> PersistStates \cup {None}]
    BY <1>7, <2>3, <2>4
  <2>6. w # None
    BY <2>3, EntropyNoneAssumption
  <2> QED BY <2>3, <2>5, <2>6 DEF Invited, Index
<1>9. \A q \in Peers, d \in Chunks : <<q, d>> # <<p, c>> => persists'[<<q, d>>] = persists[<<q, d>>]
  BY <1>4, <1>7 DEF Slots
<1>10. ~own => persists' = persists
  BY <1>4
<1>11. own => In(p, c, "Recovering")
  BY DEF In, Invited
<1> HIDE DEF own, told
<1>12. StillBut(p, c) /\ Forward(p, c)
  <2>1. StillBut(p, c)
    BY <1>9 DEF StillBut, Same, Invited, Index
  <2>2. CASE own
    <3>1. persists[<<p, c>>].status = "Recovering"
      BY <1>11, <2>2 DEF In
    <3> QED BY <1>8, <2>1, <2>2, <3>1 DEF Forward
  <2>3. CASE ~own
    <3>1. persists' = persists
      BY <1>10, <2>3
    <3> QED BY <2>1, <3>1 DEF Forward, Invited, Index
  <2> QED BY <2>1, <2>2, <2>3
<1>13. Mono
  BY <1>2, <1>3, <1>12, MoveForward, UploadsStay DEF Mono
<1>14. /\ NewTypes(U) /\ e \notin inbox' /\ "FragmentAvailable" \in U
       /\ \A type : Of(type)' \subseteq Of(type) \cup out
  <2>1. \A o \in out : o.type \in U
    BY <1>4 DEF Available
  <2>2. Handle(e, out)
    BY <1>4
  <2> QED BY <1>1, <2>1, <2>2, Flow
<1>15. NoOffered /\ NoArrived /\ NoPairs
  BY <1>3, <1>14, NoNewOffers, NoNewDownloads, UploadsStay
<1>16. Asked("Get", p, c) => Fetched(c)
  BY <1>2 DEF Fetched
<1>17. Closed(p, c)
  <2>1. e.receipt # None => Offered(p, c)
    BY <1>1 DEF Offered
  <2> QED BY <1>2, <1>16, <2>1 DEF Closed
<1>18. own => Invited(p, c)
  BY <1>11 DEF In
<1>19. Asked("Get", p, c) \/ ~Taken(p, c)
  BY <1>2 DEF Waiting, Taken
<1>20. AllNewEncoders' /\ AllInvites'
  <2>1. CASE own
    BY <1>2, <1>12, <1>13, <1>14, <1>18, <2>1, MoveInvites
  <2>2. CASE ~own
    <3>1. Still
      BY <1>10, <2>2, StillWhenSame
    <3> QED BY <1>13, <1>14, <3>1, QuietPut
  <2> QED BY <2>1, <2>2
<1>21. AllInviteOks' /\ AllEncodes'
  <2>1. ASSUME NEW f \in Of("InviteOk")' PROVE InviteOkRight(f)'
    <3>1. f \in Of("InviteOk")
      BY <1>14 DEF NewTypes
    <3> QED BY <1>2, <1>12, <1>13, <1>15, <1>17, <3>1, MoveInviteOk
  <2>2. ASSUME NEW f \in Of("Encode")' PROVE EncodeRight(f)'
    <3>1. f \in Of("Encode")
      BY <1>14 DEF NewTypes
    <3> QED BY <1>2, <1>12, <1>13, <1>15, <1>17, <3>1, MoveEncode
  <2> QED BY <2>1, <2>2 DEF AllInviteOks, AllEncodes
<1>22. AllOffers'
  <2> SUFFICES ASSUME NEW f \in Of("RecvOffer")' PROVE OfferRight(f)'
    BY DEF AllOffers
  <2>1. f \in Of("RecvOffer") /\ f # e /\ OfferRight(f)
    BY <1>14 DEF NewTypes, Of, EInv, EventsRight, AllOffers
  <2>2. \/ Asked("Get", p, c)
        \/ f.receipt = None \/ <<f.to, f.chunk>> # <<p, c>>
    <3> SUFFICES ASSUME ~Asked("Get", p, c), f.receipt # None, f.to = p, f.chunk = c PROVE FALSE
      OBVIOUS
    <3>1. f = OfferEvent(p, c, Index(p, c), f.receipt) /\ Asked("Put", f.receipt, c)
      BY <2>1 DEF OfferRight
    <3>2. f.receipt = e.receipt
      BY <1>2, <3>1, AskedFacts DEF EInv
    <3> QED BY <1>2, <2>1, <3>1, <3>2
  <2> QED BY <1>2, <1>12, <1>13, <2>1, <2>2, MoveOffer
<1>23. AllTransfers'
  <2> SUFFICES ASSUME NEW t \in transfers' PROVE TransferRight(t)'
    BY DEF AllTransfers
  <2>1. CASE t \in transfers
    BY <1>2, <1>12, <1>13, <1>15, <1>19, <2>1, MoveTransfer
  <2>2. CASE t \in more
    <3>1. PICK by : t = Transfer(e, by) /\ (by = "download" \/ (by = "persist" /\ recovering))
      BY <1>4, <2>2
    <3>2. t.to = p /\ t.chunk = c /\ t.index = e.index /\ t.of = e.index /\ t.receipt = e.receipt
      BY <1>2, <3>1 DEF Transfer
    <3>3. CASE Asked("Get", p, c)
      <4>1. Asked("Get", p, c)'
        BY <1>13, <3>3, AskedKept
      <4> QED BY <1>2, <3>2, <4>1 DEF TransferRight
    <3>4. CASE ~Asked("Get", p, c)
      <4>1. ~fetching
        BY <1>2, <3>4 DEF EInv, SlotsRight, AllFetches, DownloadsRight
      <4>2. e.receipt # None /\ Waiting(p, c) /\ e.index = Index(p, c)
        BY <1>2, <3>4
      <4>3. by = "persist" /\ own
        BY <1>4, <2>2, <3>1, <4>1, <4>2 DEF Transfer, Index, own
      <4>4. t = OfferTransfer(p, c, Index(p, c), e.receipt)
        <5>1. e.of = Index(p, c) /\ e.from = e.receipt
          BY <1>2, <4>2
        <5> QED BY <3>1, <4>2, <4>3, <5>1 DEF Transfer, OfferTransfer
      <4>5. Taken(p, c)' /\ Index(p, c)' = Index(p, c)
        BY <1>8, <4>2, <4>3 DEF Taken, In
      <4>6. ~Arrived(p, c)
        <5> SUFFICES ASSUME NEW f \in Of("DownloadOk"), f.to = p, f.chunk = c PROVE FALSE
          BY DEF Arrived
        <5>1. Taken(p, c)
          BY <3>4 DEF EInv, EventsRight, AllDownloads, DownloadRight
        <5> QED BY <1>19, <3>4, <5>1
      <4>7. ~Arrived(p, c)'
        BY <1>2, <1>15, <4>6 DEF NoArrived
      <4>8. Asked("Put", e.receipt, c)'
        BY <1>2, <1>13, <4>2, AskedKept
      <4> QED BY <1>2, <3>2, <4>4, <4>5, <4>7, <4>8 DEF TransferRight
    <3> QED BY <3>3, <3>4
  <2> QED BY <1>4, <2>1, <2>2
<1>24. AllDownloads'
  <2> SUFFICES ASSUME NEW f \in Of("DownloadOk")' PROVE DownloadRight(f)'
    BY DEF AllDownloads
  <2>1. f \in Of("DownloadOk")
    BY <1>14 DEF NewTypes
  <2> QED BY <1>2, <1>12, <1>13, <1>19, <2>1, MoveDownload
<1>25. AllStores' /\ AllStoreOks'
  <2>1. CASE own
    <3>1. ~In(p, c, "Storing")
      BY <1>11, <2>1 DEF In
    <3>2. ASSUME NEW t \in Tasks("Store")' PROVE StoreRight(t)'
      <4>1. t \in Tasks("Store")
        BY <1>3 DEF Tasks
      <4> QED BY <1>2, <1>3, <1>12, <1>13, <1>14, <3>1, <4>1, MoveStore
    <3>3. ASSUME NEW f \in Of("StoreOk")' PROVE StoreOkRight(f)'
      <4>1. f \in Of("StoreOk")
        BY <1>14 DEF NewTypes
      <4> QED BY <1>2, <1>3, <1>12, <1>13, <3>1, <4>1, MoveStoreOk
    <3> QED BY <3>2, <3>3 DEF AllStores, AllStoreOks
  <2>2. CASE ~own
    <3>1. Still
      BY <1>10, <2>2, StillWhenSame
    <3> QED BY <1>3, <1>13, <1>14, <3>1, QuietDisk, TasksStay
  <2> QED BY <2>1, <2>2
<1>26. AllAvailables'
  <2> SUFFICES ASSUME NEW f \in Of("FragmentAvailable")' PROVE AvailableRight(f)'
    BY DEF AllAvailables
  <2>1. CASE f \in Of("FragmentAvailable")
    BY <1>13, <2>1, AvailableKept DEF EInv, EventsRight, AllAvailables
  <2>2. CASE f \in out
    <3>1. told /\ f = Available(p, c, e.receipt) /\ e.receipt # None
      BY <1>4, <2>2 DEF told
    <3>2. f.to = e.receipt /\ f.chunk = c /\ f.from = p
      BY <3>1 DEF Available
    <3>3. ~Waiting(p, c)
      BY <3>1 DEF Waiting, In, told
    <3>4. uploads[<<e.receipt, c>>] = None
      BY <1>2, <1>16, <3>1, <3>3, FetchedClosed
    <3>5. Asked("Put", e.receipt, c)'
      BY <1>2, <1>13, <3>1, AskedKept
    <3> QED BY <1>2, <1>3, <3>2, <3>4, <3>5 DEF AvailableRight
  <2> QED BY <1>14, <2>1, <2>2
<1>27. AllPersists'
  <2>1. CASE own
    <3>1. PersistRight(p, c) /\ In(p, c, "Recovering") /\ Invited(p, c)
      BY <1>2, <1>11, <2>1 DEF EInv, SlotsRight, AllPersists, In
    <3>2. Begun(c)'
      BY <1>13, <3>1, BegunKept DEF PersistRight
    <3>3. /\ persists'[<<p, c>>].recover.decoder # None => Genuine(persists'[<<p, c>>].recover.decoder)
          /\ Genuine(persists'[<<p, c>>].recover.pending)
      BY <1>8, <2>1, <3>1 DEF PersistRight
    <3>4. disk[<<p, c>>] = None
      BY <3>1 DEF PersistRight
    <3>5. ~In(p, c, "Available")'
      BY <1>8, <2>1 DEF In
    <3>6. persists'[<<p, c>>].notify # None =>
            Paired(p, c)' /\ Asked("Put", e.receipt, c)'
      <4> SUFFICES ASSUME e.receipt # None PROVE Paired(p, c)' /\ Asked("Put", e.receipt, c)'
        BY <1>8, <2>1
      <4>1. Paired(p, c) /\ Asked("Put", e.receipt, c)
        BY <1>2
      <4>2. Begun(c)
        BY <3>1 DEF PersistRight
      <4> QED BY <1>2, <1>13, <4>1, <4>2, PairedKept, AskedKept
    <3>7. persists'[<<p, c>>].notify # None =>
            Paired(p, c)' /\ Asked("Put", persists[<<p, c>>].notify, c)'
      BY <1>8, <2>1, <3>6 DEF Asked
    <3>8. PersistRight(p, c)'
      BY <1>3, <3>2, <3>3, <3>4, <3>5, <3>7 DEF PersistRight, Genuine
    <3> QED BY <1>2, <1>3, <1>9, <1>12, <1>13, <3>8, MovePersists
  <2>2. CASE ~own
    BY <1>3, <1>10, <1>13, <2>2, QuietSlots
  <2> QED BY <2>1, <2>2
<1>28. AskedRight'
  BY <1>3, AskedStays DEF EInv
<1>29. SlotTypes'
  BY <1>2, <1>3, <1>4, <1>7, <1>8, <1>10 DEF EInv, SlotTypes
<1>30. AllPulls' /\ AllLoads' /\ AllDisks'
  <2>1. In(p, c, "Available")' => In(p, c, "Available")
    <3>1. CASE own
      BY <1>8, <3>1 DEF In
    <3>2. CASE ~own
      BY <1>10, <3>2 DEF In, Invited
    <3> QED BY <3>1, <3>2
  <2> QED BY <1>2, <1>3, <1>12, <1>13, <1>14, <2>1, MovePulls, TasksStay
<1> HIDE DEF U
<1>31. AllDecodes' /\ AllRecovers' /\ AllRecoverEncodes' /\ AllLoadOks'
  BY <1>13, <1>14, RestKept DEF U
<1>32. AllFetches' /\ AllPullers' /\ AllUploads' /\ AllAnswered'
  BY <1>3, <1>13, QuietSlots, AnsweredStays
<1>33. FailsOnlyByOverlap'
  <2>1. CASE panicked' = panicked /\ failed' = failed
    BY <1>13, <2>1, FailsStay
  <2>2. CASE Asked("Get", p, c) /\ state # None
    <3>1. Overlap(p)
      BY <1>2, <2>2 DEF Overlap
    <3>2. \A q \in (panicked' \cup failed') \ (panicked \cup failed) : Overlap(q)'
      BY <1>2, <1>4, <1>13, <3>1, OverlapKept
    <3> QED BY <1>13, <3>2, FailsKept DEF EInv, SlotTypes
  <2> QED BY <1>5, <2>1, <2>2
<1> QED BY <1>20, <1>21, <1>22, <1>23, <1>24, <1>25, <1>26, <1>27, <1>28, <1>29,
           <1>30, <1>31, <1>32, <1>33
        DEF EInv, EventsRight, WorkRight, SlotsRight

(* A slot is set, and what of its state then changes.                      *)
PutSlot(p, c, w) == persists' = [persists EXCEPT ![<<p, c>>] = w]

SlotMoved(p, c, w) ==
  /\ persists'[<<p, c>>] = w
  /\ \A q \in Peers, d \in Chunks : <<q, d>> # <<p, c>> => persists'[<<q, d>>] = persists[<<q, d>>]
  /\ persists' \in [Slots -> PersistStates \cup {None}]
  /\ Invited(p, c)' /\ Index(p, c)' = Index(p, c) /\ \A s : In(p, c, s)' <=> w.status = s
  /\ StillBut(p, c)
  /\ ~In(p, c, "Available") \/ w.status = "Available" => Forward(p, c)

(* The state of one peer's fragment changes, its index stays. *)
LEMMA SlotMoves ==
  ASSUME EInv, NEW p \in Peers, NEW c \in Chunks, Invited(p, c),
         NEW w \in PersistStates, w.index = Index(p, c), PutSlot(p, c, w)
  PROVE  SlotMoved(p, c, w)
<1>1. persists \in [Slots -> PersistStates \cup {None}] /\ <<p, c>> \in Slots
  BY DEF EInv, SlotTypes, Slots
<1>2. /\ persists'[<<p, c>>] = w
      /\ \A q \in Peers, d \in Chunks : <<q, d>> # <<p, c>> => persists'[<<q, d>>] = persists[<<q, d>>]
      /\ persists' \in [Slots -> PersistStates \cup {None}]
  BY <1>1 DEF Slots, PutSlot
<1>3. w # None
  BY EntropyNoneAssumption
<1>4. Invited(p, c)' /\ Index(p, c)' = Index(p, c)
  BY <1>2, <1>3 DEF Invited, Index
<1>5. \A s : In(p, c, s)' <=> w.status = s
  BY <1>2, <1>4 DEF In
<1>6. StillBut(p, c)
  BY <1>2 DEF StillBut, Same, Invited, Index
<1>7. ASSUME ~In(p, c, "Available") \/ w.status = "Available" PROVE Forward(p, c)
  BY <1>2, <1>4, <1>7 DEF Forward, In
<1> QED BY <1>2, <1>4, <1>5, <1>6, <1>7 DEF SlotMoved

(* A peer that goes from Recovering to Storing with the task to store its  *)
(* genuine fragment stays right, and so do all tasks and slots.            *)
LEMMA StoringStarts ==
  ASSUME EInv, Mono, NEW p \in Peers, NEW c \in Chunks, In(p, c, "Recovering"),
         NEW w \in PersistStates, w.index = Index(p, c), PutSlot(p, c, w), w.status = "Storing", w.notify = persists[<<p, c>>].notify, w.recover = persists[<<p, c>>].recover,
         disk' = disk, fsTasks' = fsTasks \cup {StoreTask(p, c, Index(p, c))},
         NEW U, NewTypes(U), "StoreOk" \notin U
  PROVE  AllPersists' /\ AllStores' /\ AllStoreOks' /\ Fewer("Load")
<1>1. /\ persists'[<<p, c>>] = w
      /\ \A q \in Peers, d \in Chunks : <<q, d>> # <<p, c>> => persists'[<<q, d>>] = persists[<<q, d>>]
      /\ Invited(p, c)' /\ Index(p, c)' = Index(p, c) /\ \A s : In(p, c, s)' <=> w.status = s
      /\ StillBut(p, c) /\ Invited(p, c)
  <2>1. Invited(p, c)
    BY DEF In
  <2>2. SlotMoved(p, c, w)
    BY <2>1, SlotMoves
  <2> QED BY <2>1, <2>2 DEF SlotMoved
<1>2. ~In(p, c, "Storing") /\ PersistRight(p, c)
  BY DEF In, EInv, SlotsRight, AllPersists
<1>3. disk[<<p, c>>] = None /\ Begun(c)
  BY <1>1, <1>2 DEF PersistRight
<1>4. AllStores'
  <2> SUFFICES ASSUME NEW t \in Tasks("Store")' PROVE StoreRight(t)'
    BY DEF AllStores
  <2>1. CASE t \in Tasks("Store")
    BY <1>1, <1>2, <2>1, MoveStore
  <2>2. CASE t = StoreTask(p, c, Index(p, c))
    <3>1. t.peer = p /\ t.chunk = c
      BY <2>2 DEF StoreTask
    <3>2. StoreOkEvent(p, c) \notin inbox'
      <4>1. StoreOkEvent(p, c).type = "StoreOk" /\ StoreOkEvent(p, c).to = p /\ StoreOkEvent(p, c).chunk = c
        BY DEF StoreOkEvent
      <4>2. StoreOkEvent(p, c) \notin Of("StoreOk")
        BY <1>2, <4>1 DEF EInv, EventsRight, AllStoreOks, StoreOkRight
      <4> QED BY <4>1, <4>2 DEF NewTypes, Of
    <3> QED BY <1>1, <1>3, <2>2, <3>1, <3>2 DEF StoreRight, StoreTask, StoreOkEvent
  <2> QED BY <2>1, <2>2 DEF Tasks
<1>5. AllStoreOks'
  <2> SUFFICES ASSUME NEW f \in Of("StoreOk")' PROVE StoreOkRight(f)'
    BY DEF AllStoreOks
  <2>1. f \in Of("StoreOk")
    BY DEF NewTypes
  <2> QED BY <1>1, <1>2, <2>1, MoveStoreOk
<1>6. AllPersists'
  <2>1. Begun(c)'
    BY <1>3, BegunKept
  <2>2. /\ persists'[<<p, c>>].recover.decoder # None => Genuine(persists'[<<p, c>>].recover.decoder)
        /\ Genuine(persists'[<<p, c>>].recover.pending)
    BY <1>1, <1>2 DEF PersistRight
  <2>3. persists'[<<p, c>>].notify # None =>
          Paired(p, c)' /\ Asked("Put", persists[<<p, c>>].notify, c)'
    <3> SUFFICES ASSUME persists[<<p, c>>].notify # None
                 PROVE  Paired(p, c)' /\ Asked("Put", w.notify, c)'
      BY <1>1 DEF Asked
    <3>1. Paired(p, c) /\ Asked("Put", w.notify, c)
      BY <1>1, <1>2 DEF PersistRight
    <3> QED BY <1>3, <3>1, PairedKept, AskedKept
  <2>4. ~In(p, c, "Recovering")' /\ ~In(p, c, "Available")'
    BY <1>1
  <2>5. PersistRight(p, c)'
    BY <2>1, <2>2, <2>3, <2>4 DEF PersistRight, Genuine
  <2> QED BY <1>1, <2>5, MovePersists
<1>7. Fewer("Load")
  BY DEF Fewer, Tasks, StoreTask
<1> QED BY <1>4, <1>5, <1>6, <1>7

(* RecoverEncode keeps EInv: it comes only to a peer that gets the chunk,  *)
(* and stores the genuine fragment.                                        *)
LEMMA RecoverEncodeStep ==
  ASSUME EInv, NEW e \in Events("RecoverEncode"), RecoverEncode(e)
  PROVE  EInv'
<1> DEFINE p == e.to
           c == e.chunk
           state == persists[<<p, c>>]
           w == [state EXCEPT !.status = "Storing", !.cancelled = TRUE]
<1>1. RecoverEncodeRight(e)
  BY DEF Events, Of, EInv, EventsRight, AllRecoverEncodes
<1>2. p \in Peers /\ c \in Chunks /\ Asked("Get", p, c) /\ Invited(p, c) /\ e.of = Index(p, c) /\ Fetched(c)
  BY <1>1, AskedFacts DEF RecoverEncodeRight, EInv, Fetched
<1>3. /\ uploads' = uploads /\ downloads' = downloads /\ pulls' = pulls /\ disk' = disk
      /\ transfers' = transfers /\ answered' = answered /\ asked' = asked /\ failed' = failed
      /\ Handle(e, {})
  BY DEF RecoverEncode, history
<1>4. NewTypes({}) /\ NoPairs
  BY <1>3, Flow, UploadsStay
<1>5. NoOffered /\ NoArrived
  BY <1>4, NoNewOffers, NoNewDownloads
<1>6. AskedRight'
  BY <1>3, AskedStays DEF EInv
<1>7. CASE state.status # "Recovering"
  <2>1. persists' = persists /\ fsTasks' = fsTasks /\ panicked' = panicked \cup {p}
    BY <1>7 DEF RecoverEncode, Panic
  <2>2. Mono
    BY <1>3, <2>1, StillWhenSame, UploadsStay DEF Mono
  <2>3. Still
    BY <2>1, StillWhenSame
  <2>4. SlotTypes'
    BY <1>2, <1>3, <2>1 DEF EInv, SlotTypes
  <2>5. AllNewEncoders' /\ AllInvites' /\ AllInviteOks' /\ AllEncodes' /\ AllOffers'
    BY <1>4, <1>5, <2>2, <2>3, QuietPut
  <2>6. /\ AllDownloads' /\ AllDecodes' /\ AllRecovers' /\ AllRecoverEncodes' /\ AllAvailables' /\ AllLoadOks'
        /\ AllTransfers'
    BY <1>3, <1>4, <1>5, <2>2, <2>3, QuietGet
  <2>7. AllStoreOks' /\ AllStores' /\ AllPulls' /\ AllLoads' /\ AllDisks'
    BY <1>3, <1>4, <2>1, <2>2, <2>3, QuietDisk, TasksStay
  <2>8. AllPersists' /\ AllFetches' /\ AllPullers' /\ AllUploads' /\ AllAnswered'
    BY <1>3, <2>1, <2>2, QuietSlots, AnsweredStays
  <2>9. FailsOnlyByOverlap'
    <3>1. Overlap(p)
      BY <1>2 DEF Overlap, Invited
    <3>2. \A q \in (panicked' \cup failed') \ (panicked \cup failed) : Overlap(q)'
      BY <1>2, <1>3, <2>1, <2>2, <3>1, OverlapKept
    <3> QED BY <2>2, <3>2, FailsKept DEF EInv, SlotTypes
  <2> QED BY <1>6, <2>4, <2>5, <2>6, <2>7, <2>8, <2>9 DEF EInv, EventsRight, WorkRight, SlotsRight
<1>8. CASE state.status = "Recovering"
  <2>1. state \in PersistStates /\ persists \in [Slots -> PersistStates \cup {None}] /\ <<p, c>> \in Slots
    BY <1>2 DEF EInv, SlotTypes, Slots, Invited
  <2>2. /\ w \in PersistStates /\ w.index = state.index /\ w.status = "Storing"
        /\ w.notify = state.notify /\ w.recover = state.recover
    BY <2>1 DEF PersistStates
  <2>3. persists' = [persists EXCEPT ![<<p, c>>].status = "Storing", ![<<p, c>>].cancelled = TRUE]
    BY <1>8 DEF RecoverEncode
  <2>4. persists' = [persists EXCEPT ![<<p, c>>] = w]
    BY <2>1, <2>3
  <2>5. fsTasks' = fsTasks \cup {StoreTask(p, c, Index(p, c))} /\ panicked' = panicked
    BY <1>2, <1>8 DEF RecoverEncode, StoreTask, Index
  <2>6. In(p, c, "Recovering") /\ w.index = Index(p, c)
    BY <1>2, <1>8, <2>2 DEF In, Index
  <2> HIDE DEF w
  <2>7. /\ persists' \in [Slots -> PersistStates \cup {None}]
        /\ \A s : In(p, c, s)' <=> w.status = s
        /\ StillBut(p, c)
        /\ ~In(p, c, "Available") \/ w.status = "Available" => Forward(p, c)
    <3>1. Invited(p, c) /\ EInv /\ p \in Peers /\ c \in Chunks
      BY <1>2
    <3>2. w \in PersistStates /\ w.index = Index(p, c) /\ PutSlot(p, c, w)
      BY <2>2, <2>4, <2>6 DEF PutSlot
    <3>3. SlotMoved(p, c, w)
      BY <3>1, <3>2, SlotMoves
    <3> QED BY <3>3 DEF SlotMoved
  <2>8. ~In(p, c, "Available") /\ ~In(p, c, "Available")'
    BY <2>2, <2>6, <2>7 DEF In
  <2>9. Mono
    BY <1>2, <1>3, <2>7, <2>8, MoveForward, UploadsStay DEF Mono
  <2>10. Closed(p, c)
    BY <1>2 DEF Closed
  <2>11. AllPersists' /\ AllStores' /\ AllStoreOks' /\ Fewer("Load")
    <3>1. PutSlot(p, c, w)
      BY <2>4 DEF PutSlot
    <3> QED BY <1>2, <1>3, <1>4, <2>2, <2>5, <2>6, <2>9, <3>1, StoringStarts
  <2>12. AllNewEncoders' /\ AllInvites'
    BY <1>2, <1>4, <2>7, <2>9, MoveInvites
  <2>13. AllInviteOks' /\ AllEncodes'
    <3>1. Of("InviteOk")' \subseteq Of("InviteOk") /\ Of("Encode")' \subseteq Of("Encode")
      BY <1>4 DEF NewTypes
    <3>2. ASSUME NEW f \in Of("InviteOk") PROVE InviteOkRight(f)'
      BY <1>2, <1>4, <1>5, <2>7, <2>9, <2>10, MoveInviteOk
    <3>3. ASSUME NEW f \in Of("Encode") PROVE EncodeRight(f)'
      BY <1>2, <1>5, <2>7, <2>9, <2>10, MoveEncode
    <3> QED BY <3>1, <3>2, <3>3 DEF AllInviteOks, AllEncodes
  <2>14. AllOffers' /\ AllDownloads' /\ AllTransfers'
    <3>1. Of("RecvOffer")' \subseteq Of("RecvOffer") /\ Of("DownloadOk")' \subseteq Of("DownloadOk")
      BY <1>4 DEF NewTypes
    <3>2. ASSUME NEW f \in Of("RecvOffer") PROVE OfferRight(f)'
      BY <1>2, <2>7, <2>9, MoveOffer
    <3>3. ASSUME NEW f \in Of("DownloadOk") PROVE DownloadRight(f)'
      BY <1>2, <2>7, <2>9, MoveDownload
    <3>4. ASSUME NEW t \in transfers PROVE TransferRight(t)'
      BY <1>2, <1>5, <2>7, <2>9, MoveTransfer
    <3> QED BY <1>3, <3>1, <3>2, <3>3, <3>4 DEF AllOffers, AllDownloads, AllTransfers
  <2>15. AllPulls' /\ AllLoads' /\ AllDisks'
    BY <1>2, <1>3, <1>4, <2>7, <2>8, <2>9, <2>11, MovePulls
  <2>16. AllDecodes' /\ AllRecovers' /\ AllRecoverEncodes' /\ AllAvailables' /\ AllLoadOks'
    BY <1>4, <2>9, RestKept
  <2>17. AllFetches' /\ AllPullers' /\ AllUploads' /\ AllAnswered'
    BY <1>3, <2>9, QuietSlots, AnsweredStays
  <2>18. FailsOnlyByOverlap'
    BY <1>3, <2>5, <2>9, FailsStay
  <2>19. SlotTypes'
    BY <1>3, <2>5, <2>7 DEF EInv, SlotTypes
  <2> QED BY <1>6, <2>11, <2>12, <2>13, <2>14, <2>15, <2>16, <2>17, <2>18, <2>19
          DEF EInv, EventsRight, WorkRight, SlotsRight
<1> QED BY <1>7, <1>8

(* StoreOk keeps EInv: the peer becomes Available with its fragment on the *)
(* disk, and reports to the uploader it is pending at.                     *)
LEMMA StoreOkStep ==
  ASSUME EInv, NEW e \in Events("StoreOk"), StoreOk(e)
  PROVE  EInv'
<1> DEFINE p == e.to
           c == e.chunk
           U == {"FragmentAvailable"}
           state == persists[<<p, c>>]
           new == [state EXCEPT !.status = "Available", !.notify = None]
<1>1. e \in Of("StoreOk") /\ StoreOkRight(e) /\ e.type = "StoreOk"
  BY DEF Events, Of, EInv, EventsRight, AllStoreOks
<1>2. /\ p \in Peers /\ c \in Chunks /\ e = StoreOkEvent(p, c) /\ In(p, c, "Storing") /\ Invited(p, c)
      /\ disk[<<p, c>>] # None
  BY <1>1 DEF StoreOkRight, In
<1>3. /\ uploads' = uploads /\ downloads' = downloads /\ pulls' = pulls /\ disk' = disk /\ fsTasks' = fsTasks
      /\ transfers' = transfers /\ answered' = answered /\ asked' = asked
      /\ panicked' = panicked /\ failed' = failed
      /\ persists' = [persists EXCEPT ![<<p, c>>].status = "Available", ![<<p, c>>].notify = None]
  BY DEF StoreOk, history, outcomes, storage
<1>4. PICK out : /\ Handle(e, out)
                 /\ out = IF state.notify = None THEN {} ELSE {Available(p, c, state.notify)}
  BY DEF StoreOk
<1>5. state \in PersistStates /\ persists \in [Slots -> PersistStates \cup {None}] /\ <<p, c>> \in Slots
  BY <1>2 DEF EInv, SlotTypes, Slots, Invited
<1>6. PICK w \in PersistStates :
        /\ w.index = state.index /\ w.status = "Available" /\ w.notify = None /\ w.recover = state.recover
        /\ persists' = [persists EXCEPT ![<<p, c>>] = w]
  <2>1. /\ new \in PersistStates /\ new.index = state.index /\ new.status = "Available"
        /\ new.notify = None /\ new.recover = state.recover
    BY <1>5 DEF PersistStates
  <2>2. persists' = [persists EXCEPT ![<<p, c>>] = new]
    BY <1>3, <1>5
  <2> HIDE DEF new
  <2> QED BY <2>1, <2>2
<1>7. w.index = Index(p, c)
  BY <1>6 DEF Index
<1>8. /\ persists'[<<p, c>>] = w
      /\ \A q \in Peers, d \in Chunks : <<q, d>> # <<p, c>> => persists'[<<q, d>>] = persists[<<q, d>>]
      /\ persists' \in [Slots -> PersistStates \cup {None}]
      /\ \A s : In(p, c, s)' <=> w.status = s
      /\ StillBut(p, c) /\ Forward(p, c)
  <2>1. p \in Peers /\ c \in Chunks /\ Invited(p, c) /\ EInv
    BY <1>2
  <2>2. w \in PersistStates /\ w.index = Index(p, c) /\ PutSlot(p, c, w)
    BY <1>6, <1>7 DEF PutSlot
  <2>3. SlotMoved(p, c, w)
    BY <2>1, <2>2, SlotMoves
  <2>4. StillBut(p, c) /\ persists' \in [Slots -> PersistStates \cup {None}]
    BY <2>3 DEF SlotMoved
  <2>5. /\ persists'[<<p, c>>] = w
        /\ \A q \in Peers, d \in Chunks : <<q, d>> # <<p, c>> => persists'[<<q, d>>] = persists[<<q, d>>]
    BY <2>3 DEF SlotMoved
  <2>6. Invited(p, c)' /\ Index(p, c)' = Index(p, c)
    BY <2>1, <2>2, <2>5, EntropyNoneAssumption DEF Invited, Index
  <2>7. \A s : In(p, c, s)' <=> w.status = s
    BY <2>5, <2>6 DEF In
  <2>8. Forward(p, c)
    BY <1>6, <2>5, <2>6 DEF Forward
  <2> QED BY <2>3, <2>4, <2>5, <2>7, <2>8
<1>9. Mono
  BY <1>2, <1>3, <1>8, MoveForward, UploadsStay DEF Mono
<1>10. /\ NewTypes(U) /\ e \notin inbox' /\ "FragmentAvailable" \in U
       /\ \A type : Of(type)' \subseteq Of(type) \cup out
  <2>1. \A o \in out : o.type \in U
    BY <1>4 DEF Available
  <2> QED BY <1>1, <1>4, <2>1, Flow
<1>11. NoOffered /\ NoArrived /\ NoPairs
  BY <1>3, <1>10, NoNewOffers, NoNewDownloads, UploadsStay
<1>12. ~Waiting(p, c) /\ ~Taken(p, c) /\ Closed(p, c)
  BY <1>2 DEF In, Waiting, Taken, Closed
<1>13. PersistRight(p, c) /\ Begun(c)
  BY <1>2 DEF EInv, SlotsRight, AllPersists, PersistRight
<1>14. AllNewEncoders' /\ AllInvites'
  BY <1>2, <1>8, <1>9, <1>10, MoveInvites
<1>15. AllInviteOks' /\ AllEncodes'
  <2>1. Of("InviteOk")' \subseteq Of("InviteOk") /\ Of("Encode")' \subseteq Of("Encode")
    BY <1>10 DEF NewTypes
  <2>2. ASSUME NEW f \in Of("InviteOk") PROVE InviteOkRight(f)'
    BY <1>2, <1>8, <1>9, <1>11, <1>12, MoveInviteOk
  <2>3. ASSUME NEW f \in Of("Encode") PROVE EncodeRight(f)'
    BY <1>2, <1>8, <1>9, <1>11, <1>12, MoveEncode
  <2> QED BY <2>1, <2>2, <2>3 DEF AllInviteOks, AllEncodes
<1>16. AllOffers' /\ AllDownloads' /\ AllTransfers'
  <2>1. Of("RecvOffer")' \subseteq Of("RecvOffer") /\ Of("DownloadOk")' \subseteq Of("DownloadOk")
    BY <1>10 DEF NewTypes
  <2>2. ASSUME NEW f \in Of("RecvOffer") PROVE OfferRight(f)'
    BY <1>2, <1>8, <1>9, <1>12, MoveOffer
  <2>3. ASSUME NEW f \in Of("DownloadOk") PROVE DownloadRight(f)'
    BY <1>2, <1>8, <1>9, <1>12, MoveDownload
  <2>4. ASSUME NEW t \in transfers PROVE TransferRight(t)'
    BY <1>2, <1>8, <1>9, <1>11, <1>12, MoveTransfer
  <2> QED BY <1>3, <2>1, <2>2, <2>3, <2>4 DEF AllOffers, AllDownloads, AllTransfers
<1>17. AllStores' /\ AllStoreOks'
  <2>1. Tasks("Store")' = Tasks("Store") /\ Of("StoreOk")' \subseteq Of("StoreOk")
    BY <1>3, <1>10 DEF Tasks, NewTypes
  <2>2. ASSUME NEW t \in Tasks("Store") PROVE StoreRight(t)'
    <3>1. StoreOkEvent(p, c) \in inbox
      BY <1>1, <1>2 DEF Of
    <3> QED BY <1>2, <1>3, <1>8, <1>9, <1>10, <3>1, MoveStore
  <2>3. ASSUME NEW f \in Of("StoreOk")' PROVE StoreOkRight(f)'
    <3>1. f \in Of("StoreOk") /\ f # e
      BY <1>10, <2>1 DEF Of
    <3>2. f = StoreOkEvent(f.to, f.chunk)
      BY <3>1 DEF EInv, EventsRight, AllStoreOks, StoreOkRight
    <3>3. <<f.to, f.chunk>> # <<p, c>>
      BY <1>2, <3>1, <3>2
    <3> QED BY <1>2, <1>3, <1>8, <1>9, <3>1, <3>3, MoveStoreOk
  <2> QED BY <2>1, <2>2, <2>3 DEF AllStores, AllStoreOks
<1>18. AllAvailables'
  <2> SUFFICES ASSUME NEW f \in Of("FragmentAvailable")' PROVE AvailableRight(f)'
    BY DEF AllAvailables
  <2>1. CASE f \in Of("FragmentAvailable")
    BY <1>9, <2>1, AvailableKept DEF EInv, EventsRight, AllAvailables
  <2>2. CASE f \in out
    <3>1. state.notify # None /\ f.to = state.notify /\ f.chunk = c /\ f.from = p
      BY <1>4, <2>2 DEF Available
    <3>2. Paired(p, c) /\ Asked("Put", f.to, c)
      BY <1>2, <1>13, <3>1 DEF PersistRight
    <3>3. Paired(p, c)' /\ Asked("Put", f.to, c)'
      BY <1>2, <1>9, <1>13, <3>2, PairedKept, AskedKept
    <3>4. In(p, c, "Available")'
      BY <1>6, <1>8
    <3> QED BY <1>2, <3>1, <3>3, <3>4 DEF AvailableRight
  <2> QED BY <1>10, <2>1, <2>2
<1>19. AllPersists'
  <2>1. Begun(c)'
    BY <1>9, <1>13, BegunKept
  <2>2. /\ persists'[<<p, c>>].recover.decoder # None => Genuine(persists'[<<p, c>>].recover.decoder)
        /\ Genuine(persists'[<<p, c>>].recover.pending)
    BY <1>2, <1>6, <1>8, <1>13 DEF PersistRight
  <2>3. persists'[<<p, c>>].notify = None /\ ~In(p, c, "Recovering")'
    BY <1>6, <1>8
  <2>4. PersistRight(p, c)'
    BY <1>2, <1>3, <2>1, <2>2, <2>3 DEF PersistRight, Genuine
  <2>5. p \in Peers /\ c \in Chunks /\ disk' = disk
    BY <1>2, <1>3
  <2> QED BY <1>8, <1>9, <2>4, <2>5, MovePersists
<1>20. AskedRight'
  BY <1>3, AskedStays DEF EInv
<1>21. SlotTypes'
  BY <1>3, <1>8 DEF EInv, SlotTypes
<1> HIDE DEF U
<1>22. AllPulls' /\ AllLoads' /\ AllDisks'
  BY <1>2, <1>3, <1>8, <1>9, <1>10, MovePulls, TasksStay DEF U
<1>23. AllDecodes' /\ AllRecovers' /\ AllRecoverEncodes' /\ AllLoadOks'
  BY <1>9, <1>10, RestKept DEF U
<1>24. AllFetches' /\ AllPullers' /\ AllUploads' /\ AllAnswered'
  BY <1>3, <1>9, QuietSlots, AnsweredStays
<1>25. FailsOnlyByOverlap'
  BY <1>3, <1>9, FailsStay
<1> QED BY <1>14, <1>15, <1>16, <1>17, <1>18, <1>19, <1>20, <1>21, <1>22, <1>23, <1>24, <1>25
        DEF EInv, EventsRight, WorkRight, SlotsRight

(* The peer's own fragment arrives: it is stored. *)
LEMMA OwnDownload ==
  ASSUME EInv, NEW e \in Of("DownloadOk"), In(e.to, e.chunk, "Recovering"), e.index = Index(e.to, e.chunk),
         NEW p, NEW c, p = e.to, c = e.chunk,
         UNCHANGED <<uploads, downloads, pulls, disk, transfers, panicked, failed, answered, asked>>,
         Handle(e, {}), persists' = [persists EXCEPT ![<<p, c>>].status = "Storing"],
         fsTasks' = fsTasks \cup {StoreTask(p, c, Index(p, c))}
  PROVE  EInv'
<1> DEFINE state == persists[<<p, c>>]
           new == [state EXCEPT !.status = "Storing"]
<1>1. DownloadRight(e) /\ e.type = "DownloadOk"
  BY DEF Of, EInv, EventsRight, AllDownloads
<1>2. /\ p \in Peers /\ c \in Chunks /\ e = DownloadEvent(p, c, e.index)
      /\ In(p, c, "Recovering") /\ Invited(p, c) /\ e.index = Index(p, c)
      /\ Asked("Get", p, c) \/ Taken(p, c)
  BY <1>1 DEF DownloadRight, In
<1>3. NewTypes({}) /\ e \notin inbox' /\ NoPairs
  BY Flow, UploadsStay
<1>4. NoOffered /\ NoArrived
  BY <1>3, NoNewOffers, NoNewDownloads
<1>5. state \in PersistStates /\ persists \in [Slots -> PersistStates \cup {None}] /\ <<p, c>> \in Slots
  BY <1>2 DEF EInv, SlotTypes, Slots, Invited
<1>6. PICK w \in PersistStates :
        /\ w.index = Index(p, c) /\ w.status = "Storing" /\ w.notify = persists[<<p, c>>].notify
        /\ w.recover = persists[<<p, c>>].recover
        /\ persists' = [persists EXCEPT ![<<p, c>>] = w]
  <2>1. /\ new \in PersistStates /\ new.index = state.index /\ new.status = "Storing"
        /\ new.notify = state.notify /\ new.recover = state.recover
    BY <1>5 DEF PersistStates
  <2>2. persists' = [persists EXCEPT ![<<p, c>>] = new]
    BY <1>5
  <2> HIDE DEF new
  <2> QED BY <2>1, <2>2 DEF Index
<1> HIDE DEF state, new
<1>7. /\ persists' \in [Slots -> PersistStates \cup {None}]
      /\ \A s : In(p, c, s)' <=> w.status = s
      /\ StillBut(p, c)
      /\ Forward(p, c)
  <2>0. /\ persists'[<<p, c>>] = w
        /\ \A q \in Peers, d \in Chunks : <<q, d>> # <<p, c>> => persists'[<<q, d>>] = persists[<<q, d>>]
        /\ persists' \in [Slots -> PersistStates \cup {None}]
    BY <1>5, <1>6 DEF Slots
  <2>1. StillBut(p, c) /\ persists' \in [Slots -> PersistStates \cup {None}]
    BY <2>0 DEF StillBut, Same, Invited, Index
  <2>2. persists'[<<p, c>>] = w
    BY <2>0
  <2>3. Invited(p, c)' /\ Index(p, c)' = Index(p, c)
    BY <1>6, <2>2, EntropyNoneAssumption DEF Invited, Index
  <2>4. \A s : In(p, c, s)' <=> w.status = s
    BY <2>2, <2>3 DEF In
  <2>5. Forward(p, c)
    BY <1>2, <2>3 DEF Forward, In
  <2> QED BY <2>1, <2>4, <2>5
<1>8. ~In(p, c, "Available") /\ ~In(p, c, "Available")'
  BY <1>2, <1>6, <1>7 DEF In
<1>9. Mono
  BY <1>2, <1>7, <1>8, MoveForward, UploadsStay DEF Mono
<1>10. Asked("Get", p, c) \/ ~Waiting(p, c)
  BY <1>2 DEF Waiting, Taken
<1>11. Closed(p, c) /\ Arrived(p, c)
  BY <1>2, <1>10 DEF Closed, Fetched, Arrived
<1>12. AllPersists' /\ AllStores' /\ AllStoreOks' /\ Fewer("Load")
  <2>1. "StoreOk" \notin {} /\ NewTypes({})
    BY <1>3
  <2>2. EInv /\ Mono /\ p \in Peers /\ c \in Chunks /\ In(p, c, "Recovering") /\ disk' = disk
    BY <1>2, <1>9
  <2>3. PutSlot(p, c, w)
    BY <1>6 DEF PutSlot
  <2> QED BY <1>6, <2>1, <2>2, <2>3, StoringStarts
<1>13. AllNewEncoders' /\ AllInvites'
  BY <1>2, <1>3, <1>7, <1>9, MoveInvites
<1>14. AllInviteOks' /\ AllEncodes'
  <2>1. Of("InviteOk")' \subseteq Of("InviteOk") /\ Of("Encode")' \subseteq Of("Encode")
    BY <1>3 DEF NewTypes
  <2>2. ASSUME NEW f \in Of("InviteOk") PROVE InviteOkRight(f)'
    BY <1>2, <1>3, <1>4, <1>7, <1>9, <1>11, MoveInviteOk
  <2>3. ASSUME NEW f \in Of("Encode") PROVE EncodeRight(f)'
    BY <1>2, <1>4, <1>7, <1>9, <1>11, MoveEncode
  <2> QED BY <2>1, <2>2, <2>3 DEF AllInviteOks, AllEncodes
<1>15. AllOffers' /\ AllTransfers'
  <2>1. Of("RecvOffer")' \subseteq Of("RecvOffer")
    BY <1>3 DEF NewTypes
  <2>2. ASSUME NEW f \in Of("RecvOffer") PROVE OfferRight(f)'
    BY <1>2, <1>7, <1>9, <1>10, MoveOffer
  <2>3. ASSUME NEW t \in transfers PROVE TransferRight(t)'
    BY <1>2, <1>4, <1>7, <1>9, <1>11, MoveTransfer
  <2> QED BY <2>1, <2>2, <2>3 DEF AllOffers, AllTransfers
<1>16. AllDownloads'
  <2> SUFFICES ASSUME NEW f \in Of("DownloadOk")' PROVE DownloadRight(f)'
    BY DEF AllDownloads
  <2>1. f \in Of("DownloadOk") /\ f # e /\ DownloadRight(f)
    BY <1>3 DEF NewTypes, Of, EInv, EventsRight, AllDownloads
  <2>2. Asked("Get", p, c) \/ <<f.to, f.chunk>> # <<p, c>>
    BY <1>2, <2>1 DEF DownloadRight
  <2> QED BY <1>2, <1>7, <1>9, <2>1, <2>2, MoveDownload
<1>17. AllPulls' /\ AllLoads' /\ AllDisks'
  BY <1>2, <1>3, <1>7, <1>8, <1>9, <1>12, MovePulls
<1>18. AllDecodes' /\ AllRecovers' /\ AllRecoverEncodes' /\ AllAvailables' /\ AllLoadOks'
  BY <1>3, <1>9, RestKept
<1>19. AllFetches' /\ AllPullers' /\ AllUploads' /\ AllAnswered'
  BY <1>9, QuietSlots, AnsweredStays
<1>20. FailsOnlyByOverlap'
  BY <1>9, FailsStay
<1>21. SlotTypes'
  BY <1>7 DEF EInv, SlotTypes
<1>22. AskedRight'
  BY AskedStays DEF EInv
<1> QED BY <1>12, <1>13, <1>14, <1>15, <1>16, <1>17, <1>18, <1>19, <1>20, <1>21, <1>22
        DEF EInv, EventsRight, WorkRight, SlotsRight

(* A download that is no fragment of the peer's own goes to the recovery.  *)
LEMMA OtherDownload ==
  ASSUME EInv, NEW e, NEW out, NEW p \in Peers, NEW c \in Chunks, NEW own, Handle(e, out),
         Replies(out, p, c, own),
         out # {} => Asked("Get", p, c) /\ (own # None => Invited(p, c) /\ own = Index(p, c)),
         UNCHANGED <<uploads, pulls, disk, fsTasks, transfers, panicked, failed, answered, asked>>,
         Still, persists' \in [Slots -> PersistStates \cup {None}], Mono => AllPersists',
         downloads' \in [Slots -> RecoverStates \cup {None}], Mono => AllFetches'
  PROVE  EInv'
<1> DEFINE U == {"Decode", "Recover", "RecoverEncode"}
<1>1. Mono
  BY StillForward, UploadsStay DEF Mono
<1>2. NewTypes(U)
  BY RepliesFlow
<1>3. AllDecodes' /\ AllRecovers' /\ AllRecoverEncodes'
  <2>1. CASE out = {}
    <3>1. NewTypes({})
      BY <2>1 DEF Handle, NewTypes, Of
    <3> QED BY <1>1, <3>1, RestKept
  <2>2. CASE out # {}
    BY <1>1, <2>2, RepliesRight
  <2> QED BY <2>1, <2>2
<1>4. AskedRight'
  BY AskedStays DEF EInv
<1>5. SlotTypes'
  BY DEF EInv, SlotTypes
<1>6. AllNewEncoders' /\ AllInvites' /\ AllInviteOks' /\ AllEncodes' /\ AllOffers'
  BY <1>1, <1>2, QuietPut, NoNewOffers, UploadsStay
<1>7. AllDownloads' /\ AllAvailables' /\ AllLoadOks' /\ AllTransfers'
  BY <1>1, <1>2, QuietGet, NoNewDownloads
<1>8. AllStoreOks' /\ AllStores' /\ AllPulls' /\ AllLoads' /\ AllDisks'
  BY <1>1, <1>2, QuietDisk, TasksStay
<1>9. AllPullers' /\ AllUploads' /\ AllAnswered'
  BY <1>1, QuietSlots, AnsweredStays
<1>10. FailsOnlyByOverlap'
  BY <1>1, FailsStay
<1> QED BY <1>1, <1>3, <1>4, <1>5, <1>6, <1>7, <1>8, <1>9, <1>10 DEF EInv, EventsRight, WorkRight, SlotsRight

(* DownloadOk keeps EInv. *)
LEMMA DownloadOkStep ==
  ASSUME EInv, NEW e \in Events("DownloadOk"), DownloadOk(e)
  PROVE  EInv'
<1> DEFINE p == e.to
           c == e.chunk
           f == [index |-> e.index, of |-> e.of]
           state == persists[<<p, c>>]
           fetching == downloads[<<p, c>>] # None
           recovering == ~fetching /\ state # None /\ state.status = "Recovering"
           own == recovering /\ e.index = state.index
           foreign == recovering /\ ~own /\ e.index \notin state.received
<1>1. e \in Of("DownloadOk") /\ DownloadRight(e)
  BY DEF Events, Of, EInv, EventsRight, AllDownloads
<1>2. /\ p \in Peers /\ c \in Chunks /\ e.index \in Indices /\ e.of = e.index
      /\ Asked("Get", p, c) \/ (Taken(p, c) /\ e.index = Index(p, c))
  BY <1>1 DEF DownloadRight, DownloadEvent
<1>3. f \in Fragments /\ f.index = f.of
  BY <1>2 DEF Fragments
<1>4. UNCHANGED <<uploads, pulls, disk, transfers, panicked, failed, answered, asked>>
  BY DEF DownloadOk, history, outcomes
<1>5. persists \in [Slots -> PersistStates \cup {None}] /\ <<p, c>> \in Slots
      /\ downloads \in [Slots -> RecoverStates \cup {None}]
  BY <1>2 DEF EInv, SlotTypes, Slots
<1>6. PICK out :
        /\ out \in IF fetching THEN SubmitEvents(p, c, downloads[<<p, c>>], f, None)
                   ELSE IF foreign THEN SubmitEvents(p, c, state.recover, f, state.index) ELSE {{}}
        /\ Handle(e, out)
        /\ downloads' = IF fetching THEN [downloads EXCEPT ![<<p, c>>] = SubmitDecode(@, f)] ELSE downloads
        /\ persists' =
              IF own THEN [persists EXCEPT ![<<p, c>>].status = "Storing"]
              ELSE IF foreign
              THEN [persists EXCEPT ![<<p, c>>].received = @ \cup {e.index},
                                    ![<<p, c>>].recover = SubmitDecode(@, f)]
              ELSE persists
        /\ fsTasks' = IF own THEN fsTasks \cup {[op |-> "Store", peer |-> p, chunk |-> c, fragment |-> f]}
                      ELSE fsTasks
  BY DEF DownloadOk
<1> HIDE DEF f
<1>7. CASE fetching
  <2> DEFINE r == SubmitDecode(downloads[<<p, c>>], f)
  <2>1. ~own /\ ~foreign
    BY <1>7
  <2>2. /\ out \in SubmitEvents(p, c, downloads[<<p, c>>], f, None)
        /\ downloads' = [downloads EXCEPT ![<<p, c>>] = r]
        /\ persists' = persists /\ fsTasks' = fsTasks
    BY <1>6, <1>7, <2>1
  <2>3. GenuineState(downloads[<<p, c>>]) /\ Asked("Get", p, c)
    <3>1. DownloadsRight(p, c)
      BY <1>2 DEF EInv, SlotsRight, AllFetches
    <3> QED BY <1>2, <1>7, <3>1, RecoverStatesRight DEF DownloadsRight
  <2>4. GenuineState(r) /\ Replies(out, p, c, None)
    BY <1>3, <2>2, <2>3, SubmitRight
  <2> HIDE DEF r, own, foreign, recovering
  <2>5. AnsweredSame("Get") /\ Still
    BY <1>4, <2>2, AnsweredStays, StillWhenSame
  <2>6. ASSUME Mono PROVE AllFetches' /\ AllPersists'
    BY <1>2, <1>4, <1>7, <2>2, <2>4, <2>5, <2>6, FetchesChanged, QuietSlots
  <2>7. downloads' \in [Slots -> RecoverStates \cup {None}]
    BY <1>5, <2>2, <2>4 DEF GenuineState
  <2> QED BY <1>2, <1>4, <1>5, <1>6, <2>2, <2>3, <2>4, <2>5, <2>6, <2>7, OtherDownload
<1>8. CASE own
  <2>1. /\ ~fetching /\ ~foreign /\ state # None /\ state.status = "Recovering" /\ e.index = state.index
    BY <1>8
  <2>2. In(p, c, "Recovering") /\ e.index = Index(p, c)
    BY <2>1 DEF In, Invited, Index
  <2>3. /\ out = {} /\ downloads' = downloads
        /\ persists' = [persists EXCEPT ![<<p, c>>].status = "Storing"]
        /\ fsTasks' = fsTasks \cup {[op |-> "Store", peer |-> p, chunk |-> c, fragment |-> f]}
    BY <1>6, <1>8, <2>1
  <2>4. [op |-> "Store", peer |-> p, chunk |-> c, fragment |-> f] = StoreTask(p, c, Index(p, c))
    BY <1>2, <2>2 DEF StoreTask, f
  <2> HIDE DEF own, foreign, recovering
  <2> QED BY <1>1, <1>4, <1>6, <2>2, <2>3, <2>4, OwnDownload
<1>9. CASE ~fetching /\ foreign
  <2> DEFINE r == SubmitDecode(state.recover, f)
             new == [state EXCEPT !.received = @ \cup {e.index}, !.recover = r]
  <2>1. /\ ~own /\ state # None /\ state.status = "Recovering" /\ e.index # state.index
    BY <1>9
  <2>2. /\ out \in SubmitEvents(p, c, state.recover, f, state.index) /\ downloads' = downloads
        /\ persists' = [persists EXCEPT ![<<p, c>>].received = @ \cup {e.index},
                                        ![<<p, c>>].recover = SubmitDecode(@, f)]
        /\ fsTasks' = fsTasks
    BY <1>6, <1>9, <2>1
  <2>3. Invited(p, c) /\ state.index = Index(p, c)
    BY <2>1 DEF Invited, Index
  <2>4. Asked("Get", p, c)
    BY <1>2, <2>1, <2>3
  <2>5. state \in PersistStates /\ GenuineState(state.recover)
    BY <1>2, <2>3, RecoverStatesRight
  <2>6. GenuineState(r) /\ Replies(out, p, c, state.index)
    BY <1>3, <2>2, <2>5, SubmitRight
  <2>7. persists' = [persists EXCEPT ![<<p, c>>] = new]
    BY <1>5, <2>2, <2>5 DEF PersistStates
  <2> HIDE DEF r, own, foreign, recovering
  <2>8. new \in PersistStates /\ new.recover = r /\ new.index = state.index
        /\ new.status = state.status /\ new.notify = state.notify
    BY <1>2, <2>5, <2>6 DEF PersistStates, GenuineState
  <2> HIDE DEF new
  <2>9. persists'[<<p, c>>] = new /\ new # None
    BY <1>5, <2>7, <2>8, EntropyNoneAssumption
  <2>10. Same(p, c)
    BY <2>3, <2>8, <2>9 DEF Same, Invited, Index
  <2>11. StillBut(p, c)
    BY <1>5, <2>7 DEF StillBut, Same, Invited, Index, Slots
  <2>12. Still
    BY <2>10, <2>11, StillWhenElsewhere
  <2>13. persists' \in [Slots -> PersistStates \cup {None}]
    BY <1>5, <2>7, <2>8
  <2>14. GenuineState(new.recover)
    BY <2>6, <2>8
  <2>15. ASSUME Mono PROVE AllPersists'
    BY <1>2, <1>4, <2>3, <2>7, <2>8, <2>10, <2>14, <2>15, PersistsChanged
  <2>16. ASSUME Mono PROVE AllFetches'
    BY <1>4, <2>2, <2>16, QuietSlots, AnsweredStays
  <2> QED BY <1>2, <1>4, <1>5, <1>6, <2>2, <2>3, <2>4, <2>6, <2>12, <2>13, <2>15, <2>16, OtherDownload
<1>10. CASE ~fetching /\ ~own /\ ~foreign
  <2>1. out = {} /\ downloads' = downloads /\ persists' = persists /\ fsTasks' = fsTasks
    BY <1>6, <1>10
  <2> HIDE DEF own, foreign, recovering
  <2>2. Still /\ Replies(out, p, c, None)
    BY <2>1, StillWhenSame DEF Replies
  <2>3. ASSUME Mono PROVE AllPersists' /\ AllFetches'
    BY <1>4, <2>1, <2>3, QuietSlots, AnsweredStays
  <2> QED BY <1>2, <1>4, <1>5, <1>6, <2>1, <2>2, <2>3, OtherDownload
<1> QED BY <1>7, <1>8, <1>9, <1>10

-----------------------------------------------------------------------------
(* Before any call EInv holds. *)
LEMMA InitRight == EntropyInit => EInv
<1> SUFFICES ASSUME EntropyInit PROVE EInv
  OBVIOUS
<1>1. /\ inbox = {} /\ fsTasks = {} /\ transfers = {} /\ asked = {} /\ answered = {}
      /\ panicked = {} /\ failed = {}
  BY DEF EntropyInit
<1>2. /\ uploads = [x \in Slots |-> None] /\ downloads = [x \in Slots |-> None]
      /\ persists = [x \in Slots |-> None] /\ disk = [x \in Slots |-> None] /\ pulls = [x \in Slots |-> {}]
  BY DEF EntropyInit
<1>3. \A q \in Peers, c \in Chunks :
        /\ uploads[<<q, c>>] = None /\ downloads[<<q, c>>] = None /\ persists[<<q, c>>] = None
        /\ disk[<<q, c>>] = None /\ pulls[<<q, c>>] = {}
  BY <1>2 DEF Slots
<1>4. SlotTypes
  BY <1>1, <1>2 DEF SlotTypes
<1>5. \A type : Of(type) = {}
  BY <1>1 DEF Of
<1>6. EventsRight
  BY <1>5 DEF EventsRight, AllNewEncoders, AllInvites, AllInviteOks, AllEncodes, AllOffers, AllDownloads,
              AllDecodes, AllRecovers, AllRecoverEncodes, AllStoreOks, AllAvailables, AllPulls, AllLoadOks
<1>7. WorkRight
  BY <1>1 DEF WorkRight, AllTransfers, AllStores, AllLoads, Tasks
<1>8. SlotsRight
  BY <1>3 DEF SlotsRight, AllPersists, AllDisks, AllUploads, AllFetches, AllPullers,
              PersistRight, DiskRight, UploadRight, DownloadsRight, PullsRight, Invited
<1>9. AskedRight /\ AllAnswered /\ FailsOnlyByOverlap
  BY <1>1 DEF AskedRight, AllAnswered, FailsOnlyByOverlap
<1> QED BY <1>4, <1>6, <1>7, <1>8, <1>9 DEF EInv

(* It holds after a step of others. *)
LEMMA StutterRight ==
  ASSUME EInv, UNCHANGED entropyVars
  PROVE  EInv'
<1> DEFINE U == {}
<1>1. /\ inbox' = inbox /\ uploads' = uploads /\ downloads' = downloads /\ persists' = persists
      /\ pulls' = pulls /\ disk' = disk /\ fsTasks' = fsTasks /\ transfers' = transfers
      /\ answered' = answered /\ asked' = asked /\ panicked' = panicked /\ failed' = failed
  BY DEF entropyVars
<1>2. Still /\ Mono
  BY <1>1, StillWhenSame, UploadsStay DEF Mono
<1>3. NewTypes(U)
  BY <1>1 DEF NewTypes, Of
<1>4. NoOffered /\ NoArrived /\ NoPairs
  BY <1>1, <1>3, NoNewOffers, NoNewDownloads, UploadsStay
<1>5. AllNewEncoders' /\ AllInvites' /\ AllInviteOks' /\ AllEncodes' /\ AllOffers'
  BY <1>2, <1>3, <1>4, QuietPut
<1>6. AllDownloads' /\ AllAvailables' /\ AllLoadOks' /\ AllTransfers'
  BY <1>1, <1>2, <1>3, <1>4, QuietGet
<1>7. AllDecodes' /\ AllRecovers' /\ AllRecoverEncodes'
  BY <1>2, <1>3, RestKept
<1>8. AllStoreOks' /\ AllStores' /\ AllPulls' /\ AllLoads' /\ AllDisks'
  BY <1>1, <1>2, <1>3, QuietDisk, TasksStay
<1>9. AllPersists' /\ AllUploads' /\ AllFetches' /\ AllPullers' /\ AllAnswered'
  BY <1>1, <1>2, QuietSlots, AnsweredStays
<1>10. FailsOnlyByOverlap' /\ SlotTypes' /\ AskedRight'
  BY <1>1, <1>2, FailsStay, AskedStays DEF EInv, SlotTypes
<1> QED BY <1>5, <1>6, <1>7, <1>8, <1>9, <1>10 DEF EInv, EventsRight, WorkRight, SlotsRight

(* It holds after every handler. *)
LEMMA EventRight == ASSUME EInv, Awaited, Event PROVE EInv'
<1>1. CASE \E e \in Events("NewEncoder") : NewEncoder(e)
  BY <1>1, NewEncoderStep
<1>2. CASE \E e \in Events("Invite") : RecvInvite(e)
  BY <1>2, InviteStep
<1>3. CASE \E e \in Events("InviteOk") : RecvInviteOk(e)
  BY <1>3, InviteOkStep
<1>4. CASE \E e \in Events("Encode") : Encode(e)
  BY <1>4, EncodeStep
<1>5. CASE \E e \in Events("RecvOffer") : RecvOffer(e)
  BY <1>5, RecvOfferStep
<1>6. CASE \E e \in Events("DownloadOk") : DownloadOk(e)
  BY <1>6, DownloadOkStep
<1>7. CASE \E e \in Events("Decode") : Decode(e)
  BY <1>7, DecodeStep
<1>8. CASE \E e \in Events("RecoverEncode") : RecoverEncode(e)
  BY <1>8, RecoverEncodeStep
<1>9. CASE \E e \in Events("StoreOk") : StoreOk(e)
  BY <1>9, StoreOkStep
<1>10. CASE \E e \in Events("FragmentAvailable") : RecvFragmentAvailable(e)
  BY <1>10, FragmentAvailableStep
<1>11. CASE \E e \in Events("Pull") : RecvPull(e)
  BY <1>11, PullStep
<1>12. CASE \E e \in Events("LoadOk") : LoadOk(e)
  BY <1>12, LoadOkStep
<1>13. CASE \E e \in Events("Recover") : Recover(e)
  BY <1>13, RecoverStep
<1> QED BY <1>1, <1>2, <1>3, <1>4, <1>5, <1>6, <1>7, <1>8, <1>9, <1>10, <1>11, <1>12, <1>13 DEF Event

-----------------------------------------------------------------------------
(* No encoder is new, and no answer of the worker that Awaited is about. *)
EncodersStay ==
  \A q \in Peers, c \in Chunks : uploads'[<<q, c>>] # None /\ uploads'[<<q, c>>].encoder =>
                                   uploads[<<q, c>>] # None /\ uploads[<<q, c>>].encoder
NoAnswers == Of("Decode")' \subseteq Of("Decode") /\ Of("NewEncoder")' \subseteq Of("NewEncoder")

(* The worker answers peers about their own calls. *)
LEMMA AnswersPlaced ==
  ASSUME EInv
  PROVE  /\ \A e \in Of("Decode") : e.to \in Peers /\ e.chunk \in Chunks /\ Asked("Get", e.to, e.chunk)
         /\ \A e \in Of("NewEncoder") : /\ e.to \in Peers /\ e.chunk \in Chunks
                                        /\ e = NewEncoderEvent(e.to, e.chunk) /\ Asked("Put", e.to, e.chunk)
BY AskedFacts DEF EInv, EventsRight, AllDecodes, AllNewEncoders, DecodeRight, NewEncoderRight

(* A step without such answers keeps Awaited. *)
LEMMA AwaitedStays ==
  ASSUME EInv, Awaited, NoAnswers, EncodersStay, downloads' = downloads
  PROVE  Awaited'
<1>1. ASSUME NEW e \in Of("NewEncoder")', uploads'[<<e.to, e.chunk>>] # None
      PROVE  ~uploads'[<<e.to, e.chunk>>].encoder
  <2>1. e \in Of("NewEncoder")
    BY DEF NoAnswers
  <2>2. e.to \in Peers /\ e.chunk \in Chunks
    BY <2>1, AnswersPlaced
  <2> QED BY <1>1, <2>1, <2>2 DEF Awaited, EncodersStay
<1>2. ASSUME NEW e \in Of("Decode")', downloads'[<<e.to, e.chunk>>] # None
      PROVE  /\ downloads'[<<e.to, e.chunk>>].decoder = None
             /\ \A d \in Of("Decode")' : d.to = e.to /\ d.chunk = e.chunk => d = e
  BY <1>2 DEF NoAnswers, Awaited
<1> QED BY <1>1, <1>2 DEF Awaited

(* A handler sends no answers of the worker when what it sends are none. *)
LEMMA AnswersFlow ==
  ASSUME NEW e, NEW out, Handle(e, out), \A o \in out : o.type # "Decode" /\ o.type # "NewEncoder"
  PROVE  NoAnswers
BY DEF Handle, NoAnswers, Of

(* The same uploads have no new encoder. *)
LEMMA EncodersSame == ASSUME uploads' = uploads PROVE EncodersStay
BY DEF EncodersStay

(* An application's first put of the chunk: its upload has no encoder yet. *)
LEMMA PutAwaited ==
  ASSUME EInv, Awaited, NEW p \in Peers, NEW c \in Chunks, Put(p, c)
  PROVE  Awaited'
<1> DEFINE n == NewEncoderEvent(p, c)
           fresh == [encoder |-> FALSE, pending |-> {}, available |-> {}]
<1>1. /\ downloads' = downloads /\ uploads' = [uploads EXCEPT ![<<p, c>>] = fresh]
      /\ inbox' \subseteq inbox \cup {n}
  BY DEF Put, NewEncoderEvent
<1>2. uploads \in [Slots -> UploadStates \cup {None}] /\ <<p, c>> \in Slots
  BY DEF EInv, SlotTypes, Slots
<1>3. n.type = "NewEncoder"
  BY DEF NewEncoderEvent
<1>4. Of("Decode")' \subseteq Of("Decode") /\ Of("NewEncoder")' \subseteq Of("NewEncoder") \cup {n}
  <2> HIDE DEF n
  <2> QED BY <1>1, <1>3 DEF Of
<1>5. ~fresh.encoder
  OBVIOUS
<1> HIDE DEF fresh
<1>6. ASSUME NEW e \in Of("NewEncoder")', uploads'[<<e.to, e.chunk>>] # None
      PROVE  ~uploads'[<<e.to, e.chunk>>].encoder
  <2>1. CASE <<e.to, e.chunk>> = <<p, c>>
    BY <1>1, <1>2, <1>5, <2>1
  <2>2. CASE <<e.to, e.chunk>> # <<p, c>>
    <3>1. n.to = p /\ n.chunk = c
      BY DEF NewEncoderEvent
    <3>2. e \in Of("NewEncoder")
      BY <1>4, <2>2, <3>1
    <3>3. e.to \in Peers /\ e.chunk \in Chunks
      BY <3>2, AnswersPlaced
    <3>4. uploads'[<<e.to, e.chunk>>] = uploads[<<e.to, e.chunk>>]
      BY <1>1, <1>2, <2>2, <3>3 DEF Slots
    <3> QED BY <1>6, <3>2, <3>4 DEF Awaited
  <2> QED BY <2>1, <2>2
<1>7. ASSUME NEW e \in Of("Decode")', downloads'[<<e.to, e.chunk>>] # None
      PROVE  /\ downloads'[<<e.to, e.chunk>>].decoder = None
             /\ \A d \in Of("Decode")' : d.to = e.to /\ d.chunk = e.chunk => d = e
  BY <1>1, <1>4, <1>7 DEF Awaited
<1> QED BY <1>6, <1>7 DEF Awaited

(* The encoder is set with the only NewEncoder of its upload. *)
LEMMA NewEncoderAwaited ==
  ASSUME EInv, Awaited, NEW e \in Events("NewEncoder"), NewEncoder(e)
  PROVE  Awaited'
<1> DEFINE p == e.to
           c == e.chunk
<1>1. /\ downloads' = downloads
      /\ uploads' = IF uploads[<<p, c>>] = None THEN uploads ELSE [uploads EXCEPT ![<<p, c>>].encoder = TRUE]
  BY DEF NewEncoder
<1>2. PICK out : Handle(e, out) /\ \A o \in out : o.type = "Invite"
  BY DEF NewEncoder
<1>3. NoAnswers
  BY <1>2, AnswersFlow
<1>4. e \in Of("NewEncoder") /\ e \notin Of("NewEncoder")'
  BY <1>2 DEF Events, Of, Handle
<1>5. p \in Peers /\ c \in Chunks /\ e = NewEncoderEvent(p, c)
  BY <1>4, AnswersPlaced
<1>6. uploads \in [Slots -> UploadStates \cup {None}]
  BY DEF EInv, SlotTypes
<1>7. ASSUME NEW n \in Of("NewEncoder")', uploads'[<<n.to, n.chunk>>] # None
      PROVE  ~uploads'[<<n.to, n.chunk>>].encoder
  <2>1. n \in Of("NewEncoder") /\ n # e
    BY <1>3, <1>4 DEF NoAnswers
  <2>2. n.to \in Peers /\ n.chunk \in Chunks /\ n = NewEncoderEvent(n.to, n.chunk)
    BY <2>1, AnswersPlaced
  <2>3. <<n.to, n.chunk>> # <<p, c>>
    BY <1>5, <2>1, <2>2
  <2>4. uploads'[<<n.to, n.chunk>>] = uploads[<<n.to, n.chunk>>]
    BY <1>1, <1>6, <2>2, <2>3 DEF Slots
  <2> QED BY <1>7, <2>1, <2>4 DEF Awaited
<1>8. ASSUME NEW d \in Of("Decode")', downloads'[<<d.to, d.chunk>>] # None
      PROVE  /\ downloads'[<<d.to, d.chunk>>].decoder = None
             /\ \A f \in Of("Decode")' : f.to = d.to /\ f.chunk = d.chunk => f = d
  BY <1>1, <1>3, <1>8 DEF NoAnswers, Awaited
<1> QED BY <1>7, <1>8 DEF Awaited

(* A get is the first of its chunk: no decoder of it is on its way back. *)
LEMMA GetAwaited ==
  ASSUME EInv, Awaited, NEW p \in Peers, NEW c \in Chunks, Get(p, c)
  PROVE  Awaited'
<1>1. /\ uploads' = uploads /\ downloads' = [downloads EXCEPT ![<<p, c>>] = NewRecover] /\ ~Asked("Get", p, c)
      /\ \A e \in inbox' : e \in inbox \/ e.type = "Pull"
  BY DEF Get, Asked
<1>2. Of("Decode")' \subseteq Of("Decode") /\ Of("NewEncoder")' \subseteq Of("NewEncoder")
  BY <1>1 DEF Of
<1>3. downloads \in [Slots -> RecoverStates \cup {None}] /\ <<p, c>> \in Slots
  BY DEF EInv, SlotTypes, Slots
<1>4. ASSUME NEW e \in Of("Decode")', downloads'[<<e.to, e.chunk>>] # None
      PROVE  /\ downloads'[<<e.to, e.chunk>>].decoder = None
             /\ \A d \in Of("Decode")' : d.to = e.to /\ d.chunk = e.chunk => d = e
  <2>1. e \in Of("Decode") /\ e.to \in Peers /\ e.chunk \in Chunks /\ Asked("Get", e.to, e.chunk)
    BY <1>2, AnswersPlaced
  <2>2. <<e.to, e.chunk>> # <<p, c>>
    BY <1>1, <2>1
  <2>3. downloads'[<<e.to, e.chunk>>] = downloads[<<e.to, e.chunk>>]
    BY <1>1, <1>3, <2>1, <2>2 DEF Slots
  <2> QED BY <1>2, <1>4, <2>1, <2>3 DEF Awaited
<1> QED BY <1>1, <1>2, <1>4 DEF Awaited

(* A get that ends waits for nothing. *)
LEMMA RecoverAwaited ==
  ASSUME EInv, Awaited, NEW e \in Events("Recover"), Recover(e)
  PROVE  Awaited'
<1> DEFINE p == e.to
           c == e.chunk
<1>1. uploads' = uploads /\ downloads' = [downloads EXCEPT ![<<p, c>>] = None] /\ Handle(e, {})
  BY DEF Recover
<1>2. NoAnswers
  BY <1>1, AnswersFlow
<1>3. downloads \in [Slots -> RecoverStates \cup {None}]
  BY DEF EInv, SlotTypes
<1>4. ASSUME NEW d \in Of("Decode")', downloads'[<<d.to, d.chunk>>] # None
      PROVE  /\ downloads'[<<d.to, d.chunk>>].decoder = None
             /\ \A f \in Of("Decode")' : f.to = d.to /\ f.chunk = d.chunk => f = d
  <2>1. d \in Of("Decode") /\ <<d.to, d.chunk>> \in Slots
    BY <1>2, AnswersPlaced DEF NoAnswers, Slots
  <2>2. downloads'[<<d.to, d.chunk>>] = downloads[<<d.to, d.chunk>>]
    BY <1>1, <1>3, <1>4, <2>1
  <2> QED BY <1>2, <1>4, <2>1, <2>2 DEF Awaited, NoAnswers
<1> QED BY <1>1, <1>2, <1>4 DEF Awaited, NoAnswers

(* A step that concerns one slot, whose decoder is away or has no answer   *)
(* on its way, keeps Awaited.                                              *)
LEMMA AwaitedMoves ==
  ASSUME EInv, Awaited, NEW p \in Peers, NEW c \in Chunks, NEW e, NEW out, Handle(e, out), uploads' = uploads,
         \A o \in out : o.to = p /\ o.chunk = c /\ o.type # "NewEncoder",
         \A q \in Peers, d \in Chunks : <<q, d>> # <<p, c>> => downloads'[<<q, d>>] = downloads[<<q, d>>],
         downloads'[<<p, c>>] # None =>
           \A g \in Of("Decode")' : g.to = p /\ g.chunk = c =>
             /\ downloads'[<<p, c>>].decoder = None
             /\ \A h \in Of("Decode")' : h.to = p /\ h.chunk = c => h = g
  PROVE  Awaited'
<1>1. Of("NewEncoder")' \subseteq Of("NewEncoder")
  BY DEF Handle, Of
<1>2. ASSUME NEW g \in Of("Decode")', downloads'[<<g.to, g.chunk>>] # None
      PROVE  /\ downloads'[<<g.to, g.chunk>>].decoder = None
             /\ \A h \in Of("Decode")' : h.to = g.to /\ h.chunk = g.chunk => h = g
  <2>1. CASE g.to = p /\ g.chunk = c
    BY <1>2, <2>1
  <2>2. CASE ~(g.to = p /\ g.chunk = c)
    <3>1. \A h \in Of("Decode")' : h.to = g.to /\ h.chunk = g.chunk => h \in Of("Decode")
      BY <2>2 DEF Handle, Of
    <3>2. g \in Of("Decode") /\ g.to \in Peers /\ g.chunk \in Chunks
      BY <3>1, AnswersPlaced
    <3>3. downloads'[<<g.to, g.chunk>>] = downloads[<<g.to, g.chunk>>]
      BY <2>2, <3>2
    <3> QED BY <1>2, <3>1, <3>2, <3>3 DEF Awaited
  <2> QED BY <2>1, <2>2
<1> QED BY <1>1, <1>2 DEF Awaited

(* What the worker answers is for the slot it was asked about. *)
LEMMA DecodedPlaced ==
  ASSUME NEW p, NEW c, NEW got, NEW own, NEW d \in Decoded(p, c, got, own)
  PROVE  d.to = p /\ d.chunk = c /\ d.type # "NewEncoder"
BY DEF Decoded

(* A fragment is decoded by a decoder that is there, or waits for it. *)
LEMMA DownloadAwaited ==
  ASSUME EInv, Awaited, NEW e \in Events("DownloadOk"), DownloadOk(e)
  PROVE  Awaited'
<1> DEFINE p == e.to
           c == e.chunk
           f == [index |-> e.index, of |-> e.of]
           state == persists[<<p, c>>]
           r == downloads[<<p, c>>]
           fetching == r # None
           recovering == ~fetching /\ state # None /\ state.status = "Recovering"
           foreign == recovering /\ e.index # state.index /\ e.index \notin state.received
<1>1. DownloadRight(e)
  BY DEF Events, Of, EInv, EventsRight, AllDownloads
<1>2. p \in Peers /\ c \in Chunks /\ <<p, c>> \in Slots
  BY <1>1 DEF DownloadRight, Slots
<1>3. downloads \in [Slots -> RecoverStates \cup {None}]
  BY DEF EInv, SlotTypes
<1>4. uploads' = uploads
  BY DEF DownloadOk
<1>5. PICK out :
        /\ out \in IF fetching THEN SubmitEvents(p, c, r, f, None)
                   ELSE IF foreign THEN SubmitEvents(p, c, state.recover, f, state.index) ELSE {{}}
        /\ Handle(e, out)
        /\ downloads' = IF fetching THEN [downloads EXCEPT ![<<p, c>>] = SubmitDecode(@, f)] ELSE downloads
  BY DEF DownloadOk
<1>6. /\ \A o \in out : o.to = p /\ o.chunk = c /\ o.type # "NewEncoder"
      /\ fetching /\ r.decoder = None => out = {}
      /\ fetching /\ r.decoder # None => \E d : out = {d}
  <2> HIDE DEF foreign, recovering, f
  <2>1. ASSUME NEW own, NEW s, out \in SubmitEvents(p, c, s, f, own)
        PROVE  /\ s.decoder = None => out = {}
               /\ s.decoder # None => \E d \in Decoded(p, c, s.decoder \cup {f}, own) : out = {d}
    BY <2>1 DEF SubmitEvents
  <2>2. ASSUME NEW own, NEW s, out \in SubmitEvents(p, c, s, f, own)
        PROVE  \A o \in out : o.to = p /\ o.chunk = c /\ o.type # "NewEncoder"
    <3>1. CASE s.decoder = None
      BY <2>1, <2>2, <3>1
    <3>2. CASE s.decoder # None
      <4>1. PICK d \in Decoded(p, c, s.decoder \cup {f}, own) : out = {d}
        BY <2>1, <2>2, <3>2
      <4>2. d.to = p /\ d.chunk = c /\ d.type # "NewEncoder"
        BY DecodedPlaced
      <4> QED BY <4>1, <4>2
    <3> QED BY <3>1, <3>2
  <2>3. CASE fetching
    BY <1>5, <2>1, <2>2, <2>3
  <2>4. CASE ~fetching
    BY <1>5, <2>2, <2>4
  <2> QED BY <2>3, <2>4
<1>7. fetching => downloads'[<<p, c>>].decoder = None
  <2> SUFFICES ASSUME fetching PROVE downloads'[<<p, c>>].decoder = None
    OBVIOUS
  <2>1. r \in RecoverStates /\ downloads'[<<p, c>>] = SubmitDecode(r, f)
    BY <1>2, <1>3, <1>5
  <2> QED BY <2>1 DEF SubmitDecode, RecoverStates
<1>8. ~fetching => downloads' = downloads
  BY <1>5
<1>9. \A q \in Peers, d \in Chunks : <<q, d>> # <<p, c>> => downloads'[<<q, d>>] = downloads[<<q, d>>]
  BY <1>2, <1>3, <1>5 DEF Slots
<1>10. Of("Decode")' \subseteq Of("Decode") \cup out
  BY <1>5 DEF Handle, Of
<1>11. ASSUME fetching, NEW g \in Of("Decode")', g.to = p, g.chunk = c
       PROVE  \A h \in Of("Decode")' : h.to = p /\ h.chunk = c => h = g
  <2>1. CASE r.decoder = None
    BY <1>6, <1>10, <1>11, <2>1 DEF Awaited
  <2>2. CASE r.decoder # None
    <3>1. \A h \in Of("Decode") : ~(h.to = p /\ h.chunk = c)
      BY <1>11, <2>2 DEF Awaited
    <3> QED BY <1>6, <1>10, <1>11, <2>2, <3>1
  <2> QED BY <2>1, <2>2
<1> HIDE DEF foreign, recovering, f
<1> QED BY <1>2, <1>4, <1>5, <1>6, <1>7, <1>8, <1>9, <1>11, AwaitedMoves

(* The decoder is back: it stays, or goes to the worker again. *)
LEMMA DecodeAwaited ==
  ASSUME EInv, Awaited, NEW e \in Events("Decode"), Decode(e)
  PROVE  Awaited'
<1> DEFINE p == e.to
           c == e.chunk
           state == persists[<<p, c>>]
           r == downloads[<<p, c>>]
           fetching == r # None
           recovering == ~fetching /\ state # None /\ state.status = "Recovering"
           recover == IF fetching THEN r ELSE state.recover
           own == IF fetching THEN None ELSE state.index
<1>1. e \in Of("Decode")
  BY DEF Events, Of
<1>2. p \in Peers /\ c \in Chunks /\ <<p, c>> \in Slots
  BY <1>1, AnswersPlaced DEF Slots
<1>3. downloads \in [Slots -> RecoverStates \cup {None}]
  BY DEF EInv, SlotTypes
<1>4. uploads' = uploads
  BY DEF Decode
<1>5. PICK f \in IF (fetching \/ recovering) /\ recover.pending # {} THEN recover.pending ELSE {None} :
        /\ \E out \in IF f = None THEN {{}} ELSE {{d} : d \in Decoded(p, c, e.got \cup {f}, own)} :
              Handle(e, out)
        /\ downloads' = IF fetching THEN [downloads EXCEPT ![<<p, c>>] = OnDecode(@, e.got, f)] ELSE downloads
  BY DEF Decode
<1>6. PICK out \in IF f = None THEN {{}} ELSE {{d} : d \in Decoded(p, c, e.got \cup {f}, own)} : Handle(e, out)
  <2> HIDE DEF recovering, recover, own
  <2> QED BY <1>5
<1>7. /\ \A o \in out : o.to = p /\ o.chunk = c /\ o.type # "NewEncoder"
      /\ f = None => out = {}
      /\ f # None => \E d : out = {d}
  <2> HIDE DEF recovering, recover, own
  <2>1. CASE f = None
    BY <1>6, <2>1
  <2>2. CASE f # None
    <3>1. PICK d \in Decoded(p, c, e.got \cup {f}, own) : out = {d}
      BY <1>6, <2>2
    <3>2. d.to = p /\ d.chunk = c /\ d.type # "NewEncoder"
      BY DecodedPlaced
    <3> QED BY <2>2, <3>1, <3>2
  <2> QED BY <2>1, <2>2
<1>8. fetching => r.decoder = None /\ \A h \in Of("Decode") : h.to = p /\ h.chunk = c => h = e
  BY <1>1 DEF Awaited
<1>9. \A h \in Of("Decode")' : h.to = p /\ h.chunk = c /\ fetching => h \in out
  BY <1>6, <1>8 DEF Handle, Of
<1>10. fetching /\ f # None => downloads'[<<p, c>>].decoder = None
  <2> SUFFICES ASSUME fetching, f # None PROVE downloads'[<<p, c>>].decoder = None
    OBVIOUS
  <2>1. r \in RecoverStates /\ downloads'[<<p, c>>] = OnDecode(r, e.got, f) /\ r.pending # {}
    BY <1>2, <1>3, <1>5
  <2> QED BY <1>8, <2>1 DEF OnDecode, RecoverStates
<1>11. ~fetching => downloads' = downloads
  BY <1>5
<1>12. \A q \in Peers, d \in Chunks : <<q, d>> # <<p, c>> => downloads'[<<q, d>>] = downloads[<<q, d>>]
  BY <1>2, <1>3, <1>5 DEF Slots
<1> HIDE DEF recovering, recover, own
<1>13. downloads'[<<p, c>>] # None =>
         \A g \in Of("Decode")' : g.to = p /\ g.chunk = c =>
           /\ downloads'[<<p, c>>].decoder = None
           /\ \A h \in Of("Decode")' : h.to = p /\ h.chunk = c => h = g
  BY <1>7, <1>9, <1>10, <1>11
<1> QED BY <1>2, <1>4, <1>6, <1>7, <1>12, <1>13, AwaitedMoves

(* An answer to an invitation changes no encoder. *)
LEMMA InviteOkAwaited ==
  ASSUME EInv, Awaited, NEW e \in Events("InviteOk"), RecvInviteOk(e)
  PROVE  Awaited'
<1>1. downloads' = downloads
  BY DEF RecvInviteOk
<1>2. PICK out : Handle(e, out) /\ \A o \in out : o.type = "Encode"
  BY DEF RecvInviteOk
<1>3. NoAnswers
  BY <1>2, AnswersFlow
<1>4. uploads \in [Slots -> UploadStates \cup {None}]
  BY DEF EInv, SlotTypes
<1>5. PICK pending : \/ uploads' = uploads
                     \/ /\ uploads[<<e.to, e.chunk>>] # None
                        /\ uploads' = [uploads EXCEPT ![<<e.to, e.chunk>>].pending = pending]
  BY DEF RecvInviteOk
<1>6. ASSUME NEW q \in Peers, NEW c \in Chunks, uploads'[<<q, c>>] # None, uploads'[<<q, c>>].encoder
      PROVE  uploads[<<q, c>>] # None /\ uploads[<<q, c>>].encoder
  <2>1. <<q, c>> \in Slots
    BY DEF Slots
  <2> QED BY <1>4, <1>5, <1>6, <2>1 DEF UploadStates
<1>7. EncodersStay
  BY <1>6 DEF EncodersStay
<1> QED BY <1>1, <1>3, <1>7, AwaitedStays

(* A peer more with its fragment on disk changes no encoder. *)
LEMMA FragmentAvailableAwaited ==
  ASSUME EInv, Awaited, NEW e \in Events("FragmentAvailable"), RecvFragmentAvailable(e)
  PROVE  Awaited'
<1>1. downloads' = downloads /\ Handle(e, {})
  BY DEF RecvFragmentAvailable
<1>2. NoAnswers
  BY <1>1, AnswersFlow
<1>3. uploads \in [Slots -> UploadStates \cup {None}]
  BY DEF EInv, SlotTypes
<1>4. PICK available : \/ uploads' = uploads
                       \/ uploads' = [uploads EXCEPT ![<<e.to, e.chunk>>] = None]
                       \/ /\ uploads[<<e.to, e.chunk>>] # None
                          /\ uploads' = [uploads EXCEPT ![<<e.to, e.chunk>>].available = available]
  BY DEF RecvFragmentAvailable
<1>5. ASSUME NEW q \in Peers, NEW c \in Chunks, uploads'[<<q, c>>] # None, uploads'[<<q, c>>].encoder
      PROVE  uploads[<<q, c>>] # None /\ uploads[<<q, c>>].encoder
  <2>1. <<q, c>> \in Slots
    BY DEF Slots
  <2> QED BY <1>3, <1>4, <1>5, <2>1 DEF UploadStates
<1>6. EncodersStay
  BY <1>5 DEF EncodersStay
<1> QED BY <1>1, <1>2, <1>6, AwaitedStays

(* The other handlers send no answer of the worker, and change neither     *)
(* uploads nor downloads.                                                  *)
LEMMA OthersAwaited ==
  ASSUME EInv, Awaited, NEW e,
         \/ RecvInvite(e) \/ Encode(e) \/ RecvOffer(e) \/ RecoverEncode(e) \/ StoreOk(e)
         \/ RecvPull(e) \/ LoadOk(e)
  PROVE  Awaited'
<1>1. uploads' = uploads /\ downloads' = downloads
  BY DEF RecvInvite, Encode, RecvOffer, RecoverEncode, StoreOk, RecvPull, LoadOk
<1>2. \E out : Handle(e, out) /\ \A o \in out : o.type # "Decode" /\ o.type # "NewEncoder"
  <2>1. CASE RecvInvite(e)
    <3>1. PICK index \in Draws[e.to] :
            Handle(e, IF e.from = e.to THEN {}
                      ELSE {[type |-> "InviteOk", to |-> e.from, chunk |-> e.chunk, index |-> index,
                             from |-> e.to]})
      BY <2>1 DEF RecvInvite
    <3> QED BY <3>1
  <2>2. CASE Encode(e)
    BY <2>2 DEF Encode
  <2>3. CASE RecvOffer(e)
    BY <2>3 DEF RecvOffer, Available
  <2>4. CASE RecoverEncode(e)
    BY <2>4 DEF RecoverEncode
  <2>5. CASE StoreOk(e)
    BY <2>5 DEF StoreOk, Available
  <2>6. CASE RecvPull(e)
    BY <2>6 DEF RecvPull
  <2>7. CASE LoadOk(e)
    BY <2>7 DEF LoadOk
  <2> QED BY <2>1, <2>2, <2>3, <2>4, <2>5, <2>6, <2>7
<1>3. PICK out : Handle(e, out) /\ \A o \in out : o.type # "Decode" /\ o.type # "NewEncoder"
  BY <1>2
<1>4. NoAnswers
  BY <1>3, AnswersFlow
<1> QED BY <1>1, <1>4, EncodersSame, AwaitedStays

(* Neither do the transfers and the file system. *)
LEMMA TasksAwaited ==
  ASSUME EInv, Awaited,
         \/ \E t \in transfers : TransferOk(t) \/ TransferFail(t)
         \/ \E t \in fsTasks : FsStore(t) \/ FsLoad(t)
  PROVE  Awaited'
<1>1. /\ uploads' = uploads /\ downloads' = downloads
      /\ \A o \in inbox' : o \in inbox \/ (o.type # "Decode" /\ o.type # "NewEncoder")
  <2>1. CASE \E t \in transfers : TransferOk(t) \/ TransferFail(t)
    <3>1. PICK t \in transfers : TransferOk(t) \/ TransferFail(t)
      BY <2>1
    <3>2. CASE TransferOk(t)
      <4> DEFINE done == [type |-> "DownloadOk", to |-> t.to, chunk |-> t.chunk, index |-> t.index, of |-> t.of]
      <4>1. inbox' = inbox \cup {done} /\ uploads' = uploads /\ downloads' = downloads
        BY <3>2 DEF TransferOk
      <4>2. done.type = "DownloadOk"
        OBVIOUS
      <4> HIDE DEF done
      <4> QED BY <4>1, <4>2
    <3>3. CASE TransferFail(t)
      <4>1. inbox' = inbox \cup {} /\ uploads' = uploads /\ downloads' = downloads
        BY <3>3 DEF TransferFail
      <4> QED BY <4>1
    <3> QED BY <3>1, <3>2, <3>3
  <2>2. CASE \E t \in fsTasks : FsStore(t) \/ FsLoad(t)
    <3>1. PICK t \in fsTasks : FsStore(t) \/ FsLoad(t)
      BY <2>2
    <3>2. uploads' = uploads /\ downloads' = downloads
      BY <3>1 DEF FsStore, FsLoad
    <3> DEFINE stored == [type |-> "StoreOk", to |-> t.peer, chunk |-> t.chunk]
               loaded == [type |-> "LoadOk", to |-> t.peer, chunk |-> t.chunk,
                          fragment |-> disk[<<t.peer, t.chunk>>]]
    <3>3. inbox' = inbox \cup {} \/ inbox' = inbox \cup {stored} \/ inbox' = inbox \cup {loaded}
      BY <3>1 DEF FsStore, FsLoad
    <3>4. stored.type = "StoreOk" /\ loaded.type = "LoadOk"
      OBVIOUS
    <3> HIDE DEF stored, loaded
    <3>5. CASE inbox' = inbox \cup {}
      BY <3>2, <3>5
    <3>6. CASE inbox' = inbox \cup {stored}
      BY <3>2, <3>4, <3>6
    <3>7. CASE inbox' = inbox \cup {loaded}
      BY <3>2, <3>4, <3>7
    <3> QED BY <3>3, <3>5, <3>6, <3>7
  <2> QED BY <2>1, <2>2
<1>2. NoAnswers
  BY <1>1 DEF NoAnswers, Of
<1> QED BY <1>1, <1>2, EncodersSame, AwaitedStays

-----------------------------------------------------------------------------
(* Both hold after every step. *)
LEMMA NextRight == EInv /\ Awaited /\ [EntropyNext]_entropyVars => EInv' /\ Awaited'
<1> SUFFICES ASSUME EInv, Awaited, [EntropyNext]_entropyVars PROVE EInv' /\ Awaited'
  OBVIOUS
<1>1. CASE Application
  <2>1. PICK x \in Slots : Put(x[1], x[2]) \/ Get(x[1], x[2])
    BY <1>1 DEF Application
  <2>2. x[1] \in Peers /\ x[2] \in Chunks
    BY DEF Slots
  <2>3. CASE Put(x[1], x[2])
    BY <2>2, <2>3, PutStep, PutAwaited
  <2>4. CASE Get(x[1], x[2])
    BY <2>2, <2>4, GetStep, GetAwaited
  <2> QED BY <2>1, <2>3, <2>4
<1>2. CASE Event
  <2>1. EInv'
    BY <1>2, EventRight
  <2>2. Awaited'
    <3>1. CASE \E e \in Events("NewEncoder") : NewEncoder(e)
      BY <3>1, NewEncoderAwaited
    <3>2. CASE \E e \in Events("InviteOk") : RecvInviteOk(e)
      BY <3>2, InviteOkAwaited
    <3>3. CASE \E e \in Events("DownloadOk") : DownloadOk(e)
      BY <3>3, DownloadAwaited
    <3>4. CASE \E e \in Events("Decode") : Decode(e)
      BY <3>4, DecodeAwaited
    <3>5. CASE \E e \in Events("FragmentAvailable") : RecvFragmentAvailable(e)
      BY <3>5, FragmentAvailableAwaited
    <3>6. CASE \E e \in Events("Recover") : Recover(e)
      BY <3>6, RecoverAwaited
    <3>7. CASE \E e : \/ RecvInvite(e) \/ Encode(e) \/ RecvOffer(e) \/ RecoverEncode(e) \/ StoreOk(e)
                      \/ RecvPull(e) \/ LoadOk(e)
      BY <3>7, OthersAwaited
    <3> QED BY <1>2, <3>1, <3>2, <3>3, <3>4, <3>5, <3>6, <3>7 DEF Event
  <2> QED BY <2>1, <2>2
<1>3. CASE \E t \in transfers : TransferOk(t)
  BY <1>3, TransferOkStep, TasksAwaited
<1>4. CASE \E t \in fsTasks : FsStore(t) \/ FsLoad(t)
  BY <1>4, FsStoreStep, FsLoadStep, TasksAwaited
<1>5. CASE \E t \in transfers : TransferFail(t)
  BY <1>5, TransferFailStep, TasksAwaited
<1>6. CASE UNCHANGED entropyVars
  <2>1. uploads' = uploads /\ downloads' = downloads /\ inbox' = inbox
    BY <1>6 DEF entropyVars
  <2>2. NoAnswers
    BY <2>1 DEF NoAnswers, Of
  <2> QED BY <1>6, <2>1, <2>2, StutterRight, EncodersSame, AwaitedStays
<1> QED BY <1>1, <1>2, <1>3, <1>4, <1>5, <1>6 DEF EntropyNext, EntropyWork

(* At every moment no event, task or transfer on its way is out of date    *)
(* for the peer that will handle it, however they are reordered (EInv),    *)
(* and the worker answers each encoder and decoder once (Awaited): the     *)
(* assertions of lib.rs:312, 363, 425, 437, 656, 673 and 710 rest on this.  *)
THEOREM Invariance == EntropySpec => [](EInv /\ Awaited)
<1>1. EntropyInit => EInv /\ Awaited
  <2>1. EntropyInit => Awaited
    BY DEF EntropyInit, Awaited, Of
  <2> QED BY <2>1, InitRight
<1> QED BY <1>1, NextRight, PTL DEF EntropySpec

-----------------------------------------------------------------------------

-----------------------------------------------------------------------------
(* A function of the peers takes finitely many values. *)
LEMMA ImageFinite ==
  ASSUME NEW A \in SUBSET Peers, NEW f
  PROVE  IsFiniteSet({f[q] : q \in A})
<1> DEFINE T == {f[q] : q \in A}
           g == [q \in A |-> f[q]]
<1>1. IsFiniteSet(A)
  BY FS_Subset, EntropyAssumption
<1>2. g \in Surjection(A, T)
  BY DEF Surjection
<1> HIDE DEF g, T
<1>3. IsFiniteSet(T)
  BY <1>1, <1>2, FS_Surjection
<1> QED BY <1>3 DEF T

(* A set that takes ChunkN peers one to one has ChunkN members. *)
LEMMA SpreadBounds ==
  ASSUME NEW S \in SUBSET Peers, Cardinality(S) = ChunkN, NEW D, IsFiniteSet(D), NEW f \in [S -> D],
         \A q, r \in S : f[q] = f[r] => q = r
  PROVE  Cardinality(D) >= ChunkN
<1>1. f \in Injection(S, D)
  BY DEF Injection, IsInjective
<1>2. Cardinality(S) <= Cardinality(D)
  BY <1>1, FS_Injection
<1>3. Cardinality(D) \in Nat
  BY FS_CardinalityType
<1> QED BY <1>2, <1>3, EntropyAssumption

(* No peer panics or ends with an error but one that gets a chunk it was   *)
(* invited to persist, whatever is stored or returned is genuine, and      *)
(* after PutOk ChunkN different fragments stay on the disks until somebody *)
(* gets the chunk (lib.rs:405, 523, 549, 843).                             *)
THEOREM DataIsSafe == EntropySpec => []DataSafe
<1>1. EInv => DataSafe
  <2> SUFFICES ASSUME EInv PROVE DataSafe
    OBVIOUS
  <2>1. GenuineData
    <3>1. ASSUME NEW x \in Slots, disk[x] # None
          PROVE  disk[x].index = disk[x].of /\ disk[x].index = persists[x].index
      <4>1. x[1] \in Peers /\ x[2] \in Chunks /\ x = <<x[1], x[2]>>
        BY DEF Slots
      <4>2. DiskRight(x[1], x[2])
        BY <4>1 DEF EInv, SlotsRight, AllDisks
      <4>3. disk[x] = [index |-> Index(x[1], x[2]), of |-> Index(x[1], x[2])]
        BY <3>1, <4>1, <4>2 DEF DiskRight
      <4> QED BY <4>1, <4>3 DEF Index
    <3>2. \A a \in answered : a.genuine
      BY DEF EInv, AllAnswered, AnsweredRight
    <3> QED BY <3>1, <3>2 DEF GenuineData
  <2>2. Durable
    <3> SUFFICES ASSUME NEW p \in Peers, NEW c \in Chunks, Answered("Put", p, c),
                        \A q \in Peers : ~Asked("Get", q, c)
                 PROVE  Cardinality({disk[<<q, c>>].index : q \in {r \in Peers : disk[<<r, c>>] # None}}) >= ChunkN
      BY DEF Durable
    <3> DEFINE A == {r \in Peers : disk[<<r, c>>] # None}
               f == [q \in Peers |-> disk[<<q, c>>].index]
               D == {f[q] : q \in A}
    <3>1. Served(c)
      BY DEF EInv, AllAnswered, AnsweredRight, Answered
    <3>2. PICK S \in SUBSET Peers : /\ Cardinality(S) = ChunkN
                                    /\ \A q \in S : In(q, c, "Available")
                                    /\ \A q, r \in S : Index(q, c) = Index(r, c) => q = r
      BY <3>1 DEF Served
    <3>3. \A q \in S : q \in A /\ f[q] = Index(q, c)
      <4> SUFFICES ASSUME NEW q \in S PROVE q \in A /\ f[q] = Index(q, c)
        OBVIOUS
      <4>1. PersistRight(q, c) /\ DiskRight(q, c)
        BY DEF EInv, SlotsRight, AllPersists, AllDisks
      <4>2. disk[<<q, c>>] # None
        BY <3>2, <4>1 DEF PersistRight, In, Fetched
      <4> QED BY <4>1, <4>2 DEF DiskRight
    <3> DEFINE g == [q \in S |-> f[q]]
    <3>4. IsFiniteSet(D)
      <4> HIDE DEF f
      <4> QED BY ImageFinite
    <3>5. g \in [S -> D]
      <4> HIDE DEF f, A
      <4> QED BY <3>3
    <3>6. \A q, r \in S : g[q] = g[r] => q = r
      <4> HIDE DEF f, A
      <4> QED BY <3>2, <3>3
    <3>7. Cardinality(D) >= ChunkN
      <4> HIDE DEF D, g
      <4> QED BY <3>2, <3>4, <3>5, <3>6, SpreadBounds
    <3>8. D = {disk[<<q, c>>].index : q \in A}
      OBVIOUS
    <3> QED BY <3>7, <3>8
  <2> QED BY <2>1, <2>2 DEF DataSafe, EInv
<1> QED BY <1>1, Invariance, PTL

-----------------------------------------------------------------------------
(* The applications see the same; no peer becomes Available. *)
Calls == /\ Puts' = Puts /\ Gets' = Gets
Steady == \A q \in Peers, c \in Chunks :
            In(q, c, "Available")' = In(q, c, "Available") /\ (In(q, c, "Available") => Index(q, c)' = Index(q, c))

(* The stored indices of a chunk are finitely many, before and after any   *)
(* step.                                                                   *)
LEMMA StoredFinite ==
  \A c : IsFiniteSet(StoredIndices(c)) /\ IsFiniteSet(StoredIndices(c)')
<1> SUFFICES ASSUME NEW c PROVE IsFiniteSet(StoredIndices(c)) /\ IsFiniteSet(StoredIndices(c)')
  OBVIOUS
<1> DEFINE A == {q \in Peers : persists[<<q, c>>] # None /\ persists[<<q, c>>].status = "Available"}
           B == {q \in Peers : persists'[<<q, c>>] # None /\ persists'[<<q, c>>].status = "Available"}
           f == [q \in Peers |-> persists[<<q, c>>].index]
           g == [q \in Peers |-> persists'[<<q, c>>].index]
<1>1. StoredIndices(c) = {f[q] : q \in A}
  BY DEF StoredIndices
<1>2. StoredIndices(c)' = {g[q] : q \in B}
  BY DEF StoredIndices
<1> HIDE DEF f, g
<1>3. IsFiniteSet({f[q] : q \in A}) /\ IsFiniteSet({g[q] : q \in B})
  BY ImageFinite
<1> QED BY <1>1, <1>2, <1>3

(* They are the indices of its Available peers. *)
LEMMA StoredIndicesAre == \A c : StoredIndices(c) = {Index(q, c) : q \in {r \in Peers : In(r, c, "Available")}}
BY DEF StoredIndices, In, Invited, Index

(* A chunk that is served can be got. *)
LEMMA ServedStored == ASSUME NEW c \in Chunks, Served(c) PROVE c \in Stored
<1>1. PICK S \in SUBSET Peers : /\ Cardinality(S) = ChunkN
                                /\ \A q \in S : In(q, c, "Available")
                                /\ \A q, r \in S : Index(q, c) = Index(r, c) => q = r
  BY DEF Served
<1> DEFINE g == [q \in S |-> Index(q, c)]
<1>2. g \in [S -> StoredIndices(c)]
  BY <1>1, StoredIndicesAre
<1>3. \A q, r \in S : g[q] = g[r] => q = r
  BY <1>1
<1> HIDE DEF g
<1>4. Cardinality(StoredIndices(c)) >= ChunkN
  BY <1>1, <1>2, <1>3, StoredFinite, SpreadBounds
<1> QED BY <1>4 DEF Stored

(* A chunk whose put is answered can be got. *)
LEMMA AnsweredStored ==
  ASSUME EInv, NEW p, NEW c \in Chunks, Answered("Put", p, c)
  PROVE  c \in Stored
<1>1. Served(c)
  BY DEF EInv, AllAnswered, AnsweredRight, Answered
<1> QED BY <1>1, ServedStored

(* If no peer becomes Available, the chunks that can be got stay. *)
LEMMA SteadyStored == ASSUME Steady PROVE Stored' = Stored
<1>1. \A c \in Chunks : StoredIndices(c)' = StoredIndices(c)
  <2> SUFFICES ASSUME NEW c \in Chunks PROVE StoredIndices(c)' = StoredIndices(c)
    OBVIOUS
  <2>1. StoredIndices(c)' = {persists'[<<q, c>>].index : q \in {r \in Peers : In(r, c, "Available")'}}
    BY DEF StoredIndices, In, Invited
  <2>2. {r \in Peers : In(r, c, "Available")'} = {r \in Peers : In(r, c, "Available")}
    BY DEF Steady
  <2>3. \A q \in {r \in Peers : In(r, c, "Available")} : persists'[<<q, c>>].index = persists[<<q, c>>].index
    BY DEF Steady, Index
  <2>4. StoredIndices(c) = {persists[<<q, c>>].index : q \in {r \in Peers : In(r, c, "Available")}}
    BY DEF StoredIndices, In, Invited
  <2> QED BY <2>1, <2>2, <2>3, <2>4
<1> QED BY <1>1 DEF Stored

(* The same persist states are steady. *)
LEMMA SteadyWhenSame == ASSUME persists' = persists PROVE Steady
BY DEF Steady, In, Invited, Index

(* So are those where a peer moves that is not Available before or after. *)
LEMMA SteadySlot ==
  ASSUME NEW p, NEW c, ~In(p, c, "Available"), ~In(p, c, "Available")',
         \A q \in Peers, d \in Chunks : <<q, d>> # <<p, c>> => persists'[<<q, d>>] = persists[<<q, d>>]
  PROVE  Steady
<1> SUFFICES ASSUME NEW q \in Peers, NEW d \in Chunks
             PROVE  In(q, d, "Available")' = In(q, d, "Available")
                    /\ (In(q, d, "Available") => Index(q, d)' = Index(q, d))
  BY DEF Steady
<1>1. CASE <<q, d>> = <<p, c>>
  <2>1. q = p /\ d = c
    BY <1>1
  <2> QED BY <2>1 DEF In, Invited
<1>2. CASE <<q, d>> # <<p, c>>
  BY <1>2 DEF In, Invited, Index
<1> QED BY <1>1, <1>2

(* Without a new call or answer the applications see the same. *)
LEMMA CallsSame == ASSUME asked' = asked, answered' = answered PROVE Calls
BY DEF Calls, Puts, Gets, Call, Asked, Answered

(* What the applications see of each call. *)
LEMMA CallsTyped ==
  /\ Puts \in [Slots -> {"ok", "pending", "idle"}] /\ Gets \in [Slots -> {"ok", "pending", "idle"}]
  /\ \A p \in Peers, c \in Chunks : Puts[<<p, c>>] = Call("Put", p, c) /\ Gets[<<p, c>>] = Call("Get", p, c)
BY DEF Puts, Gets, Call, Slots

(* One call goes on; all others stay. *)
LEMMA CallMoves ==
  ASSUME NEW op \in {"Put", "Get"}, NEW p \in Peers, NEW c \in Chunks, NEW v,
         Call(op, p, c)' = v,
         \A o \in {"Put", "Get"}, q \in Peers, d \in Chunks :
           <<o, q, d>> # <<op, p, c>> => Call(o, q, d)' = Call(o, q, d)
  PROVE  /\ op = "Put" => Puts' = [Puts EXCEPT ![<<p, c>>] = v] /\ Gets' = Gets
         /\ op = "Get" => Gets' = [Gets EXCEPT ![<<p, c>>] = v] /\ Puts' = Puts
<1> DEFINE P == [x \in Slots |-> Call("Put", x[1], x[2])]
           G == [x \in Slots |-> Call("Get", x[1], x[2])]
           PP == [x \in Slots |-> Call("Put", x[1], x[2])']
           GG == [x \in Slots |-> Call("Get", x[1], x[2])']
<1>1. Puts = P /\ Gets = G /\ Puts' = PP /\ Gets' = GG
  BY DEF Puts, Gets
<1>2. \A x \in Slots : x[1] \in Peers /\ x[2] \in Chunks /\ x = <<x[1], x[2]>>
  BY DEF Slots
<1>3. ASSUME op = "Put" PROVE PP = [P EXCEPT ![<<p, c>>] = v] /\ GG = G
  <2>1. \A x \in Slots : x # <<p, c>> => Call("Put", x[1], x[2])' = Call("Put", x[1], x[2])
    BY <1>2
  <2>2. \A x \in Slots : x = <<p, c>> => Call("Put", x[1], x[2])' = v
    BY <1>3
  <2>3. \A x \in Slots : Call("Get", x[1], x[2])' = Call("Get", x[1], x[2])
    BY <1>2, <1>3
  <2> QED BY <2>1, <2>2, <2>3
<1>4. ASSUME op = "Get" PROVE GG = [G EXCEPT ![<<p, c>>] = v] /\ PP = P
  <2>1. \A x \in Slots : x # <<p, c>> => Call("Get", x[1], x[2])' = Call("Get", x[1], x[2])
    BY <1>2
  <2>2. \A x \in Slots : x = <<p, c>> => Call("Get", x[1], x[2])' = v
    BY <1>4
  <2>3. \A x \in Slots : Call("Put", x[1], x[2])' = Call("Put", x[1], x[2])
    BY <1>2, <1>4
  <2> QED BY <2>1, <2>2, <2>3
<1> HIDE DEF P, G, PP, GG
<1> QED BY <1>1, <1>3, <1>4

-----------------------------------------------------------------------------
(* Which steps keep what is stored. *)
LEMMA InviteSteady ==
  ASSUME EInv, NEW e \in Events("Invite"), RecvInvite(e)
  PROVE  Steady /\ Calls
<1> DEFINE p == e.to
           c == e.chunk
           fresh(i) == [index |-> i, status |-> "Recovering", notify |-> None,
                        recover |-> NewRecover, received |-> {}, cancelled |-> FALSE]
<1>1. persists \in [Slots -> PersistStates \cup {None}]
  BY DEF EInv, SlotTypes
<1>2. asked' = asked /\ answered' = answered
  BY DEF RecvInvite, history
<1>3. PICK i \in Draws[p] :
        persists' = IF e.from = p \/ persists[<<p, c>>] # None THEN persists
                    ELSE [persists EXCEPT ![<<p, c>>] = fresh(i)]
  BY DEF RecvInvite
<1>4. InviteRight(e)
  BY DEF Events, Of, EInv, EventsRight, AllInvites
<1>5. p \in Peers /\ ~Invited(p, c) /\ c \in Chunks
  BY <1>4, AskedFacts DEF InviteRight, EInv
<1>6. Steady
  <2> DEFINE w == fresh(i)
  <2>1. w.status = "Recovering"
    OBVIOUS
  <2>2. persists' = persists \/ persists' = [persists EXCEPT ![<<p, c>>] = w]
    BY <1>3
  <2> HIDE DEF w, fresh
  <2>3. CASE persists' = persists
    BY <2>3, SteadyWhenSame
  <2>4. CASE persists' = [persists EXCEPT ![<<p, c>>] = w]
    <3>1. /\ persists'[<<p, c>>] = w
          /\ \A q \in Peers, d \in Chunks : <<q, d>> # <<p, c>> => persists'[<<q, d>>] = persists[<<q, d>>]
      BY <1>1, <1>5, <2>4 DEF Slots
    <3>2. ~In(p, c, "Available") /\ ~In(p, c, "Available")'
      BY <1>5, <2>1, <3>1 DEF In
    <3> QED BY <3>1, <3>2, SteadySlot
  <2> QED BY <2>2, <2>3, <2>4
<1> QED BY <1>2, <1>6, CallsSame

(* An offer makes no peer Available. *)
LEMMA OfferSteady ==
  ASSUME EInv, NEW e \in Events("RecvOffer"), RecvOffer(e)
  PROVE  Steady /\ Calls
<1> DEFINE p == e.to
           c == e.chunk
           state == persists[<<p, c>>]
           w == [state EXCEPT !.notify = e.receipt]
           own == /\ downloads[<<p, c>>] = None /\ state # None /\ state.status = "Recovering"
                  /\ e.index = state.index /\ state.notify = None /\ e.receipt # None
<1>1. persists \in [Slots -> PersistStates \cup {None}]
  BY DEF EInv, SlotTypes
<1>2. asked' = asked /\ answered' = answered
  BY DEF RecvOffer, history
<1>3. persists' = IF own THEN [persists EXCEPT ![<<p, c>>].notify = e.receipt] ELSE persists
  BY DEF RecvOffer
<1>4. OfferRight(e)
  BY DEF Events, Of, EInv, EventsRight, AllOffers
<1>5. p \in Peers /\ c \in Chunks /\ <<p, c>> \in Slots
  BY <1>4 DEF OfferRight, Slots
<1>6. Steady
  <2>1. CASE ~own
    BY <1>3, <2>1, SteadyWhenSame
  <2>2. CASE own
    <3>1. state \in PersistStates /\ state.status = "Recovering"
      BY <1>1, <1>5, <2>2
    <3>2. persists' = [persists EXCEPT ![<<p, c>>] = w]
      BY <1>3, <2>2
    <3>3. w.status = "Recovering"
      BY <3>1 DEF PersistStates
    <3> HIDE DEF w
    <3>4. /\ persists'[<<p, c>>] = w
          /\ \A q \in Peers, d \in Chunks : <<q, d>> # <<p, c>> => persists'[<<q, d>>] = persists[<<q, d>>]
      BY <1>1, <1>5, <3>2 DEF Slots
    <3>5. ~In(p, c, "Available") /\ ~In(p, c, "Available")'
      BY <3>1, <3>3, <3>4 DEF In
    <3> QED BY <3>4, <3>5, SteadySlot
  <2> QED BY <2>1, <2>2
<1> QED BY <1>2, <1>6, CallsSame

(* A fragment that arrives makes no peer Available. *)
LEMMA DownloadSteady ==
  ASSUME EInv, NEW e \in Events("DownloadOk"), DownloadOk(e)
  PROVE  Steady /\ Calls
<1> DEFINE p == e.to
           c == e.chunk
           f == [index |-> e.index, of |-> e.of]
           state == persists[<<p, c>>]
           recovering == downloads[<<p, c>>] = None /\ state # None /\ state.status = "Recovering"
           stored == [state EXCEPT !.status = "Storing"]
           fed == [state EXCEPT !.received = @ \cup {e.index}, !.recover = SubmitDecode(@, f)]
<1>1. persists \in [Slots -> PersistStates \cup {None}]
  BY DEF EInv, SlotTypes
<1>2. asked' = asked /\ answered' = answered
  BY DEF DownloadOk, history
<1>3. \/ persists' = persists
      \/ recovering /\ persists' = [persists EXCEPT ![<<p, c>>].status = "Storing"]
      \/ recovering /\ persists' = [persists EXCEPT ![<<p, c>>].received = @ \cup {e.index},
                                                    ![<<p, c>>].recover = SubmitDecode(@, f)]
  BY DEF DownloadOk
<1>4. DownloadRight(e)
  BY DEF Events, Of, EInv, EventsRight, AllDownloads
<1>5. p \in Peers /\ c \in Chunks /\ <<p, c>> \in Slots
  BY <1>4 DEF DownloadRight, Slots
<1>6. ASSUME recovering, NEW w, w.status # "Available", persists' = [persists EXCEPT ![<<p, c>>] = w]
      PROVE  Steady
  <2>1. /\ persists'[<<p, c>>] = w
        /\ \A q \in Peers, d \in Chunks : <<q, d>> # <<p, c>> => persists'[<<q, d>>] = persists[<<q, d>>]
    BY <1>1, <1>5, <1>6 DEF Slots
  <2>2. ~In(p, c, "Available") /\ ~In(p, c, "Available")'
    BY <1>6, <2>1 DEF In
  <2> QED BY <2>1, <2>2, SteadySlot
<1>7. ASSUME recovering, persists' = [persists EXCEPT ![<<p, c>>].status = "Storing"] PROVE Steady
  <2>1. state \in PersistStates
    BY <1>1, <1>5, <1>7
  <2>2. stored.status = "Storing"
    BY <2>1 DEF PersistStates
  <2>3. persists' = [persists EXCEPT ![<<p, c>>] = stored]
    BY <1>7
  <2> HIDE DEF stored
  <2> QED BY <1>6, <1>7, <2>2, <2>3
<1>8. ASSUME recovering,
             persists' = [persists EXCEPT ![<<p, c>>].received = @ \cup {e.index},
                                          ![<<p, c>>].recover = SubmitDecode(@, f)]
      PROVE  Steady
  <2>1. state \in PersistStates
    BY <1>1, <1>5, <1>8
  <2>2. fed.status = "Recovering"
    BY <1>8, <2>1 DEF PersistStates
  <2>3. persists' = [persists EXCEPT ![<<p, c>>] = fed]
    BY <1>1, <1>5, <1>8, <2>1 DEF PersistStates
  <2> HIDE DEF fed
  <2> QED BY <1>6, <1>8, <2>2, <2>3
<1>9. Steady
  BY <1>3, <1>7, <1>8, SteadyWhenSame
<1> QED BY <1>2, <1>9, CallsSame

(* Decoding makes no peer Available. *)
LEMMA DecodeSteady ==
  ASSUME EInv, NEW e \in Events("Decode"), Decode(e)
  PROVE  Steady /\ Calls
<1> DEFINE p == e.to
           c == e.chunk
           state == persists[<<p, c>>]
           recovering == downloads[<<p, c>>] = None /\ state # None /\ state.status = "Recovering"
<1>1. persists \in [Slots -> PersistStates \cup {None}]
  BY DEF EInv, SlotTypes
<1>2. asked' = asked /\ answered' = answered
  BY DEF Decode, history
<1>3. PICK f : persists' = IF recovering THEN [persists EXCEPT ![<<p, c>>].recover = OnDecode(@, e.got, f)]
                           ELSE persists
  BY DEF Decode
<1>4. DecodeRight(e)
  BY DEF Events, Of, EInv, EventsRight, AllDecodes
<1>5. p \in Peers /\ c \in Chunks /\ <<p, c>> \in Slots
  BY <1>4, AskedFacts DEF DecodeRight, EInv, Slots
<1>6. Steady
  <2>1. CASE ~recovering
    BY <1>3, <2>1, SteadyWhenSame
  <2>2. CASE recovering
    <3> DEFINE w == [state EXCEPT !.recover = OnDecode(@, e.got, f)]
    <3>1. state \in PersistStates /\ state.status = "Recovering"
      BY <1>1, <1>5, <2>2
    <3>2. persists' = [persists EXCEPT ![<<p, c>>] = w]
      BY <1>3, <2>2
    <3>3. w.status = "Recovering"
      BY <3>1 DEF PersistStates
    <3> HIDE DEF w
    <3>4. /\ persists'[<<p, c>>] = w
          /\ \A q \in Peers, d \in Chunks : <<q, d>> # <<p, c>> => persists'[<<q, d>>] = persists[<<q, d>>]
      BY <1>1, <1>5, <3>2 DEF Slots
    <3>5. ~In(p, c, "Available") /\ ~In(p, c, "Available")'
      BY <3>1, <3>3, <3>4 DEF In
    <3> QED BY <3>4, <3>5, SteadySlot
  <2> QED BY <2>1, <2>2
<1> QED BY <1>2, <1>6, CallsSame

(* A recovered fragment makes no peer Available before it is stored. *)
LEMMA RecoverEncodeSteady ==
  ASSUME EInv, NEW e \in Events("RecoverEncode"), RecoverEncode(e)
  PROVE  Steady /\ Calls
<1> DEFINE p == e.to
           c == e.chunk
           state == persists[<<p, c>>]
           w == [state EXCEPT !.status = "Storing", !.cancelled = TRUE]
<1>1. persists \in [Slots -> PersistStates \cup {None}]
  BY DEF EInv, SlotTypes
<1>2. asked' = asked /\ answered' = answered
  BY DEF RecoverEncode, history
<1>3. persists' = persists \/ (state.status = "Recovering" /\
        persists' = [persists EXCEPT ![<<p, c>>].status = "Storing", ![<<p, c>>].cancelled = TRUE])
  BY DEF RecoverEncode
<1>4. RecoverEncodeRight(e)
  BY DEF Events, Of, EInv, EventsRight, AllRecoverEncodes
<1>5. p \in Peers /\ c \in Chunks /\ <<p, c>> \in Slots /\ state # None
  BY <1>4, AskedFacts DEF RecoverEncodeRight, EInv, Slots, Invited
<1>6. ASSUME state.status = "Recovering",
             persists' = [persists EXCEPT ![<<p, c>>].status = "Storing", ![<<p, c>>].cancelled = TRUE]
      PROVE  Steady
  <2>1. state \in PersistStates
    BY <1>1, <1>5
  <2>2. persists' = [persists EXCEPT ![<<p, c>>] = w]
    BY <1>1, <1>5, <1>6, <2>1 DEF PersistStates
  <2>3. w.status = "Storing"
    BY <2>1 DEF PersistStates
  <2> HIDE DEF w
  <2>4. /\ persists'[<<p, c>>] = w
        /\ \A q \in Peers, d \in Chunks : <<q, d>> # <<p, c>> => persists'[<<q, d>>] = persists[<<q, d>>]
    BY <1>1, <1>5, <2>2 DEF Slots
  <2>5. ~In(p, c, "Available") /\ ~In(p, c, "Available")'
    BY <1>6, <2>3, <2>4 DEF In
  <2> QED BY <2>4, <2>5, SteadySlot
<1> QED BY <1>2, <1>3, <1>6, CallsSame, SteadyWhenSame

-----------------------------------------------------------------------------
(* Put is the abstract call. *)
LEMMA PutCalls ==
  ASSUME EInv, NEW p \in Peers, NEW c \in Chunks, Put(p, c)
  PROVE  Stored' = Stored /\ Abs!StorePut(p, c)
<1>1. /\ persists' = persists /\ answered' = answered /\ ~Asked("Put", p, c)
      /\ asked' = asked \cup {[op |-> "Put", peer |-> p, chunk |-> c]}
  BY DEF Put, Asked
<1>2. ~Answered("Put", p, c) /\ ~Answered("Put", p, c)'
  BY <1>1 DEF EInv, AllAnswered, AnsweredRight, Answered
<1>3. Call("Put", p, c) = "idle" /\ Call("Put", p, c)' = "pending"
  BY <1>1, <1>2 DEF Call, Asked
<1>4. ASSUME NEW o \in {"Put", "Get"}, NEW q \in Peers, NEW d \in Chunks, <<o, q, d>> # <<"Put", p, c>>
      PROVE  Call(o, q, d)' = Call(o, q, d)
  <2>1. Asked(o, q, d)' = Asked(o, q, d)
    BY <1>1, <1>4 DEF Asked
  <2> QED BY <1>1, <2>1 DEF Call, Answered
<1>5. Puts' = [Puts EXCEPT ![<<p, c>>] = "pending"] /\ Gets' = Gets
  BY <1>3, <1>4, CallMoves
<1>6. Puts[<<p, c>>] = "idle"
  BY <1>3, CallsTyped
<1>7. Stored' = Stored
  BY <1>1, SteadyWhenSame, SteadyStored
<1> QED BY <1>5, <1>6, <1>7 DEF Abs!StorePut

(* Get is the abstract call. *)
LEMMA GetCalls ==
  ASSUME EInv, NEW p \in Peers, NEW c \in Chunks, Get(p, c)
  PROVE  Stored' = Stored /\ Abs!StoreGet(p, c)
<1>1. /\ persists' = persists /\ answered' = answered /\ ~Asked("Get", p, c)
      /\ asked' = asked \cup {[op |-> "Get", peer |-> p, chunk |-> c]}
  BY DEF Get, Asked
<1>2. ~Answered("Get", p, c) /\ ~Answered("Get", p, c)'
  BY <1>1 DEF EInv, AllAnswered, AnsweredRight, Answered
<1>3. Call("Get", p, c) = "idle" /\ Call("Get", p, c)' = "pending"
  BY <1>1, <1>2 DEF Call, Asked
<1>4. ASSUME NEW o \in {"Put", "Get"}, NEW q \in Peers, NEW d \in Chunks, <<o, q, d>> # <<"Get", p, c>>
      PROVE  Call(o, q, d)' = Call(o, q, d)
  <2>1. Asked(o, q, d)' = Asked(o, q, d)
    BY <1>1, <1>4 DEF Asked
  <2> QED BY <1>1, <2>1 DEF Call, Answered
<1>5. Gets' = [Gets EXCEPT ![<<p, c>>] = "pending"] /\ Puts' = Puts
  BY <1>3, <1>4, CallMoves
<1>6. Gets[<<p, c>>] = "idle"
  BY <1>3, CallsTyped
<1>7. Stored' = Stored
  BY <1>1, SteadyWhenSame, SteadyStored
<1> QED BY <1>5, <1>6, <1>7 DEF Abs!StoreGet

(* FragmentAvailable is the abstract PutOk, of a chunk that can be got, or *)
(* nothing an application sees.                                            *)
LEMMA AvailableCalls ==
  ASSUME EInv, EInv', NEW e \in Events("FragmentAvailable"), RecvFragmentAvailable(e)
  PROVE  Stored' = Stored /\ (Calls \/ \E p \in Peers, c \in Chunks : Abs!StorePutOk(p, c))
<1> DEFINE p == e.to
           c == e.chunk
           a == [op |-> "Put", peer |-> p, chunk |-> c, genuine |-> TRUE]
<1>1. /\ persists' = persists /\ asked' = asked
      /\ answered' = answered \/ (uploads[<<p, c>>] # None /\ answered' = answered \cup {a})
  BY DEF RecvFragmentAvailable
<1>2. Stored' = Stored
  BY <1>1, SteadyWhenSame, SteadyStored
<1>3. CASE answered' = answered
  BY <1>1, <1>2, <1>3, CallsSame
<1>4. CASE uploads[<<p, c>>] # None /\ answered' = answered \cup {a}
  <2>1. AvailableRight(e)
    BY DEF Events, Of, EInv, EventsRight, AllAvailables
  <2>2. p \in Peers /\ c \in Chunks /\ Asked("Put", p, c)
    BY <2>1, AskedFacts DEF AvailableRight, EInv
  <2>3. ~Answered("Put", p, c)
    BY <1>4, <2>2 DEF EInv, SlotsRight, AllUploads, UploadRight
  <2>4. Answered("Put", p, c)'
    <3>1. a \in answered' /\ a.op = "Put" /\ a.peer = p /\ a.chunk = c
      BY <1>4
    <3> HIDE DEF a, p, c
    <3> QED BY <3>1 DEF Answered
  <2>5. Call("Put", p, c) = "pending" /\ Call("Put", p, c)' = "ok"
    BY <2>2, <2>3, <2>4 DEF Call
  <2>6. ASSUME NEW o \in {"Put", "Get"}, NEW q \in Peers, NEW d \in Chunks, <<o, q, d>> # <<"Put", p, c>>
        PROVE  Call(o, q, d)' = Call(o, q, d)
    <3>1. Answered(o, q, d)' = Answered(o, q, d)
      BY <1>4, <2>6 DEF Answered
    <3> QED BY <1>1, <3>1 DEF Call, Asked
  <2>7. Puts' = [Puts EXCEPT ![<<p, c>>] = "ok"] /\ Gets' = Gets
    BY <2>2, <2>5, <2>6, CallMoves
  <2>8. Puts[<<p, c>>] = "pending"
    BY <2>2, <2>5, CallsTyped
  <2>9. c \in Stored
    <3>1. Served(c)'
      BY <1>4, <2>4 DEF EInv, AllAnswered, AnsweredRight, Answered
    <3>2. Served(c)
      BY <1>1, <3>1 DEF Served, In, Invited, Index
    <3> QED BY <2>2, <3>2, ServedStored
  <2> QED BY <1>2, <2>2, <2>7, <2>8, <2>9 DEF Abs!StorePutOk
<1> QED BY <1>1, <1>3, <1>4

(* Recover is the abstract GetOk, of a chunk that can be got, or nothing   *)
(* an application sees.                                                    *)
LEMMA RecoverCalls ==
  ASSUME EInv, NEW e \in Events("Recover"), Recover(e)
  PROVE  Stored' = Stored /\ (Calls \/ \E p \in Peers, c \in Chunks : Abs!StoreGetOk(p, c))
<1> DEFINE p == e.to
           c == e.chunk
           a == [op |-> "Get", peer |-> p, chunk |-> c, genuine |-> e.genuine]
<1>1. /\ persists' = persists /\ asked' = asked
      /\ answered' = answered \/ (downloads[<<p, c>>] # None /\ answered' = answered \cup {a})
  BY DEF Recover
<1>2. Stored' = Stored
  BY <1>1, SteadyWhenSame, SteadyStored
<1>3. CASE answered' = answered
  BY <1>1, <1>2, <1>3, CallsSame
<1>4. CASE downloads[<<p, c>>] # None /\ answered' = answered \cup {a}
  <2>1. RecoverRight(e)
    BY DEF Events, Of, EInv, EventsRight, AllRecovers
  <2>2. p \in Peers /\ c \in Chunks /\ Asked("Get", p, c)
    BY <2>1, AskedFacts DEF RecoverRight, EInv
  <2>3. ~Answered("Get", p, c)
    BY <1>4, <2>2 DEF EInv, SlotsRight, AllFetches, DownloadsRight
  <2>4. Answered("Get", p, c)'
    <3>1. a \in answered' /\ a.op = "Get" /\ a.peer = p /\ a.chunk = c
      BY <1>4
    <3> HIDE DEF a, p, c
    <3> QED BY <3>1 DEF Answered
  <2>5. Call("Get", p, c) = "pending" /\ Call("Get", p, c)' = "ok"
    BY <2>2, <2>3, <2>4 DEF Call
  <2>6. ASSUME NEW o \in {"Put", "Get"}, NEW q \in Peers, NEW d \in Chunks, <<o, q, d>> # <<"Get", p, c>>
        PROVE  Call(o, q, d)' = Call(o, q, d)
    <3>1. Answered(o, q, d)' = Answered(o, q, d)
      BY <1>4, <2>6 DEF Answered
    <3> QED BY <1>1, <3>1 DEF Call, Asked
  <2>7. Gets' = [Gets EXCEPT ![<<p, c>>] = "ok"] /\ Puts' = Puts
    BY <2>2, <2>5, <2>6, CallMoves
  <2>8. Gets[<<p, c>>] = "pending"
    BY <2>2, <2>5, CallsTyped
  <2>9. c \in Stored
    <3>1. PICK b \in answered : b.op = "Put" /\ b.chunk = c
      BY <2>2, AskedFacts DEF EInv
    <3>2. Answered("Put", b.peer, c)
      BY <3>1 DEF Answered
    <3> QED BY <2>2, <3>2, AnsweredStored
  <2> QED BY <1>2, <2>2, <2>7, <2>8, <2>9 DEF Abs!StoreGetOk
<1> QED BY <1>1, <1>3, <1>4

(* StoreOk is the moment a chunk can be got from, while its put is         *)
(* pending, or nothing an application sees.                                *)
LEMMA StoreOkTakes ==
  ASSUME EInv, NEW e \in Events("StoreOk"), StoreOk(e)
  PROVE  Calls /\ (Stored' = Stored \/ \E c \in Chunks : Abs!StoreTake(c))
<1> DEFINE p == e.to
           c == e.chunk
           state == persists[<<p, c>>]
           w == [state EXCEPT !.status = "Available", !.notify = None]
<1>1. asked' = asked /\ answered' = answered
  BY DEF StoreOk, history
<1>2. Calls
  BY <1>1, CallsSame
<1>3. StoreOkRight(e)
  BY DEF Events, Of, EInv, EventsRight, AllStoreOks
<1>4. p \in Peers /\ c \in Chunks /\ <<p, c>> \in Slots /\ In(p, c, "Storing")
  BY <1>3 DEF StoreOkRight, Slots
<1>5. persists \in [Slots -> PersistStates \cup {None}] /\ state \in PersistStates
  BY <1>4 DEF EInv, SlotTypes, In, Invited
<1>6. persists' = [persists EXCEPT ![<<p, c>>] = w]
  BY <1>4, <1>5 DEF StoreOk, PersistStates
<1>7. w.index = state.index
  BY <1>5 DEF PersistStates
<1> HIDE DEF w
<1>8. /\ persists'[<<p, c>>] = w
      /\ \A q \in Peers, d \in Chunks : <<q, d>> # <<p, c>> => persists'[<<q, d>>] = persists[<<q, d>>]
  BY <1>4, <1>5, <1>6 DEF Slots
<1>9. \A d \in Chunks : d # c => StoredIndices(d)' = StoredIndices(d)
  <2> SUFFICES ASSUME NEW d \in Chunks, d # c PROVE StoredIndices(d)' = StoredIndices(d)
    OBVIOUS
  <2>1. \A q \in Peers : persists'[<<q, d>>] = persists[<<q, d>>]
    BY <1>8
  <2> QED BY <2>1 DEF StoredIndices
<1>10. StoredIndices(c) \subseteq StoredIndices(c)'
  <2> SUFFICES ASSUME NEW i \in StoredIndices(c) PROVE i \in StoredIndices(c)'
    OBVIOUS
  <2>1. PICK q \in Peers : persists[<<q, c>>] # None /\ persists[<<q, c>>].status = "Available"
                           /\ i = persists[<<q, c>>].index
    BY DEF StoredIndices
  <2>2. q # p
    BY <1>4, <2>1 DEF In
  <2>3. persists'[<<q, c>>] = persists[<<q, c>>]
    BY <1>4, <1>8, <2>2
  <2> QED BY <2>1, <2>3 DEF StoredIndices
<1>11. c \in Stored => c \in Stored'
  <2>1. Cardinality(StoredIndices(c)) <= Cardinality(StoredIndices(c)')
    BY <1>10, StoredFinite, FS_Subset
  <2>2. Cardinality(StoredIndices(c)) \in Nat /\ Cardinality(StoredIndices(c)') \in Nat
    BY StoredFinite, FS_CardinalityType
  <2> QED BY <2>1, <2>2, EntropyAssumption DEF Stored
<1>12. Stored' = Stored \/ (c \notin Stored /\ Stored' = Stored \cup {c})
  <2>1. \A d \in Chunks : d # c => (d \in Stored' <=> d \in Stored)
    BY <1>9 DEF Stored
  <2>2. Stored \subseteq Chunks /\ Stored' \subseteq Chunks
    BY DEF Stored
  <2> QED BY <1>4, <1>11, <2>1, <2>2
<1>13. ASSUME c \notin Stored PROVE \E u \in Peers : Puts[<<u, c>>] = "pending"
  <2>1. PersistRight(p, c) /\ Invited(p, c)
    BY <1>4 DEF EInv, SlotsRight, AllPersists, In
  <2>2. PICK u \in Peers : Asked("Put", u, c)
    BY <2>1 DEF PersistRight, Begun
  <2>3. ~Answered("Put", u, c)
    BY <1>4, <1>13, AnsweredStored
  <2>4. Call("Put", u, c) = "pending"
    BY <2>2, <2>3 DEF Call
  <2> QED BY <1>4, <2>4, CallsTyped
<1>14. ASSUME c \notin Stored, Stored' = Stored \cup {c} PROVE Abs!StoreTake(c)
  BY <1>2, <1>13, <1>14 DEF Abs!StoreTake, Calls
<1> QED BY <1>2, <1>4, <1>12, <1>14

(* Every step of the peers is a step of the store they offer, or none.  *)
LEMMA StepImplements ==
  ASSUME EInv, EInv', [EntropyNext]_entropyVars
  PROVE  [Abs!StoreNext]_(Abs!storeVars)
<1> DEFINE Silent == Stored' = Stored /\ Calls
<1>1. ASSUME Silent PROVE UNCHANGED Abs!storeVars
  BY <1>1 DEF Calls, Abs!storeVars
<1>2. CASE Application
  <2>1. PICK x \in Slots : Put(x[1], x[2]) \/ Get(x[1], x[2])
    BY <1>2 DEF Application
  <2>2. x[1] \in Peers /\ x[2] \in Chunks
    BY DEF Slots
  <2>3. CASE Put(x[1], x[2])
    <3>1. Abs!StorePut(x[1], x[2])
      BY <2>2, <2>3, PutCalls
    <3> QED BY <2>2, <3>1 DEF Abs!StoreNext
  <2>4. CASE Get(x[1], x[2])
    <3>1. Abs!StoreGet(x[1], x[2])
      BY <2>2, <2>4, GetCalls
    <3> QED BY <2>2, <3>1 DEF Abs!StoreNext
  <2> QED BY <2>1, <2>3, <2>4
<1>3. CASE \E e \in Events("FragmentAvailable") : RecvFragmentAvailable(e)
  <2>1. Stored' = Stored /\ (Calls \/ \E p \in Peers, c \in Chunks : Abs!StorePutOk(p, c))
    BY <1>3, AvailableCalls
  <2>2. CASE Calls
    BY <1>1, <2>1, <2>2
  <2>3. CASE \E p \in Peers, c \in Chunks : Abs!StorePutOk(p, c)
    BY <2>3 DEF Abs!StoreNext
  <2> QED BY <2>1, <2>2, <2>3
<1>4. CASE \E e \in Events("Recover") : Recover(e)
  <2>1. Stored' = Stored /\ (Calls \/ \E p \in Peers, c \in Chunks : Abs!StoreGetOk(p, c))
    BY <1>4, RecoverCalls
  <2>2. CASE Calls
    BY <1>1, <2>1, <2>2
  <2>3. CASE \E p \in Peers, c \in Chunks : Abs!StoreGetOk(p, c)
    BY <2>3 DEF Abs!StoreNext
  <2> QED BY <2>1, <2>2, <2>3
<1>5. CASE \E e \in Events("StoreOk") : StoreOk(e)
  <2>1. Calls /\ (Stored' = Stored \/ \E c \in Chunks : Abs!StoreTake(c))
    BY <1>5, StoreOkTakes
  <2>2. CASE Stored' = Stored
    BY <1>1, <2>1, <2>2
  <2>3. CASE \E c \in Chunks : Abs!StoreTake(c)
    BY <2>3 DEF Abs!StoreNext
  <2> QED BY <2>1, <2>2, <2>3
<1>6. ASSUME persists' = persists, asked' = asked, answered' = answered PROVE Silent
  BY <1>6, SteadyWhenSame, SteadyStored, CallsSame
<1>7. CASE \/ \E e \in Events("Invite") : RecvInvite(e)
           \/ \E e \in Events("RecvOffer") : RecvOffer(e)
           \/ \E e \in Events("DownloadOk") : DownloadOk(e)
           \/ \E e \in Events("Decode") : Decode(e)
           \/ \E e \in Events("RecoverEncode") : RecoverEncode(e)
  <2>1. Steady /\ Calls
    BY <1>7, InviteSteady, OfferSteady, DownloadSteady, DecodeSteady, RecoverEncodeSteady
  <2> QED BY <1>1, <2>1, SteadyStored
<1>8. CASE \/ \E e \in Events("NewEncoder") : NewEncoder(e)
           \/ \E e \in Events("InviteOk") : RecvInviteOk(e)
           \/ \E e \in Events("Encode") : Encode(e)
           \/ \E e \in Events("Pull") : RecvPull(e)
           \/ \E e \in Events("LoadOk") : LoadOk(e)
  <2>1. persists' = persists /\ asked' = asked /\ answered' = answered
    BY <1>8 DEF NewEncoder, RecvInviteOk, Encode, RecvPull, LoadOk, history
  <2> HIDE DEF Silent
  <2> QED BY <1>1, <1>6, <2>1
<1>9. CASE \/ \E t \in transfers : TransferOk(t) \/ TransferFail(t)
           \/ \E t \in fsTasks : FsStore(t) \/ FsLoad(t)
           \/ UNCHANGED entropyVars
  <2>1. persists' = persists /\ asked' = asked /\ answered' = answered
    BY <1>9 DEF TransferOk, TransferFail, FsStore, FsLoad, history, entropyVars
  <2> HIDE DEF Silent
  <2> QED BY <1>1, <1>6, <2>1
<1> QED BY <1>2, <1>3, <1>4, <1>5, <1>7, <1>8, <1>9 DEF EntropyNext, EntropyWork, Event

(* The store is empty and no call is made. *)
LEMMA InitImplements == EntropyInit => Abs!StoreInit
<1> SUFFICES ASSUME EntropyInit PROVE Abs!StoreInit
  OBVIOUS
<1>1. asked = {} /\ answered = {}
  BY DEF EntropyInit
<1>2. \A op, p, c : Call(op, p, c) = "idle"
  BY <1>1 DEF Call, Asked, Answered
<1>3. Puts = [x \in Peers \X Chunks |-> "idle"] /\ Gets = [x \in Peers \X Chunks |-> "idle"]
  BY <1>2 DEF Puts, Gets, Slots
<1>4. \A q \in Peers, c \in Chunks : persists[<<q, c>>] = None
  BY DEF EntropyInit, Slots
<1>5. \A c \in Chunks : StoredIndices(c) = {}
  BY <1>4 DEF StoredIndices
<1>6. Stored = {}
  BY <1>5, FS_EmptySet, EntropyAssumption DEF Stored
<1> QED BY <1>3, <1>6 DEF Abs!StoreInit

(* The peers implement the abstract store for every instance: PutOk comes  *)
(* for a chunk that ChunkN fragments of different indices are stored of,   *)
(* GetOk only for such a chunk, each once, and the chunk got retrievable   *)
(* while its put was pending (lib.rs:549, 684).                            *)
THEOREM ImplementsStore == EntropySpec => ImplementsChunkStore
<1>1. EInv /\ EInv' /\ [EntropyNext]_entropyVars => [Abs!StoreNext]_(Abs!storeVars)
  BY StepImplements
<1> QED BY <1>1, InitImplements, Invariance, PTL DEF EntropySpec, ImplementsChunkStore, Abs!StoreSpec
=============================================================================
