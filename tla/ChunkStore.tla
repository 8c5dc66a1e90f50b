----------------------------- MODULE ChunkStore -----------------------------
(***************************************************************************)
(* What the storage network promises to the applications at its peers: a   *)
(* chunk that is put is stored at some moment between the call and PutOk,  *)
(* a get is answered, if it is answered, once, and only for a chunk that   *)
(* is stored.                                                              *)
(***************************************************************************)
CONSTANTS Peers, Chunks

VARIABLES
    storePut,   \* storePut[<<p, c>>]: the put of chunk c at peer p
    storeGet,   \* storeGet[<<p, c>>]: the get of chunk c at peer p
    stored      \* the chunks that can be got

storeVars == <<storePut, storeGet, stored>>

StoreInit ==
    /\ storePut = [x \in Peers \X Chunks |-> "idle"]
    /\ storeGet = [x \in Peers \X Chunks |-> "idle"]
    /\ stored = {}

StorePut(p, c) ==
    /\ storePut[<<p, c>>] = "idle"
    /\ storePut' = [storePut EXCEPT ![<<p, c>>] = "pending"]
    /\ UNCHANGED <<storeGet, stored>>

(* The chunk becomes retrievable, unobserved by anybody. *)
StoreTake(c) ==
    /\ c \notin stored /\ \E p \in Peers : storePut[<<p, c>>] = "pending"
    /\ stored' = stored \cup {c}
    /\ UNCHANGED <<storePut, storeGet>>

StorePutOk(p, c) ==
    /\ storePut[<<p, c>>] = "pending" /\ c \in stored
    /\ storePut' = [storePut EXCEPT ![<<p, c>>] = "ok"]
    /\ UNCHANGED <<storeGet, stored>>

StoreGet(p, c) ==
    /\ storeGet[<<p, c>>] = "idle"
    /\ storeGet' = [storeGet EXCEPT ![<<p, c>>] = "pending"]
    /\ UNCHANGED <<storePut, stored>>

StoreGetOk(p, c) ==
    /\ storeGet[<<p, c>>] = "pending" /\ c \in stored
    /\ storeGet' = [storeGet EXCEPT ![<<p, c>>] = "ok"]
    /\ UNCHANGED <<storePut, stored>>

StoreNext ==
    \E c \in Chunks :
        \/ StoreTake(c)
        \/ \E p \in Peers :
              StorePut(p, c) \/ StorePutOk(p, c) \/ StoreGet(p, c) \/ StoreGetOk(p, c)

StoreSpec == StoreInit /\ [][StoreNext]_storeVars
=============================================================================
