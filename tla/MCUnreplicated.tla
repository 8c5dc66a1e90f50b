--------------------------- MODULE MCUnreplicated ---------------------------
(* An instance of Unreplicated for TLC: two clients, one of which goes on  *)
(* to a second operation, so that what is left of the first one can meet   *)
(* it while the other client is served.                                    *)
EXTENDS Unreplicated, TLC

CONSTANTS c1, c2

MCNumOps == c1 :> 2 @@ c2 :> 1
=============================================================================
