----------------------------- MODULE MCFastHash -----------------------------
EXTENDS FastHash, TLC

CONSTANTS k1, k2, k3

(* Three keys of which the first two collide.                              *)
MCHash == (k1 :> 3) @@ (k2 :> 3) @@ (k3 :> 4)

(* The colliding keys have the same hash, and values are never compared.   *)
HashSymmetry ==
    {f @@ g : f \in Permutations({k1, k2}), g \in Permutations(Values)}
=============================================================================
