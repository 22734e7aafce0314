------------------------------ MODULE Multimap ------------------------------
(***************************************************************************)
(* What a FastHash table promises its users (common/fasthash.h): a         *)
(* multimap with room for Capacity entries, in which an entry shadows the  *)
(* older entries of its key until it is removed.                           *)
(*                                                                         *)
(* vals keeps the values of every key, the newest first; ret is what the   *)
(* last operation returned to its caller.                                  *)
(***************************************************************************)
EXTENDS Naturals, Sequences, FiniteSets

CONSTANTS
    Keys, Values,
    Capacity        \* the number of entries there is room for

VARIABLES vals, ret

Count == Cardinality(UNION {{k} \X DOMAIN vals[k] : k \in Keys})

Stored == UNION {{<<"item", k, vals[k][i]>> : i \in 1..Len(vals[k])} : k \in Keys}

MInit == vals = [k \in Keys |-> <<>>] /\ ret = <<"none">>

(* A full map refuses the entry and stays as it is.                        *)
MInsert(k, v) ==
    \/ /\ ret' = <<"ok">>
       /\ Count < Capacity
       /\ vals' = [vals EXCEPT ![k] = <<v>> \o @]
    \/ /\ ret' = <<"failed">>
       /\ Count = Capacity
       /\ UNCHANGED vals

(* The newest entry of the key goes; the one it shadowed is seen again.    *)
MRemove(k) ==
    \/ /\ ret' = <<"ok">>
       /\ vals[k] # <<>>
       /\ vals' = [vals EXCEPT ![k] = Tail(@)]
    \/ /\ ret' = <<"failed">>
       /\ vals[k] = <<>>
       /\ UNCHANGED vals

MLookup(k) ==
    /\ ret' = IF vals[k] = <<>> THEN <<"null">> ELSE <<"value", Head(vals[k])>>
    /\ UNCHANGED vals

(* Positions are those of some enumeration of the map, which may change    *)
(* whenever the map does.                                                  *)
MLookupByIndex(i) ==
    /\ \/ /\ i < Count
          /\ ret' \in Stored
       \/ /\ i >= Count
          /\ ret' = <<"null">>
    /\ UNCHANGED vals

MReset == ret' = <<"none">> /\ vals' = [k \in Keys |-> <<>>]

MNext ==
    \/ \E k \in Keys :
          \/ \E v \in Values : MInsert(k, v)
          \/ MRemove(k)
          \/ MLookup(k)
    \/ \E i \in 0..Capacity : MLookupByIndex(i)
    \/ MReset

MSpec == MInit /\ [][MNext]_<<vals, ret>>
=============================================================================
