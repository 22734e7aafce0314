------------------------------ MODULE FastHash ------------------------------
(***************************************************************************)
(* The fixed-capacity hash table every part of the server keeps its state  *)
(* in: FastHashBase of common/fasthash.h.  It never allocates: FSize item  *)
(* nodes move between a free list and TSize chains, and a circular array   *)
(* of node numbers gives access by position.  The array is kept in step    *)
(* with the chains as long as that is cheap, and marked invalid otherwise; *)
(* the next access by position then rebuilds it.                           *)
(*                                                                         *)
(* A linked list is the sequence of the numbers of its nodes.  A free      *)
(* node keeps the item it held, and _indexlist what was written to it,     *)
(* so that a stale entry can be seen if anything reads it.                 *)
(***************************************************************************)
EXTENDS Naturals, Sequences, FiniteSets

CONSTANTS
    Keys, Values,
    FSize,          \* _fsize: the number of item nodes
    TSize,          \* _tsize: the number of chains
    Hash,           \* FastHash_Hash
    Junk            \* a cell nothing has been written to

Slots   == 0..(FSize - 1)
Buckets == 0..(TSize - 1)

ASSUME FastHashAssumption ==
    /\ FSize \in Nat \ {0}
    /\ TSize \in Nat \ {0}
    /\ Hash \in [Keys -> Nat]
    /\ Junk \notin Slots

VARIABLES
    nodes,          \* _nodes: the item of every node
    freelist,       \* _freelist
    lookuptable,    \* _lookuptable
    indexlist, fIndexValid, indexStart,
    size,           \* _size
    ret             \* what the last operation returned

chains == <<nodes, freelist, lookuptable, size>>
index  == <<indexlist, fIndexValid, indexStart>>
vars   == <<chains, index, ret>>

SX == INSTANCE SequencesExt

Bucket(k) == Hash[k] % TSize

(* The place in its chain of the first node that holds the key: 0 if none. *)
Find(k) == SX!SelectInSeq(lookuptable[Bucket(k)], LAMBDA n : nodes[n].key = k)

NewNodeFirst_Last(chain, n) == Append(chain, n)

(* pInsert->pNext = pHead: the newest node leads its chain.                *)
NewNodeFirst(chain, n) == <<n>> \o chain

(* -------- the index list ------------------------------------------------ *)

UpdateIndexWithAdd(n) ==
    /\ indexlist' =
          IF fIndexValid /\ size < FSize
          THEN [indexlist EXCEPT ![(size + indexStart) % FSize] = n]
          ELSE indexlist
    /\ UNCHANGED <<fIndexValid, indexStart>>

IsFirst(n) == n = indexlist[indexStart]
IsLast(n)  == n = indexlist[(indexStart + (size - 1)) % FSize]

StartAfterRemove(n) == IF IsFirst(n) THEN (indexStart + 1) % FSize ELSE indexStart

ValidAfterRemove_Always(n) == TRUE

(* The first and the last entry can leave the index without a hole.        *)
ValidAfterRemove(n) == IsFirst(n) \/ IsLast(n)

(* An emptied table has a valid index again; an invalid index stays so.    *)
UpdateIndexWithRemove(n) ==
    /\ \/ size = 1 /\ fIndexValid' = TRUE /\ indexStart' = 0
       \/ size > 1 /\ ~fIndexValid /\ UNCHANGED <<fIndexValid, indexStart>>
       \/ /\ size > 1 /\ fIndexValid
          /\ indexStart' = StartAfterRemove(n)
          /\ fIndexValid' = ValidAfterRemove(n)
    /\ UNCHANGED indexlist

(* The chains one after the other, from the first to the last.             *)
InChainOrder == SX!FlattenSeq([b \in 1..TSize |-> lookuptable[b - 1]])

(* The index list LookupByIndex reads, rebuilt first if it is not valid.   *)
ReIndex ==
    [i \in Slots |->
        IF ~fIndexValid /\ i < Len(InChainOrder)
        THEN InChainOrder[i + 1] ELSE indexlist[i]]

NodeAtIndex(i) == ReIndex[((IF fIndexValid THEN indexStart ELSE 0) + i) % FSize]

(* -------- the operations ------------------------------------------------ *)

ResetLists ==
    /\ lookuptable' = [b \in Buckets |-> <<>>]
    /\ freelist' = [x \in 1..FSize |-> x - 1]
    /\ size' = 0
    /\ fIndexValid' = TRUE
    /\ indexStart' = 0

Init ==
    /\ nodes = [n \in Slots |-> [key |-> Junk, value |-> Junk]]
    /\ lookuptable = [b \in Buckets |-> <<>>]
    /\ freelist = [x \in 1..FSize |-> x - 1]
    /\ indexlist = [i \in Slots |-> Junk]
    /\ fIndexValid = TRUE
    /\ indexStart = 0
    /\ size = 0
    /\ ret = <<"none">>

Reset == ResetLists /\ ret' = <<"none">> /\ UNCHANGED <<nodes, indexlist>>

Insert(k, v) ==
    LET n == Head(freelist)
    IN  \/ /\ freelist = <<>>
           /\ ret' = <<"failed">>
           /\ UNCHANGED <<chains, index>>
        \/ /\ freelist # <<>>
           /\ freelist' = Tail(freelist)
           /\ nodes' = [nodes EXCEPT ![n] = [key |-> k, value |-> v]]
           /\ lookuptable' = [lookuptable EXCEPT ![Bucket(k)] = NewNodeFirst(@, n)]
           /\ UpdateIndexWithAdd(n)
           /\ size' = size + 1
           /\ ret' = <<"ok">>

Unlink_Head(chain, i) == SubSeq(chain, i + 1, Len(chain))

(* pPrev->pNext = pNext, or the head of the chain if there is no pPrev.     *)
Unlink(chain, i) == SubSeq(chain, 1, i - 1) \o SubSeq(chain, i + 1, Len(chain))

Remove(k) ==
    LET n == lookuptable[Bucket(k)][Find(k)]
    IN  \/ /\ Find(k) = 0
           /\ ret' = <<"failed">>
           /\ UNCHANGED <<chains, index>>
        \/ /\ Find(k) # 0
           /\ lookuptable' = [lookuptable EXCEPT ![Bucket(k)] = Unlink(@, Find(k))]
           /\ UpdateIndexWithRemove(n)
           /\ freelist' = <<n>> \o freelist
           /\ size' = size - 1
           /\ ret' = <<"ok">>
           /\ UNCHANGED nodes

Lookup(k) ==
    /\ ret' = IF Find(k) = 0 THEN <<"null">>
              ELSE <<"value", nodes[lookuptable[Bucket(k)][Find(k)]].value>>
    /\ UNCHANGED <<chains, index>>

LookupByIndex(i) ==
    \/ /\ i >= size
       /\ ret' = <<"null">>
       /\ UNCHANGED <<chains, index>>
    \/ /\ i < size
       /\ indexlist' = ReIndex
       /\ fIndexValid' = TRUE
       /\ indexStart' = IF fIndexValid THEN indexStart ELSE 0
       /\ ret' = LET item == nodes[NodeAtIndex(i)] IN <<"item", item.key, item.value>>
       /\ UNCHANGED chains

Next ==
    \/ \E k \in Keys :
          \/ \E v \in Values : Insert(k, v)
          \/ Remove(k)
          \/ Lookup(k)
    \/ \E i \in 0..FSize : LookupByIndex(i)
    \/ Reset

Spec == Init /\ [][Next]_vars

(* -------- properties ---------------------------------------------------- *)

Places(n) ==
    {<<"free", i>> : i \in {j \in 1..Len(freelist) : freelist[j] = n}} \cup
    UNION {{<<b, i>> : i \in {j \in 1..Len(lookuptable[b]) : lookuptable[b][j] = n}}
           : b \in Buckets}

Live == UNION {{lookuptable[b][i] : i \in 1..Len(lookuptable[b])} : b \in Buckets}

(* After any sequence of Insert, Remove and Reset, every item node is on    *)
(* the free list or in one chain, once; _size counts the nodes in chains,   *)
(* and a node is in the chain Find will search for its key.                 *)
NodesAccounted ==
    /\ \A n \in Slots : Cardinality(Places(n)) = 1
    /\ size = Cardinality(Live)
    /\ \A b \in Buckets : \A i \in 1..Len(lookuptable[b]) :
          LET k == nodes[lookuptable[b][i]].key IN k \in Keys /\ Bucket(k) = b

(* A loop over LookupByIndex(0 .. Size()-1) meets every stored entry once   *)
(* and nothing else: neither the shortcuts that keep the circular list      *)
(* valid nor its wrap-around may show a removed entry or hide a live one.   *)
EnumerationIsExact ==
    /\ {NodeAtIndex(i) : i \in 0..(size - 1)} = Live
    /\ Cardinality(Live) = size

(* The values of a key, in the order in which Find meets them.             *)
ValuesOf(k) ==
    LET chain == lookuptable[Bucket(k)]
    IN  SX!FlattenSeq([i \in 1..Len(chain) |->
            IF nodes[chain[i]].key = k THEN <<nodes[chain[i]].value>> ELSE <<>>])

Abs == INSTANCE Multimap
    WITH Capacity <- FSize, vals <- [k \in Keys |-> ValuesOf(k)]

(* The table of chains, free list and index is a bounded multimap: what    *)
(* each operation returns and what it leaves stored is what Multimap says. *)
ImplementsMultimap == Abs!MSpec
=============================================================================
