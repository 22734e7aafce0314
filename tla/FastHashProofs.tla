--------------------------- MODULE FastHashProofs ---------------------------
(***************************************************************************)
(* Proofs about FastHashBase for any number of nodes and chains, any hash  *)
(* and any sequence of operations: no node is ever lost, linked twice or   *)
(* both free and in use.                                                   *)
(***************************************************************************)
EXTENDS FastHash, FiniteSetTheorems, SequenceTheorems, WellFoundedInduction, TLAPS

ChainTypes ==
    /\ freelist \in Seq(Slots)
    /\ lookuptable \in [Buckets -> Seq(Slots)]
    /\ nodes = [n \in Slots |-> nodes[n]]

InChain(n, b) == \E i \in 1..Len(lookuptable[b]) : lookuptable[b][i] = n
IsFree(n)     == \E i \in 1..Len(freelist) : freelist[i] = n

FreeOnce ==
    \A i, j \in 1..Len(freelist) : freelist[i] = freelist[j] => i = j

ChainedOnce ==
    \A b, c \in Buckets : \A i \in 1..Len(lookuptable[b]), j \in 1..Len(lookuptable[c]) :
        lookuptable[b][i] = lookuptable[c][j] => b = c /\ i = j

Apart == \A n \in Slots, b \in Buckets : ~(IsFree(n) /\ InChain(n, b))

Covered == \A n \in Slots : IsFree(n) \/ \E b \in Buckets : InChain(n, b)

Keyed ==
    \A b \in Buckets : \A i \in 1..Len(lookuptable[b]) :
        LET k == nodes[lookuptable[b][i]].key IN k \in Keys /\ Bucket(k) = b

IInv ==
    /\ ChainTypes
    /\ FreeOnce /\ ChainedOnce /\ Apart /\ Covered
    /\ Keyed
    /\ size = Cardinality(Live)

-----------------------------------------------------------------------------
(* -------- sequences, and what the operations do to them ----------------- *)

(* The first of a set of places.                                           *)
LEMMA FirstPlace ==
    ASSUME NEW I \in SUBSET Nat, I # {}
    PROVE  \E x \in I : \A y \in I : x =< y
  <1> DEFINE R == OpToRel(<, Nat)
  <1>1. IsWellFoundedOn(R, Nat)
    BY NatLessThanWellFounded
  <1>2. \A x, y \in Nat : y < x => <<y, x>> \in R
    BY DEF OpToRel
  <1> HIDE DEF R
  <1>3. PICK x \in I : \A y \in I : ~(<<y, x>> \in R)
    BY <1>1, WFMin
  <1>4. \A y \in I : ~(y < x)
    BY <1>2, <1>3
  <1>5. QED
    BY <1>4

LEMMA FindPlace ==
    ASSUME NEW k, Find(k) # 0
    PROVE  Find(k) \in 1..Len(lookuptable[Bucket(k)])
  <1> DEFINE chain == lookuptable[Bucket(k)]
             I == {i \in 1..Len(chain) : nodes[chain[i]].key = k}
  <1>1. Find(k) = IF I # {} THEN CHOOSE x \in I : \A y \in I : x =< y ELSE 0
    BY DEF Find, SX!SelectInSeq, SX!Min
  <1>2. I \in SUBSET Nat
    OBVIOUS
  <1>3. QED
    BY <1>1, <1>2, FirstPlace

(* A node is put in front of a chain, or of the free list.                 *)
LEMMA PutFirst ==
    ASSUME NEW chain \in Seq(Slots), NEW n \in Slots
    PROVE  /\ <<n>> \o chain \in Seq(Slots)
           /\ Len(<<n>> \o chain) = Len(chain) + 1
           /\ (<<n>> \o chain)[1] = n
           /\ \A i \in 1..Len(chain) : (<<n>> \o chain)[i + 1] = chain[i]
  <1>1. <<n>> \in Seq(Slots) /\ Len(<<n>>) = 1 /\ <<n>>[1] = n
    OBVIOUS
  <1>2. /\ <<n>> \o chain \in Seq(Slots)
        /\ Len(<<n>> \o chain) = 1 + Len(chain)
        /\ \A i \in 1..(1 + Len(chain)) :
              (<<n>> \o chain)[i] = IF i <= 1 THEN <<n>>[i] ELSE chain[i - 1]
    BY <1>1, ConcatProperties
  <1>3. Len(chain) \in Nat
    OBVIOUS
  <1>4. (<<n>> \o chain)[1] = n
    BY <1>1, <1>2, <1>3
  <1>5. ASSUME NEW i \in 1..Len(chain) PROVE (<<n>> \o chain)[i + 1] = chain[i]
    <2>1. i + 1 \in 1..(1 + Len(chain)) /\ ~(i + 1 <= 1) /\ (i + 1) - 1 = i
      BY <1>3
    <2>2. QED
      BY <1>2, <2>1
  <1>6. QED
    BY <1>2, <1>3, <1>4, <1>5

(* The nodes behind the unlinked one move up by one place.                 *)
LEMMA Unlinked ==
    ASSUME NEW chain \in Seq(Slots), NEW i \in 1..Len(chain)
    PROVE  /\ Unlink(chain, i) \in Seq(Slots)
           /\ Len(Unlink(chain, i)) = Len(chain) - 1
           /\ \A j \in 1..(Len(chain) - 1) :
                 Unlink(chain, i)[j] = IF j < i THEN chain[j] ELSE chain[j + 1]
  <1> DEFINE n == Len(chain)
             front == SubSeq(chain, 1, i - 1)
             back  == SubSeq(chain, i + 1, n)
  <1>1. n \in Nat /\ i \in Int /\ \A j \in 1..n : chain[j] \in Slots
    OBVIOUS
  <1>2. /\ front \in Seq(Slots) /\ Len(front) = i - 1
        /\ \A j \in 1..(i - 1) : front[j] = chain[j]
    BY <1>1
  <1>3. /\ back \in Seq(Slots) /\ Len(back) = n - i
        /\ \A j \in 1..(n - i) : back[j] = chain[j + i]
    BY <1>1
  <1>4. Unlink(chain, i) = front \o back
    BY DEF Unlink
  <1> HIDE DEF front, back
  <1>5. /\ front \o back \in Seq(Slots)
        /\ Len(front \o back) = Len(front) + Len(back)
        /\ \A j \in 1..(Len(front) + Len(back)) :
              (front \o back)[j] = IF j <= Len(front) THEN front[j] ELSE back[j - Len(front)]
    BY <1>2, <1>3, ConcatProperties
  <1>6. /\ front \o back \in Seq(Slots)
        /\ Len(front \o back) = (i - 1) + (n - i)
        /\ \A j \in 1..((i - 1) + (n - i)) :
              (front \o back)[j] = IF j <= i - 1 THEN front[j] ELSE back[j - (i - 1)]
    BY <1>2, <1>3, <1>5
  <1>7. (i - 1) + (n - i) = n - 1
    BY <1>1
  <1>8. ASSUME NEW j \in 1..(n - 1)
        PROVE  (front \o back)[j] = IF j < i THEN chain[j] ELSE chain[j + 1]
    <2>1. CASE j < i
      <3>1. j \in 1..(i - 1) /\ j <= i - 1
        BY <1>1, <2>1
      <3>2. QED
        BY <1>2, <1>6, <1>7, <2>1, <3>1
    <2>2. CASE ~(j < i)
      <3>1. /\ j - (i - 1) \in 1..(n - i) /\ ~(j <= i - 1)
            /\ (j - (i - 1)) + i = j + 1
        BY <1>1, <2>2
      <3>2. QED
        BY <1>3, <1>6, <1>7, <2>2, <3>1
    <2>3. QED
      BY <2>1, <2>2
  <1>9. QED
    BY <1>4, <1>6, <1>7, <1>8

LEMMA LiveFinite ==
    ASSUME ChainTypes
    PROVE  /\ IsFiniteSet(Live) /\ Live \subseteq Slots
           /\ \A n : n \in Live <=> \E b \in Buckets : InChain(n, b)
  <1>1. \A n : n \in Live <=> \E b \in Buckets : InChain(n, b)
    BY DEF Live, InChain
  <1>2. Live \subseteq Slots
    BY <1>1 DEF ChainTypes, InChain
  <1>3. IsFiniteSet(Slots)
    BY FS_Interval, FastHashAssumption DEF Slots, FastHashAssumption
  <1>4. QED
    BY <1>1, <1>2, <1>3, FS_Subset

LEMMA LiveFiniteNext ==
    ChainTypes' => /\ Live' \subseteq Slots
                   /\ \A n : n \in Live' <=> \E b \in Buckets : InChain(n, b)'
  <1> DEFINE LiveIs == \A n : n \in Live <=> \E b \in Buckets : InChain(n, b)
  <1>1. ChainTypes => Live \subseteq Slots /\ LiveIs
    BY LiveFinite
  <1>2. ChainTypes' => (Live \subseteq Slots)' /\ LiveIs'
    BY <1>1, PTL
  <1>3. QED
    BY <1>2

(* Every node is in one place: what the invariant is for.                  *)
LEMMA InOnePlace ==
    ASSUME IInv, NEW n \in Slots
    PROVE  Cardinality(Places(n)) = 1
  <1>1. \A x : x \in Places(n) <=>
           \/ \E i \in 1..Len(freelist) : freelist[i] = n /\ x = <<"free", i>>
           \/ \E b \in Buckets : \E i \in 1..Len(lookuptable[b]) :
                 lookuptable[b][i] = n /\ x = <<b, i>>
    BY DEF Places
  <1>2. \E x : Places(n) = {x}
    <2>1. CASE IsFree(n)
      <3>1. PICK i \in 1..Len(freelist) : freelist[i] = n
        BY <2>1 DEF IsFree
      <3>2. \A b \in Buckets : ~InChain(n, b)
        BY <2>1 DEF IInv, Apart
      <3>3. Places(n) = {<<"free", i>>}
        BY <1>1, <3>1, <3>2 DEF IInv, FreeOnce, InChain
      <3>4. QED
        BY <3>3
    <2>2. CASE ~IsFree(n)
      <3>1. PICK b \in Buckets : InChain(n, b)
        BY <2>2 DEF IInv, Covered
      <3>2. PICK i \in 1..Len(lookuptable[b]) : lookuptable[b][i] = n
        BY <3>1 DEF InChain
      <3>3. Places(n) = {<<b, i>>}
        BY <1>1, <2>2, <3>2 DEF IInv, ChainedOnce, IsFree
      <3>4. QED
        BY <3>3
    <2>3. QED
      BY <2>1, <2>2
  <1>3. QED
    BY <1>2, FS_Singleton

-----------------------------------------------------------------------------

(* The lists of a new table, and of one that was reset.                    *)
LEMMA ResetInvariant ==
    ASSUME lookuptable = [b \in Buckets |-> <<>>],
           freelist = [x \in 1..FSize |-> x - 1],
           nodes = [n \in Slots |-> nodes[n]], size = 0
    PROVE  IInv
  <1>1. FSize \in Nat
    BY FastHashAssumption DEF FastHashAssumption
  <1>2. freelist \in Seq(Slots) /\ Len(freelist) = FSize
    <2>1. \A x \in 1..FSize : x - 1 \in Slots
      BY <1>1 DEF Slots
    <2>2. QED
      BY <1>1, <2>1
  <1>3. \A b \in Buckets : lookuptable[b] = <<>> /\ Len(lookuptable[b]) = 0
    OBVIOUS
  <1>4. ChainTypes
    BY <1>2 DEF ChainTypes
  <1>5. FreeOnce
    BY <1>1, <1>2 DEF FreeOnce
  <1>6. ChainedOnce /\ Apart /\ Keyed
    BY <1>3 DEF ChainedOnce, Apart, Keyed, InChain
  <1>7. Covered
    <2>1. ASSUME NEW n \in Slots PROVE IsFree(n)
      <3>1. n + 1 \in 1..FSize /\ (n + 1) - 1 = n
        BY <1>1 DEF Slots
      <3>2. QED
        BY <1>2, <3>1 DEF IsFree
    <2>2. QED
      BY <2>1 DEF Covered
  <1>8. size = Cardinality(Live)
    <2>1. Live = {}
      BY <1>3, <1>4, LiveFinite DEF InChain
    <2>2. QED
      BY <2>1, FS_EmptySet
  <1>9. QED
    BY <1>4, <1>5, <1>6, <1>7, <1>8 DEF IInv

(* What leaves the lists alone keeps the invariant.                        *)
LEMMA StepUnchanged == IInv /\ UNCHANGED chains => IInv'
  BY DEF IInv, ChainTypes, FreeOnce, ChainedOnce, Apart, Covered, Keyed, Live,
         InChain, IsFree, chains

(* A node leaves the free list and leads a chain.                          *)
LEMMA LinkNode ==
    ASSUME IInv, NEW k \in Keys, NEW v \in Values,
           freelist # <<>>,
           freelist' = Tail(freelist),
           nodes' = [nodes EXCEPT ![Head(freelist)] = [key |-> k, value |-> v]],
           lookuptable' = [lookuptable EXCEPT ![Bucket(k)] = NewNodeFirst(@, Head(freelist))],
           size' = size + 1
    PROVE  /\ IInv'
           /\ Head(freelist) \in Slots
           /\ Live' = Live \cup {Head(freelist)} /\ Head(freelist) \notin Live
  <1> PICK n : n = Head(freelist)
    OBVIOUS
  <1> DEFINE m == Len(freelist)
             c == Bucket(k)
             old == lookuptable[c]
             new == <<n>> \o old
  <1>1. c \in Buckets
    BY FastHashAssumption DEF FastHashAssumption, Bucket, Buckets
  <1>2. /\ freelist \in Seq(Slots) /\ old \in Seq(Slots)
        /\ lookuptable \in [Buckets -> Seq(Slots)]
    BY <1>1 DEF IInv, ChainTypes
  <1>3. /\ n \in Slots /\ n = freelist[1] /\ m \in Nat \ {0} /\ 1 \in 1..m
        /\ freelist' \in Seq(Slots) /\ Len(freelist') = m - 1
        /\ \A i \in 1..(m - 1) : freelist'[i] = freelist[i + 1] /\ i + 1 \in 1..m
    BY <1>2
  <1>4. /\ new \in Seq(Slots) /\ Len(new) = Len(old) + 1 /\ new[1] = n
        /\ \A i \in 1..Len(old) : new[i + 1] = old[i]
    BY <1>2, <1>3, PutFirst
  <1>5. /\ lookuptable'[c] = new
        /\ \A b \in Buckets : b # c => lookuptable'[b] = lookuptable[b]
        /\ lookuptable' \in [Buckets -> Seq(Slots)]
    BY <1>1, <1>2, <1>4 DEF NewNodeFirst
  <1>6. /\ nodes'[n].key = k
        /\ \A x \in Slots : x # n => nodes'[x] = nodes[x]
        /\ nodes' = [x \in Slots |-> nodes'[x]]
    BY <1>3 DEF IInv, ChainTypes
  <1>7. IsFree(n) /\ \A b \in Buckets : ~InChain(n, b)
    BY <1>3 DEF IInv, Apart, IsFree
  <1> HIDE DEF m, c, old, new
  <1>8. ASSUME NEW b \in Buckets, NEW i \in 1..Len(lookuptable'[b])
        PROVE  \/ b = c /\ i = 1 /\ lookuptable'[b][i] = n
               \/ /\ b = c /\ i # 1 /\ i - 1 \in 1..Len(lookuptable[b])
                  /\ lookuptable'[b][i] = lookuptable[b][i - 1]
               \/ /\ b # c /\ i \in 1..Len(lookuptable[b])
                  /\ lookuptable'[b][i] = lookuptable[b][i]
    <2>1. CASE b = c
      <3>1. Len(old) \in Nat /\ old = lookuptable[b] /\ lookuptable'[b] = new
        BY <1>2, <1>5, <2>1 DEF old
      <3>2. i = 1 \/ (i - 1 \in 1..Len(old) /\ (i - 1) + 1 = i)
        BY <1>4, <1>8, <3>1
      <3>3. QED
        BY <1>4, <2>1, <3>1, <3>2
    <2>2. CASE b # c
      BY <1>5, <1>8, <2>2
    <2>3. QED
      BY <2>1, <2>2
  <1>9. \A x \in Slots, b \in Buckets : InChain(x, b)' <=> InChain(x, b) \/ (x = n /\ b = c)
    <2>1. ASSUME NEW x \in Slots, NEW b \in Buckets, InChain(x, b)'
          PROVE  InChain(x, b) \/ (x = n /\ b = c)
      <3>1. PICK i \in 1..Len(lookuptable'[b]) : lookuptable'[b][i] = x
        BY <2>1 DEF InChain
      <3>2. \/ b = c /\ x = n
            \/ \E j \in 1..Len(lookuptable[b]) : x = lookuptable[b][j]
        BY <1>8, <3>1
      <3>3. QED
        BY <3>2 DEF InChain
    <2>2. InChain(n, c)'
      <3>1. 1 \in 1..Len(new)
        BY <1>2, <1>4 DEF old
      <3>2. QED
        BY <1>1, <1>4, <1>5, <3>1 DEF InChain
    <2>3. ASSUME NEW x \in Slots, NEW b \in Buckets, InChain(x, b)
          PROVE  InChain(x, b)'
      <3>1. PICK i \in 1..Len(lookuptable[b]) : lookuptable[b][i] = x
        BY <2>3 DEF InChain
      <3>2. CASE b = c
        <4>1. i + 1 \in 1..Len(new) /\ new[i + 1] = x
          BY <1>2, <1>4, <3>1, <3>2 DEF old
        <4>2. QED
          BY <1>5, <3>2, <4>1 DEF InChain
      <3>3. CASE b # c
        BY <1>5, <2>3, <3>3 DEF InChain
      <3>4. QED
        BY <3>2, <3>3
    <2>4. QED
      BY <2>1, <2>2, <2>3
  <1>10. \A x \in Slots : IsFree(x)' <=> IsFree(x) /\ x # n
    <2>1. ASSUME NEW x \in Slots, IsFree(x)' PROVE IsFree(x) /\ x # n
      <3>1. PICK i \in 1..(m - 1) : freelist'[i] = x
        BY <1>3, <2>1 DEF IsFree
      <3>2. i + 1 \in 1..m /\ freelist[i + 1] = x /\ i + 1 # 1
        BY <1>3, <3>1
      <3>3. QED
        BY <1>3, <3>2 DEF IsFree, IInv, FreeOnce, m
    <2>2. ASSUME NEW x \in Slots, IsFree(x), x # n PROVE IsFree(x)'
      <3>1. PICK i \in 1..m : freelist[i] = x
        BY <2>2 DEF IsFree, m
      <3>2. i # 1
        BY <1>3, <2>2, <3>1
      <3>3. i - 1 \in 1..(m - 1) /\ (i - 1) + 1 = i
        BY <1>3, <3>1, <3>2
      <3>4. freelist'[i - 1] = x
        BY <1>3, <3>1, <3>3
      <3>5. QED
        BY <1>3, <3>3, <3>4 DEF IsFree
    <2>3. QED
      BY <2>1, <2>2
  <1>11. ChainTypes'
    BY <1>3, <1>5, <1>6 DEF ChainTypes
  <1>12. FreeOnce'
    <2>1. ASSUME NEW i \in 1..(m - 1), NEW j \in 1..(m - 1), freelist'[i] = freelist'[j]
          PROVE  i = j
      <3>1. freelist[i + 1] = freelist[j + 1] /\ i + 1 \in 1..m /\ j + 1 \in 1..m
        BY <1>3, <2>1
      <3>2. i + 1 = j + 1
        BY <3>1 DEF IInv, FreeOnce, m
      <3>3. QED
        BY <3>2
    <2>2. QED
      BY <1>3, <2>1 DEF FreeOnce
  <1>13. ChainedOnce'
    <2>1. \A b \in Buckets : \A i \in 1..Len(lookuptable[b]) : lookuptable[b][i] # n
      BY <1>7 DEF InChain
    <2>2. ASSUME NEW b \in Buckets, NEW d \in Buckets,
                 NEW i \in 1..Len(lookuptable'[b]), NEW j \in 1..Len(lookuptable'[d]),
                 lookuptable'[b][i] = lookuptable'[d][j]
          PROVE  b = d /\ i = j
      <3>1. \/ b = c /\ i = 1 /\ lookuptable'[b][i] = n
            \/ /\ b = c /\ i # 1 /\ i - 1 \in 1..Len(lookuptable[b])
               /\ lookuptable'[b][i] = lookuptable[b][i - 1]
            \/ /\ b # c /\ i \in 1..Len(lookuptable[b])
               /\ lookuptable'[b][i] = lookuptable[b][i]
        BY <1>8
      <3>2. \/ d = c /\ j = 1 /\ lookuptable'[d][j] = n
            \/ /\ d = c /\ j # 1 /\ j - 1 \in 1..Len(lookuptable[d])
               /\ lookuptable'[d][j] = lookuptable[d][j - 1]
            \/ /\ d # c /\ j \in 1..Len(lookuptable[d])
               /\ lookuptable'[d][j] = lookuptable[d][j]
        BY <1>8
      <3>3. i \in Int /\ j \in Int
        OBVIOUS
      <3>4. \A x \in 1..Len(lookuptable[b]), y \in 1..Len(lookuptable[d]) :
               lookuptable[b][x] = lookuptable[d][y] => b = d /\ x = y
        BY DEF IInv, ChainedOnce
      <3>5. CASE b = c /\ i = 1
        BY <2>1, <2>2, <3>1, <3>2, <3>5
      <3>6. CASE d = c /\ j = 1
        BY <2>1, <2>2, <3>1, <3>2, <3>6
      <3>7. CASE ~(b = c /\ i = 1) /\ ~(d = c /\ j = 1)
        <4>1. PICK x \in 1..Len(lookuptable[b]) :
                 /\ lookuptable'[b][i] = lookuptable[b][x]
                 /\ x = IF b = c THEN i - 1 ELSE i
          BY <3>1, <3>7
        <4>2. PICK y \in 1..Len(lookuptable[d]) :
                 /\ lookuptable'[d][j] = lookuptable[d][y]
                 /\ y = IF d = c THEN j - 1 ELSE j
          BY <3>2, <3>7
        <4>3. b = d /\ x = y
          BY <2>2, <3>4, <4>1, <4>2
        <4>4. QED
          BY <3>3, <4>1, <4>2, <4>3
      <3>8. QED
        BY <3>5, <3>6, <3>7
    <2>3. QED
      BY <2>2 DEF ChainedOnce
  <1>14. Apart'
    BY <1>3, <1>9, <1>10 DEF IInv, Apart
  <1>15. Covered'
    BY <1>1, <1>9, <1>10 DEF IInv, Covered
  <1>16. Keyed'
    <2>1. ASSUME NEW b \in Buckets, NEW i \in 1..Len(lookuptable'[b])
          PROVE  nodes'[lookuptable'[b][i]].key \in Keys /\ Bucket(nodes'[lookuptable'[b][i]].key) = b
      <3>1. CASE b = c /\ i = 1 /\ lookuptable'[b][i] = n
        BY <1>6, <3>1 DEF c
      <3>2. ASSUME NEW j \in 1..Len(lookuptable[b]), lookuptable'[b][i] = lookuptable[b][j]
            PROVE  nodes'[lookuptable'[b][i]].key \in Keys
                   /\ Bucket(nodes'[lookuptable'[b][i]].key) = b
        <4>1. lookuptable[b][j] \in Slots /\ lookuptable[b][j] # n
          BY <1>2, <1>7 DEF InChain
        <4>2. nodes'[lookuptable'[b][i]] = nodes[lookuptable[b][j]]
          BY <1>6, <3>2, <4>1
        <4>3. QED
          BY <4>2 DEF IInv, Keyed
      <3>3. QED
        BY <1>8, <3>1, <3>2
    <2>2. QED
      BY <2>1 DEF Keyed, Bucket
  <1>17n. Live' = Live \cup {n} /\ n \notin Live /\ IsFiniteSet(Live)
    <2>1. /\ Live \subseteq Slots /\ IsFiniteSet(Live)
          /\ \A x : x \in Live <=> \E b \in Buckets : InChain(x, b)
      BY LiveFinite DEF IInv
    <2>2. /\ Live' \subseteq Slots
          /\ \A x : x \in Live' <=> \E b \in Buckets : InChain(x, b)'
      BY <1>11, LiveFiniteNext
    <2>3. QED
      BY <1>1, <1>3, <1>7, <1>9, <2>1, <2>2
  <1>17. size' = Cardinality(Live')
    BY <1>17n, FS_AddElement DEF IInv
  <1>18. IInv'
    BY <1>11, <1>12, <1>13, <1>14, <1>15, <1>16, <1>17 DEF IInv
  <1>19. QED
    BY <1>3, <1>17n, <1>18

LEMMA StepInsert ==
    ASSUME IInv, NEW k \in Keys, NEW v \in Values, Insert(k, v)
    PROVE  IInv'
  <1>1. CASE UNCHANGED chains
    BY <1>1, StepUnchanged
  <1>2. CASE freelist # <<>>
    BY <1>2, LinkNode DEF Insert
  <1>3. QED
    BY <1>1, <1>2 DEF Insert

(* A node leaves its chain and leads the free list.                        *)
LEMMA UnlinkNode ==
    ASSUME IInv, NEW k \in Keys, Find(k) # 0,
           lookuptable' = [lookuptable EXCEPT ![Bucket(k)] = Unlink(@, Find(k))],
           freelist' = <<lookuptable[Bucket(k)][Find(k)]>> \o freelist,
           size' = size - 1, UNCHANGED nodes
    PROVE  /\ IInv'
           /\ Live' = Live \ {lookuptable[Bucket(k)][Find(k)]}
           /\ lookuptable[Bucket(k)][Find(k)] \in Live
  <1> PICK c, p, n : c = Bucket(k) /\ p = Find(k) /\ n = lookuptable[c][p]
    OBVIOUS
  <1> DEFINE m == Len(freelist)
             old == lookuptable[c]
             new == Unlink(old, p)
  <1>1. c \in Buckets
    BY FastHashAssumption DEF FastHashAssumption, Bucket, Buckets
  <1>2. /\ freelist \in Seq(Slots) /\ old \in Seq(Slots)
        /\ lookuptable \in [Buckets -> Seq(Slots)]
    BY <1>1 DEF IInv, ChainTypes
  <1>3. p \in 1..Len(old) /\ n = old[p] /\ n \in Slots
    BY <1>2, FindPlace
  <1>4. /\ new \in Seq(Slots) /\ Len(new) = Len(old) - 1
        /\ \A j \in 1..(Len(old) - 1) : new[j] = IF j < p THEN old[j] ELSE old[j + 1]
    BY <1>2, <1>3, Unlinked
  <1>5. /\ lookuptable'[c] = new
        /\ \A b \in Buckets : b # c => lookuptable'[b] = lookuptable[b]
        /\ lookuptable' \in [Buckets -> Seq(Slots)]
    BY <1>1, <1>2, <1>4
  <1>6. freelist' = <<n>> \o freelist
    OBVIOUS
  <1>7. /\ freelist' \in Seq(Slots) /\ Len(freelist') = m + 1 /\ freelist'[1] = n
        /\ \A i \in 1..m : freelist'[i + 1] = freelist[i]
        /\ m \in Nat
    BY <1>2, <1>3, <1>6, PutFirst
  <1>8. ~IsFree(n) /\ InChain(n, c)
    BY <1>1, <1>3 DEF IInv, Apart, InChain
  <1> DEFINE Before(b, i) == IF b = c /\ i >= p THEN i + 1 ELSE i
  <1>9. ASSUME NEW b \in Buckets, NEW i \in 1..Len(lookuptable'[b])
        PROVE  /\ Before(b, i) \in 1..Len(lookuptable[b])
               /\ lookuptable'[b][i] = lookuptable[b][Before(b, i)]
               /\ ~(b = c /\ Before(b, i) = p)
               /\ \A j \in 1..Len(lookuptable'[b]) : Before(b, i) = Before(b, j) => i = j
    <2>1. CASE b = c
      <3>1. /\ Len(old) \in Nat /\ old = lookuptable[b] /\ lookuptable'[b] = new
            /\ i \in 1..(Len(old) - 1) /\ p \in 1..Len(old)
        BY <1>2, <1>3, <1>4, <1>5, <1>9, <2>1
      <3>2. /\ Before(b, i) \in 1..Len(old) /\ Before(b, i) # p
            /\ \A j \in 1..(Len(old) - 1) : Before(b, i) = Before(b, j) => i = j
        BY <2>1, <3>1
      <3>3. new[i] = old[Before(b, i)]
        BY <1>4, <2>1, <3>1
      <3>4. QED
        BY <1>4, <3>1, <3>2, <3>3
    <2>2. CASE b # c
      BY <1>5, <1>9, <2>2
    <2>3. QED
      BY <2>1, <2>2
  <1> HIDE DEF m, old, new, Before
  <1>10. ASSUME NEW b \in Buckets, NEW i \in 1..Len(lookuptable[b]), ~(b = c /\ i = p)
         PROVE  \E j \in 1..Len(lookuptable'[b]) : lookuptable'[b][j] = lookuptable[b][i]
    <2>1. CASE b = c
      <3>1. /\ Len(old) \in Nat /\ old = lookuptable[b] /\ lookuptable'[b] = new
            /\ i \in 1..Len(old) /\ i # p
        BY <1>2, <1>5, <1>10, <2>1 DEF old
      <3>2. CASE i < p
        <4>1. i \in 1..(Len(old) - 1)
          BY <1>3, <3>1, <3>2
        <4>2. new[i] = old[i] /\ i \in 1..Len(new)
          BY <1>4, <3>2, <4>1
        <4>3. QED
          BY <3>1, <4>2
      <3>3. CASE ~(i < p)
        <4>1. i - 1 \in 1..(Len(old) - 1) /\ ~(i - 1 < p) /\ (i - 1) + 1 = i
          BY <1>3, <3>1, <3>3
        <4>2. new[i - 1] = old[i] /\ i - 1 \in 1..Len(new)
          BY <1>4, <4>1
        <4>3. QED
          BY <3>1, <4>2
      <3>4. QED
        BY <3>2, <3>3
    <2>2. CASE b # c
      BY <1>5, <2>2
    <2>3. QED
      BY <2>1, <2>2
  <1>11. \A x \in Slots, b \in Buckets : InChain(x, b)' <=> InChain(x, b) /\ x # n
    <2>1. ASSUME NEW x \in Slots, NEW b \in Buckets, InChain(x, b)'
          PROVE  InChain(x, b) /\ x # n
      <3>1. PICK i \in 1..Len(lookuptable'[b]) : lookuptable'[b][i] = x
        BY <2>1 DEF InChain
      <3>2. PICK j \in 1..Len(lookuptable[b]) : x = lookuptable[b][j] /\ ~(b = c /\ j = p)
        BY <1>9, <3>1
      <3>3. x = n => b = c /\ j = p
        <4>1. p \in 1..Len(lookuptable[c]) /\ n = lookuptable[c][p]
          BY <1>3 DEF old
        <4>2. \A y \in 1..Len(lookuptable[b]), z \in 1..Len(lookuptable[c]) :
                 lookuptable[b][y] = lookuptable[c][z] => b = c /\ y = z
          BY <1>1 DEF IInv, ChainedOnce
        <4>3. QED
          BY <3>2, <4>1, <4>2
      <3>4. QED
        BY <3>2, <3>3 DEF InChain
    <2>2. ASSUME NEW x \in Slots, NEW b \in Buckets, InChain(x, b), x # n
          PROVE  InChain(x, b)'
      <3>1. PICK i \in 1..Len(lookuptable[b]) : lookuptable[b][i] = x
        BY <2>2 DEF InChain
      <3>2. ~(b = c /\ i = p)
        BY <1>3, <2>2, <3>1 DEF old
      <3>3. QED
        BY <1>10, <3>1, <3>2 DEF InChain
    <2>3. QED
      BY <2>1, <2>2
  <1>12. \A x \in Slots : IsFree(x)' <=> IsFree(x) \/ x = n
    <2>1. ASSUME NEW x \in Slots, IsFree(x)' PROVE IsFree(x) \/ x = n
      <3>1. PICK i \in 1..(m + 1) : freelist'[i] = x
        BY <1>7, <2>1 DEF IsFree
      <3>2. i = 1 \/ (i - 1 \in 1..m /\ (i - 1) + 1 = i)
        BY <1>7, <3>1
      <3>3. CASE i = 1
        BY <1>7, <3>1, <3>3
      <3>4. CASE i - 1 \in 1..m /\ (i - 1) + 1 = i
        <4>1. freelist[i - 1] = x
          BY <1>7, <3>1, <3>4
        <4>2. QED
          BY <3>4, <4>1 DEF IsFree, m
      <3>5. QED
        BY <3>2, <3>3, <3>4
    <2>2. IsFree(n)'
      <3>1. 1 \in 1..Len(freelist')
        BY <1>7
      <3>2. QED
        BY <1>7, <3>1 DEF IsFree
    <2>3. ASSUME NEW x \in Slots, IsFree(x) PROVE IsFree(x)'
      <3>1. PICK i \in 1..m : freelist[i] = x
        BY <2>3 DEF IsFree, m
      <3>2. i + 1 \in 1..Len(freelist') /\ freelist'[i + 1] = x
        BY <1>7, <3>1
      <3>3. QED
        BY <3>2 DEF IsFree
    <2>4. QED
      BY <2>1, <2>2, <2>3
  <1>13. ChainTypes'
    BY <1>5, <1>7 DEF IInv, ChainTypes
  <1>14. FreeOnce'
    <2>1. ASSUME NEW i \in 1..(m + 1), NEW j \in 1..(m + 1), freelist'[i] = freelist'[j]
          PROVE  i = j
      <3>1. /\ i = 1 \/ (i - 1 \in 1..m /\ freelist'[i] = freelist[i - 1])
            /\ j = 1 \/ (j - 1 \in 1..m /\ freelist'[j] = freelist[j - 1])
        <4>1. \A x \in 1..(m + 1) : x = 1 \/ (x - 1 \in 1..m /\ (x - 1) + 1 = x)
          BY <1>7
        <4>2. QED
          BY <1>7, <4>1
      <3>2. \A x \in 1..m : freelist[x] # n
        BY <1>8 DEF IsFree, m
      <3>3. CASE i = 1 \/ j = 1
        BY <1>7, <2>1, <3>1, <3>2, <3>3
      <3>4. CASE i # 1 /\ j # 1
        <4>1. i - 1 = j - 1
          BY <2>1, <3>1, <3>4 DEF IInv, FreeOnce, m
        <4>2. QED
          BY <4>1
      <3>5. QED
        BY <3>3, <3>4
    <2>2. QED
      BY <1>7, <2>1 DEF FreeOnce
  <1>15. ChainedOnce'
    <2>1. ASSUME NEW b \in Buckets, NEW d \in Buckets,
                 NEW i \in 1..Len(lookuptable'[b]), NEW j \in 1..Len(lookuptable'[d]),
                 lookuptable'[b][i] = lookuptable'[d][j]
          PROVE  b = d /\ i = j
      <3>1. /\ Before(b, i) \in 1..Len(lookuptable[b])
            /\ lookuptable'[b][i] = lookuptable[b][Before(b, i)]
            /\ \A x \in 1..Len(lookuptable'[b]) : Before(b, i) = Before(b, x) => i = x
        BY <1>9
      <3>2. /\ Before(d, j) \in 1..Len(lookuptable[d])
            /\ lookuptable'[d][j] = lookuptable[d][Before(d, j)]
        BY <1>9
      <3>3. b = d /\ Before(b, i) = Before(d, j)
        <4>1. \A x \in 1..Len(lookuptable[b]), y \in 1..Len(lookuptable[d]) :
                 lookuptable[b][x] = lookuptable[d][y] => b = d /\ x = y
          BY DEF IInv, ChainedOnce
        <4>2. QED
          BY <2>1, <3>1, <3>2, <4>1
      <3>4. QED
        BY <3>1, <3>3
    <2>2. QED
      BY <2>1 DEF ChainedOnce
  <1>16. Apart'
    BY <1>3, <1>8, <1>11, <1>12 DEF IInv, Apart
  <1>17. Covered'
    BY <1>11, <1>12 DEF IInv, Covered
  <1>18. Keyed'
    <2>1. ASSUME NEW b \in Buckets, NEW i \in 1..Len(lookuptable'[b])
          PROVE  nodes'[lookuptable'[b][i]].key \in Keys
                 /\ Bucket(nodes'[lookuptable'[b][i]].key) = b
      <3>1. PICK j \in 1..Len(lookuptable[b]) : lookuptable'[b][i] = lookuptable[b][j]
        BY <1>9
      <3>2. QED
        BY <3>1 DEF IInv, Keyed
    <2>2. QED
      BY <2>1 DEF Keyed, Bucket
  <1>19n. Live' = Live \ {n} /\ n \in Live /\ IsFiniteSet(Live)
    <2>1. /\ Live \subseteq Slots /\ IsFiniteSet(Live)
          /\ \A x : x \in Live <=> \E b \in Buckets : InChain(x, b)
      BY LiveFinite DEF IInv
    <2>2. /\ Live' \subseteq Slots
          /\ \A x : x \in Live' <=> \E b \in Buckets : InChain(x, b)'
      BY <1>13, LiveFiniteNext
    <2>3. QED
      BY <1>1, <1>3, <1>8, <1>11, <2>1, <2>2
  <1>19. size' = Cardinality(Live')
    BY <1>19n, FS_RemoveElement DEF IInv
  <1>20. IInv'
    BY <1>13, <1>14, <1>15, <1>16, <1>17, <1>18, <1>19 DEF IInv
  <1>21. QED
    BY <1>19n, <1>20

LEMMA StepRemove ==
    ASSUME IInv, NEW k \in Keys, Remove(k)
    PROVE  IInv'
  <1>1. CASE UNCHANGED chains
    BY <1>1, StepUnchanged
  <1>2. CASE Find(k) # 0
    BY <1>2, UnlinkNode DEF Remove
  <1>3. QED
    BY <1>1, <1>2 DEF Remove

LEMMA ResetInvariantNext ==
    /\ lookuptable' = [b \in Buckets |-> <<>>]
    /\ freelist' = [x \in 1..FSize |-> x - 1]
    /\ nodes' = [n \in Slots |-> nodes'[n]] /\ size' = 0
    => IInv'
  <1> DEFINE New == /\ lookuptable = [b \in Buckets |-> <<>>]
                    /\ freelist = [x \in 1..FSize |-> x - 1]
                    /\ nodes = [n \in Slots |-> nodes[n]] /\ size = 0
  <1>1. New => IInv
    BY ResetInvariant
  <1>2. New' => IInv'
    BY <1>1, PTL
  <1>3. QED
    BY <1>2

LEMMA InitInvariant == Init => IInv
  BY ResetInvariant DEF Init

LEMMA StepInvariant == IInv /\ [Next]_vars => IInv'
  <1> SUFFICES ASSUME IInv, [Next]_vars PROVE IInv'
    OBVIOUS
  <1>1. CASE UNCHANGED vars
    BY <1>1, StepUnchanged DEF vars
  <1>2. ASSUME NEW k \in Keys, NEW v \in Values, Insert(k, v) PROVE IInv'
    BY <1>2, StepInsert
  <1>3. ASSUME NEW k \in Keys, Remove(k) PROVE IInv'
    BY <1>3, StepRemove
  <1>4. ASSUME NEW k \in Keys, Lookup(k) PROVE IInv'
    BY <1>4, StepUnchanged DEF Lookup
  <1>5. ASSUME NEW i \in 0..FSize, LookupByIndex(i) PROVE IInv'
    BY <1>5, StepUnchanged DEF LookupByIndex
  <1>6. CASE Reset
    BY <1>6, ResetInvariantNext DEF Reset, ResetLists, IInv, ChainTypes
  <1>7. QED
    BY <1>1, <1>2, <1>3, <1>4, <1>5, <1>6 DEF Next

LEMMA Invariant == Spec => []IInv
  BY InitInvariant, StepInvariant, PTL DEF Spec

(* For any table size and hash, after any sequence of Insert, Remove and   *)
(* Reset every item node is on the free list or in one chain of            *)
(* FastHashBase, once, in the chain Find will search for its key, and      *)
(* _size is the number of nodes in chains.                                 *)
THEOREM NodesTheorem == Spec => []NodesAccounted
  <1>1. IInv => NodesAccounted
    BY InOnePlace DEF NodesAccounted, IInv, Keyed
  <1>2. QED
    BY <1>1, Invariant, PTL

-----------------------------------------------------------------------------
(* -------- access by position -------------------------------------------- *)
(* ReIndex writes the chains one after the other into the index list.      *)

(* Counting up reaches every number.                                       *)
LEMMA CountUp ==
    ASSUME NEW Good \in SUBSET Nat, 0 \in Good, \A n \in Good : n + 1 \in Good
    PROVE  Good = Nat
  <1> DEFINE Bad == Nat \ Good
  <1> SUFFICES ASSUME Bad # {} PROVE FALSE
    OBVIOUS
  <1>1. PICK x \in Bad : \A y \in Bad : x =< y
    BY FirstPlace
  <1>2. x # 0 /\ x \in Nat
    OBVIOUS
  <1>3. x - 1 \in Nat /\ x - 1 \notin Bad /\ (x - 1) + 1 = x
    BY <1>1, <1>2
  <1>4. QED
    BY <1>3

IsFlattened(seqs, f) ==
    f = [i \in 1..Len(seqs) |-> IF i = 1 THEN seqs[i] ELSE f[i - 1] \o seqs[i]]

(* The function by which FlattenSeq joins sequences exists, so that its    *)
(* equation may be used.                                                   *)
LEMMA Flattens ==
    ASSUME NEW seqs, Len(seqs) \in Nat
    PROVE  \E f : IsFlattened(seqs, f)
  <1> DEFINE Upto(n, f) == f = [i \in 1..n |-> IF i = 1 THEN seqs[i] ELSE f[i - 1] \o seqs[i]]
             Good == {n \in Nat : \E f : Upto(n, f)}
  <1>1. 0 \in Good
    <2> DEFINE f == [i \in 1..0 |-> i]
    <2>1. f = [i \in 1..0 |-> IF i = 1 THEN seqs[i] ELSE f[i - 1] \o seqs[i]]
      OBVIOUS
    <2>2. Upto(0, f)
      BY <2>1
    <2>3. QED
      BY <2>2
  <1>2. ASSUME NEW n \in Good PROVE n + 1 \in Good
    <2>1. PICK f : Upto(n, f)
      OBVIOUS
    <2> DEFINE last == IF n = 0 THEN seqs[1] ELSE f[n] \o seqs[n + 1]
               g == [i \in 1..(n + 1) |-> IF i <= n THEN f[i] ELSE last]
    <2>2. ASSUME NEW i \in 1..(n + 1)
          PROVE  g[i] = IF i = 1 THEN seqs[i] ELSE g[i - 1] \o seqs[i]
      <3>1. CASE i <= n
        <4>1. i \in 1..n /\ g[i] = f[i] /\ (i # 1 => i - 1 \in 1..n /\ g[i - 1] = f[i - 1])
          BY <2>2, <3>1
        <4>2. f[i] = IF i = 1 THEN seqs[i] ELSE f[i - 1] \o seqs[i]
          BY <2>1, <4>1
        <4>3. QED
          BY <4>1, <4>2
      <3>2. CASE ~(i <= n)
        <4>1. i = n + 1 /\ g[i] = last
          BY <2>2, <3>2
        <4>2. CASE n = 0
          BY <4>1, <4>2
        <4>3. CASE n # 0
          <5>1. i # 1 /\ i - 1 = n /\ g[n] = f[n]
            BY <4>1, <4>3
          <5>2. QED
            BY <4>1, <4>3, <5>1
        <4>4. QED
          BY <4>2, <4>3
      <3>3. QED
        BY <3>1, <3>2
    <2> HIDE DEF last
    <2>3. g = [i \in 1..(n + 1) |-> g[i]]
      OBVIOUS
    <2>4. Upto(n + 1, g)
      <3> HIDE DEF g
      <3>1. QED
        BY <2>2, <2>3
    <2>5. \E h : Upto(n + 1, h)
      <3> HIDE DEF Upto, g
      <3>1. QED
        BY <2>4
    <2>6. n + 1 \in Nat
      OBVIOUS
    <2>7. QED
      <3> HIDE DEF Upto
      <3>1. QED
        BY <2>5, <2>6
  <1>3. Good = Nat
    <2>1. Good \in SUBSET Nat
      OBVIOUS
    <2> HIDE DEF Good
    <2>2. QED
      BY <1>1, <1>2, <2>1, CountUp
  <1>4. Len(seqs) \in Good
    BY <1>3
  <1>5. QED
    BY <1>4 DEF IsFlattened

LEMMA FlattenIs ==
    ASSUME NEW seqs, Len(seqs) \in Nat \ {0}
    PROVE  \E f : IsFlattened(seqs, f) /\ SX!FlattenSeq(seqs) = f[Len(seqs)]
  <1> DEFINE f == CHOOSE f : IsFlattened(seqs, f)
  <1>1. IsFlattened(seqs, f)
    BY Flattens
  <1>2. SX!FlattenSeq(seqs) = f[Len(seqs)]
    BY DEF SX!FlattenSeq, IsFlattened
  <1>3. QED
    BY <1>1, <1>2

NodesOf(b) == {lookuptable[b][i] : i \in 1..Len(lookuptable[b])}

(* The nodes of the first chains.                                          *)
NodesBefore(b) == {n \in Slots : \E c \in 0..(b - 1) : InChain(n, c)}

Holds(seq, S) == \A n : n \in S <=> \E i \in 1..Len(seq) : seq[i] = n

(* A chain is as long as the set of its nodes is large.                    *)
LEMMA ChainLength ==
    ASSUME IInv, NEW b \in Buckets
    PROVE  IsFiniteSet(NodesOf(b)) /\ Cardinality(NodesOf(b)) = Len(lookuptable[b])
  <1> DEFINE chain == lookuptable[b]
             f == [i \in 1..Len(chain) |-> chain[i]]
  <1>1. chain \in Seq(Slots) /\ Len(chain) \in Nat
    BY DEF IInv, ChainTypes
  <1>2. \A i, j \in 1..Len(chain) : chain[i] = chain[j] => i = j
    BY DEF IInv, ChainedOnce
  <1>3. f \in Bijection(1..Len(chain), NodesOf(b))
    BY <1>2 DEF Bijection, Injection, Surjection, IsInjective, NodesOf
  <1>4. ExistsBijection(1..Len(chain), NodesOf(b))
    BY <1>3 DEF ExistsBijection
  <1>5. QED
    BY <1>1, <1>4, FS_NatBijection, FS_CountingElements

(* One more chain is appended.                                             *)
LEMMA AppendChain ==
    ASSUME IInv, NEW b \in Buckets, NEW r \in Seq(Slots),
           Holds(r, NodesBefore(b)), Len(r) = Cardinality(NodesBefore(b))
    PROVE  /\ r \o lookuptable[b] \in Seq(Slots)
           /\ Holds(r \o lookuptable[b], NodesBefore(b + 1))
           /\ Len(r \o lookuptable[b]) = Cardinality(NodesBefore(b + 1))
  <1> DEFINE chain == lookuptable[b]
             both  == r \o chain
             A == NodesBefore(b)
             B == NodesOf(b)
  <1>1. chain \in Seq(Slots) /\ Len(chain) \in Nat /\ Len(r) \in Nat /\ b \in 0..(TSize - 1)
        /\ TSize \in Nat
    BY FastHashAssumption DEF IInv, ChainTypes, Buckets, FastHashAssumption
  <1>2. /\ both \in Seq(Slots) /\ Len(both) = Len(r) + Len(chain)
        /\ \A i \in 1..(Len(r) + Len(chain)) :
              both[i] = IF i <= Len(r) THEN r[i] ELSE chain[i - Len(r)]
    BY <1>1, ConcatProperties
  <1>3. \A n : n \in B <=> n \in Slots /\ InChain(n, b)
    <2>1. \A i \in 1..Len(chain) : chain[i] \in Slots
      BY <1>1
    <2>2. QED
      BY <2>1 DEF NodesOf, InChain
  <1>4. NodesBefore(b + 1) = A \cup B
    <2>1. \A c : c \in 0..((b + 1) - 1) <=> c \in 0..(b - 1) \/ c = b
      BY <1>1
    <2>2. QED
      BY <1>3, <2>1 DEF NodesBefore
  <1>5. A \cap B = {}
    <2> SUFFICES ASSUME NEW n \in A, n \in B PROVE FALSE
      OBVIOUS
    <2>1. PICK c \in 0..(b - 1) : InChain(n, c)
      BY DEF NodesBefore
    <2>2. c \in Buckets /\ c # b
      BY <1>1, <2>1 DEF Buckets
    <2>3. PICK i \in 1..Len(lookuptable[c]) : lookuptable[c][i] = n
      BY <2>1 DEF InChain
    <2>4. PICK j \in 1..Len(lookuptable[b]) : lookuptable[b][j] = n
      BY <1>3 DEF InChain
    <2>5. \A x \in 1..Len(lookuptable[c]), y \in 1..Len(lookuptable[b]) :
             lookuptable[c][x] = lookuptable[b][y] => c = b /\ x = y
      BY <2>2 DEF IInv, ChainedOnce
    <2>6. QED
      BY <2>2, <2>3, <2>4, <2>5
  <1>6. Holds(both, A \cup B)
    <2>1. ASSUME NEW n \in A PROVE \E i \in 1..Len(both) : both[i] = n
      <3>1. PICK i \in 1..Len(r) : r[i] = n
        BY DEF Holds
      <3>2. i \in 1..(Len(r) + Len(chain)) /\ i <= Len(r)
        BY <1>1, <3>1
      <3>3. QED
        BY <1>2, <3>1, <3>2
    <2>2. ASSUME NEW n \in B PROVE \E i \in 1..Len(both) : both[i] = n
      <3>1. PICK i \in 1..Len(chain) : chain[i] = n
        BY DEF NodesOf
      <3>2. /\ i + Len(r) \in 1..(Len(r) + Len(chain)) /\ ~(i + Len(r) <= Len(r))
            /\ (i + Len(r)) - Len(r) = i
        BY <1>1, <3>1
      <3>3. QED
        BY <1>2, <3>1, <3>2
    <2>3. ASSUME NEW i \in 1..Len(both) PROVE both[i] \in A \cup B
      <3>1. CASE i <= Len(r)
        <4>1. i \in 1..Len(r) /\ both[i] = r[i]
          BY <1>1, <1>2, <2>3, <3>1
        <4>2. QED
          BY <4>1 DEF Holds
      <3>2. CASE ~(i <= Len(r))
        <4>1. i - Len(r) \in 1..Len(chain) /\ both[i] = chain[i - Len(r)]
          BY <1>1, <1>2, <2>3, <3>2
        <4>2. QED
          BY <4>1 DEF NodesOf
      <3>3. QED
        BY <3>1, <3>2
    <2> HIDE DEF both, A, B
    <2>4. QED
      BY <2>1, <2>2, <2>3 DEF Holds
  <1>7. Len(both) = Cardinality(A \cup B)
    <2>1. IsFiniteSet(A)
      <3>1. IsFiniteSet(Slots) /\ A \in SUBSET Slots
        BY FS_Interval, FastHashAssumption DEF Slots, FastHashAssumption, NodesBefore
      <3>2. QED
        BY <3>1, FS_Subset
    <2>2. IsFiniteSet(B) /\ Cardinality(B) = Len(chain)
      BY ChainLength
    <2>3. Cardinality(A \cup B) = Cardinality(A) + Cardinality(B) - Cardinality(A \cap B)
      BY <2>1, <2>2, FS_Union
    <2>4. Cardinality(A \cap B) = 0
      BY <1>5, FS_EmptySet
    <2>5. QED
      BY <1>1, <1>2, <2>2, <2>3, <2>4
  <1>8. QED
    BY <1>2, <1>4, <1>6, <1>7

(* What ReIndex writes: every chained node, and as many as there are.      *)
LEMMA ChainOrder ==
    ASSUME IInv
    PROVE  InChainOrder \in Seq(Slots) /\ Holds(InChainOrder, Live) /\ Len(InChainOrder) = size
  <1> DEFINE seqs == [b \in 1..TSize |-> lookuptable[b - 1]]
  <1>0. TSize \in Nat \ {0} /\ lookuptable \in [Buckets -> Seq(Slots)]
    BY FastHashAssumption DEF FastHashAssumption, IInv, ChainTypes
  <1>1. Len(seqs) = TSize
    <2>1. \A b \in 1..TSize : b - 1 \in Buckets
      BY <1>0 DEF Buckets
    <2>2. seqs \in [1..TSize -> Seq(Slots)]
      BY <1>0, <2>1
    <2>3. QED
      BY <1>0, <2>2
  <1>2. PICK f : IsFlattened(seqs, f) /\ SX!FlattenSeq(seqs) = f[TSize]
    <2> HIDE DEF seqs
    <2>1. QED
      BY <1>0, <1>1, FlattenIs
  <1>3. /\ f[1] = lookuptable[0]
        /\ \A i \in 1..TSize : i # 1 => f[i] = f[i - 1] \o lookuptable[i - 1]
    <2>1. f = [i \in 1..TSize |-> IF i = 1 THEN seqs[i] ELSE f[i - 1] \o seqs[i]]
      <3> HIDE DEF seqs
      <3>1. QED
        BY <1>1, <1>2 DEF IsFlattened
    <2>2. \A i \in 1..TSize : f[i] = IF i = 1 THEN seqs[i] ELSE f[i - 1] \o seqs[i]
      <3> HIDE DEF seqs
      <3>1. QED
        BY <2>1
    <2>3. \A i \in 1..TSize : seqs[i] = lookuptable[i - 1]
      OBVIOUS
    <2>4. 1 \in 1..TSize /\ 1 - 1 = 0
      BY <1>0
    <2> HIDE DEF seqs
    <2>5. QED
      BY <2>2, <2>3, <2>4
  <1> DEFINE Joined(i) == /\ f[i] \in Seq(Slots) /\ Holds(f[i], NodesBefore(i))
                          /\ Len(f[i]) = Cardinality(NodesBefore(i))
             Good == {i \in Nat : i \in 1..TSize => Joined(i)}
  <1>4. 0 \in Good
    OBVIOUS
  <1>5. ASSUME NEW i \in Good PROVE i + 1 \in Good
    <2> SUFFICES ASSUME i + 1 \in 1..TSize PROVE Joined(i + 1)
      OBVIOUS
    <2>1. i \in Buckets /\ i \in Nat
      BY <1>0 DEF Buckets
    <2>2. CASE i = 0
      <3>1. <<>> \in Seq(Slots) /\ Len(<<>>) = 0
        OBVIOUS
      <3>2. NodesBefore(0) = {}
        BY DEF NodesBefore
      <3>3. Holds(<<>>, NodesBefore(0)) /\ Len(<<>>) = Cardinality(NodesBefore(0))
        <4>1. 1..Len(<<>>) = {}
          BY <3>1
        <4>2. Holds(<<>>, NodesBefore(0))
          BY <3>2, <4>1 DEF Holds
        <4>3. QED
          BY <3>1, <3>2, <4>2, FS_EmptySet
      <3>4. /\ <<>> \o lookuptable[0] \in Seq(Slots)
            /\ Holds(<<>> \o lookuptable[0], NodesBefore(0 + 1))
            /\ Len(<<>> \o lookuptable[0]) = Cardinality(NodesBefore(0 + 1))
        BY <2>1, <2>2, <3>1, <3>3, AppendChain
      <3>5. <<>> \o lookuptable[0] = lookuptable[0]
        BY <1>0, <2>1, <2>2
      <3>6. QED
        BY <1>3, <2>2, <3>4, <3>5
    <2>3. CASE i # 0
      <3>1. i \in 1..TSize /\ (i + 1) - 1 = i /\ i + 1 # 1
        BY <1>0, <2>1, <2>3
      <3>2. Joined(i)
        BY <3>1
      <3>3. f[i + 1] = f[i] \o lookuptable[i]
        BY <1>3, <3>1
      <3>4. QED
        BY <2>1, <3>2, <3>3, AppendChain
    <2>4. QED
      BY <2>2, <2>3
  <1>6. TSize \in Good
    <2>1. Good \in SUBSET Nat
      OBVIOUS
    <2> HIDE DEF Good
    <2>2. Good = Nat
      BY <1>4, <1>5, <2>1, CountUp
    <2>3. QED
      BY <1>0, <2>2
  <1>7. InChainOrder = f[TSize]
    BY <1>2 DEF InChainOrder
  <1>8. NodesBefore(TSize) = Live
    BY LiveFinite DEF IInv, NodesBefore, Buckets
  <1>9. Joined(TSize)
    BY <1>0, <1>6
  <1>10. QED
    BY <1>7, <1>8, <1>9 DEF IInv

(* The circular list: as long as it is valid, the _size entries from       *)
(* indexStart on, around the end of the array, name the live nodes.  That  *)
(* each is named once follows from their number.                           *)
Turn(x) == IF x < FSize THEN x ELSE x - FSize

IndexInv ==
    /\ indexlist = [i \in Slots |-> indexlist[i]]
    /\ indexStart \in Slots
    /\ fIndexValid \in BOOLEAN
    /\ fIndexValid =>
          \A n : n \in Live <=> \E i \in 0..(size - 1) : indexlist[Turn(indexStart + i)] = n

LEMMA Wraps ==
    ASSUME NEW a \in Slots, NEW i \in 0..FSize
    PROVE  (a + i) % FSize = Turn(a + i) /\ Turn(a + i) \in Slots
  <1>1. FSize \in Nat \ {0} /\ a \in Nat /\ a < FSize /\ i \in Nat /\ a + i < FSize + FSize
    BY FastHashAssumption DEF FastHashAssumption, Slots
  <1>2. CASE a + i < FSize
    BY <1>1, <1>2 DEF Turn, Slots
  <1>3. CASE ~(a + i < FSize)
    BY <1>1, <1>3 DEF Turn, Slots
  <1>4. QED
    BY <1>2, <1>3

LEMMA SizeBound == IInv => size \in 0..FSize
  <1> SUFFICES ASSUME IInv PROVE size \in 0..FSize
    OBVIOUS
  <1>1. FSize \in Nat \ {0} /\ 0 \in Int /\ FSize - 1 \in Int /\ ~(0 > FSize - 1)
    BY FastHashAssumption DEF FastHashAssumption
  <1>2. IsFiniteSet(Slots) /\ Cardinality(Slots) = (FSize - 1) - 0 + 1
    BY <1>1, FS_Interval DEF Slots
  <1>3. Live \in SUBSET Slots /\ IsFiniteSet(Live)
    BY LiveFinite DEF IInv
  <1>4. Cardinality(Live) <= Cardinality(Slots) /\ Cardinality(Live) \in Nat
    BY <1>2, <1>3, FS_Subset, FS_CardinalityType
  <1>5. QED
    BY <1>1, <1>2, <1>4 DEF IInv

LEMMA NextSizeBound == IInv' => size' \in 0..FSize
  <1> DEFINE Bounded == size \in 0..FSize
  <1>1. IInv => Bounded
    BY SizeBound
  <1>2. IInv' => Bounded'
    BY <1>1, PTL
  <1>3. QED
    BY <1>2

(* No live node is named twice.                                            *)
LEMMA NamedOnce ==
    ASSUME IInv, IndexInv, fIndexValid,
           NEW i \in 0..(size - 1), NEW j \in 0..(size - 1),
           indexlist[Turn(indexStart + i)] = indexlist[Turn(indexStart + j)]
    PROVE  i = j
  <1> DEFINE f == [x \in 0..(size - 1) |-> indexlist[Turn(indexStart + x)]]
             D == 0..(size - 1)
  <1>1. size \in Nat
    BY SizeBound, FastHashAssumption DEF FastHashAssumption
  <1>2. \A n : n \in Live <=> \E x \in D : f[x] = n
    BY DEF IndexInv
  <1>3. f \in Surjection(D, Live)
    BY <1>2 DEF Surjection
  <1>4. IsFiniteSet(D) /\ Cardinality(D) = Cardinality(Live)
    <2>1. 0 \in Int /\ size - 1 \in Int
      BY <1>1
    <2>2. IsFiniteSet(D) /\ Cardinality(D) = IF 0 > size - 1 THEN 0 ELSE (size - 1) - 0 + 1
      BY <2>1, FS_Interval
    <2>3. QED
      BY <1>1, <2>2 DEF IInv
  <1>5. f \in Injection(D, Live)
    BY <1>3, <1>4, FS_SurjSameCardinalityImpliesInj
  <1>6. f[i] = f[j]
    OBVIOUS
  <1>7. QED
    BY <1>5, <1>6 DEF Injection, IsInjective

LEMMA IndexInsert ==
    ASSUME IInv, IndexInv, NEW k \in Keys, NEW v \in Values, Insert(k, v), freelist # <<>>
    PROVE  IndexInv'
  <1> PICK n : n = Head(freelist)
    OBVIOUS
  <1>1. IInv' /\ n \in Slots /\ Live' = Live \cup {n} /\ n \notin Live
    BY LinkNode DEF Insert
  <1>2. size' = size + 1 /\ UpdateIndexWithAdd(n)
    BY DEF Insert
  <1>3. size \in 0..(FSize - 1) /\ FSize \in Nat \ {0}
    <2>1. size \in 0..FSize /\ size' \in 0..FSize
      BY <1>1, SizeBound, NextSizeBound
    <2>2. QED
      BY <1>2, <2>1, FastHashAssumption DEF FastHashAssumption
  <1>4. UNCHANGED <<fIndexValid, indexStart>>
    BY <1>2 DEF UpdateIndexWithAdd
  <1>5. CASE fIndexValid
    <2> PICK w : w = Turn(indexStart + size)
      OBVIOUS
    <2>1. w = (size + indexStart) % FSize /\ w \in Slots /\ indexStart \in 0..(FSize - 1)
      BY <1>3, Wraps DEF IndexInv, Slots
    <2>2. indexlist' = [indexlist EXCEPT ![w] = n]
      <3>1. size < FSize
        BY <1>3
      <3>2. indexlist' = [indexlist EXCEPT ![(size + indexStart) % FSize] = n]
        BY <1>2, <1>5, <3>1, Zenon DEF UpdateIndexWithAdd
      <3>3. QED
        BY <2>1, <3>2
    <2>3. /\ indexlist' = [i \in Slots |-> indexlist'[i]]
          /\ indexlist'[w] = n
          /\ \A i \in Slots : i # w => indexlist'[i] = indexlist[i]
      BY <2>1, <2>2 DEF IndexInv
    <2>4. \A i \in 0..(size - 1) : indexlist'[Turn(indexStart + i)] = indexlist[Turn(indexStart + i)]
      <3> SUFFICES ASSUME NEW i \in 0..(size - 1)
                   PROVE  indexlist'[Turn(indexStart + i)] = indexlist[Turn(indexStart + i)]
        OBVIOUS
      <3>1. Turn(indexStart + i) # w
        BY <1>3, <2>1 DEF Turn
      <3>2. i \in 0..FSize /\ indexStart \in Slots
        BY <1>3, <2>1 DEF Slots
      <3>3. Turn(indexStart + i) \in Slots
        BY <3>2, Wraps
      <3>4. QED
        BY <2>3, <3>1, <3>3
    <2>5. ASSUME NEW x
          PROVE  x \in Live' <=> \E i \in 0..(size' - 1) : indexlist'[Turn(indexStart' + i)] = x
      <3>1. x \in Live <=> \E i \in 0..(size - 1) : indexlist[Turn(indexStart + i)] = x
        BY <1>5 DEF IndexInv
      <3>2. \A i : i \in 0..(size' - 1) <=> i \in 0..(size - 1) \/ i = size
        BY <1>2, <1>3
      <3>3. indexStart' = indexStart /\ indexlist'[Turn(indexStart + size)] = n
        BY <1>4, <2>3
      <3>4. QED
        BY <1>1, <2>4, <3>1, <3>2, <3>3
    <2>6. Turn(0)' = Turn(0)
      BY DEF Turn
    <2>7. QED
      BY <1>4, <1>5, <2>3, <2>5 DEF IndexInv, Turn
  <1>6. CASE ~fIndexValid
    BY <1>2, <1>4, <1>6 DEF IndexInv, UpdateIndexWithAdd
  <1>7. QED
    BY <1>5, <1>6

LEMMA IndexRemove ==
    ASSUME IInv, IndexInv, NEW k \in Keys, Remove(k), Find(k) # 0
    PROVE  IndexInv'
  <1> PICK n : n = lookuptable[Bucket(k)][Find(k)]
    OBVIOUS
  <1>1. IInv' /\ Live' = Live \ {n} /\ n \in Live
    BY UnlinkNode DEF Remove
  <1>2. size' = size - 1 /\ UpdateIndexWithRemove(n) /\ UNCHANGED indexlist
    BY DEF Remove, UpdateIndexWithRemove
  <1>3. /\ size \in 1..FSize /\ FSize \in Nat \ {0} /\ indexStart \in 0..(FSize - 1)
        /\ indexStart \in Slots
    <2>1. size \in 0..FSize /\ size' \in 0..FSize
      BY <1>1, SizeBound, NextSizeBound
    <2>2. QED
      BY <1>2, <2>1, FastHashAssumption DEF FastHashAssumption, IndexInv, Slots
  <1>4. ASSUME indexStart' \in Slots, fIndexValid' \in BOOLEAN,
               fIndexValid' =>
                  \A x : x \in Live' <=>
                     \E i \in 0..(size' - 1) : indexlist[Turn(indexStart' + i)] = x
        PROVE  IndexInv'
    BY <1>2, <1>4 DEF IndexInv, Turn
  <1>5. CASE size = 1
    <2>1. fIndexValid' = TRUE /\ indexStart' = 0
      BY <1>2, <1>5 DEF UpdateIndexWithRemove
    <2>2. size' = 0 /\ 0..(size' - 1) = {}
      BY <1>2, <1>5
    <2>3. Live' = {}
      <3>1. IsFiniteSet(Live) /\ Cardinality(Live) = 1
        BY <1>5, LiveFinite DEF IInv
      <3>2. PICK x : Live = {x}
        BY <3>1, FS_Singleton
      <3>3. QED
        BY <1>1, <3>2
    <2>4. 0 \in Slots
      BY <1>3 DEF Slots
    <2>5. QED
      BY <1>4, <2>1, <2>2, <2>3, <2>4
  <1>6. CASE size > 1 /\ ~fIndexValid
    <2>1. UNCHANGED <<fIndexValid, indexStart>>
      BY <1>2, <1>6 DEF UpdateIndexWithRemove
    <2>2. QED
      BY <1>4, <1>6, <2>1 DEF IndexInv
  <1>7. CASE size > 1 /\ fIndexValid
    <2>1. indexStart' = StartAfterRemove(n) /\ fIndexValid' = ValidAfterRemove(n)
      BY <1>2, <1>7 DEF UpdateIndexWithRemove
    <2>2. \A x : x \in Live <=> \E i \in 0..(size - 1) : indexlist[Turn(indexStart + i)] = x
      BY <1>7 DEF IndexInv
    <2>3. \A i, j \in 0..(size - 1) :
             indexlist[Turn(indexStart + i)] = indexlist[Turn(indexStart + j)] => i = j
      BY <1>7, NamedOnce
    <2>4. fIndexValid' \in BOOLEAN
      BY <2>1 DEF ValidAfterRemove, IsFirst, IsLast
    \* The entries left are those from place d on, the removed one was at g.
    <2>5. ASSUME NEW d \in {0, 1}, NEW g \in 0..(size - 1), indexStart' \in Slots,
                 indexlist[Turn(indexStart + g)] = n,
                 \A i \in 0..(size - 2) :
                    /\ Turn(indexStart' + i) = Turn(indexStart + (i + d))
                    /\ i + d \in 0..(size - 1) /\ i + d # g,
                 \A i \in 0..(size - 1) : i # g => i - d \in 0..(size - 2)
          PROVE  IndexInv'
      <3>1. ASSUME NEW x
            PROVE  x \in Live' <=> \E i \in 0..(size' - 1) : indexlist[Turn(indexStart' + i)] = x
        <4>1. 0..(size' - 1) = 0..(size - 2)
          BY <1>2, <1>3
        <4>2. ASSUME NEW i \in 0..(size - 2), indexlist[Turn(indexStart' + i)] = x
              PROVE  x \in Live'
          <5>1. indexlist[Turn(indexStart + (i + d))] = x /\ i + d \in 0..(size - 1) /\ i + d # g
            BY <2>5, <4>2
          <5>2. x \in Live
            BY <2>2, <5>1
          <5>3. x # n
            BY <2>3, <2>5, <5>1
          <5>4. QED
            BY <1>1, <5>2, <5>3
        <4>3. ASSUME x \in Live'
              PROVE  \E i \in 0..(size - 2) : indexlist[Turn(indexStart' + i)] = x
          <5>1. x \in Live /\ x # n
            BY <1>1, <4>3
          <5>2. PICK j \in 0..(size - 1) : indexlist[Turn(indexStart + j)] = x
            BY <2>2, <5>1
          <5>3. j # g
            BY <2>5, <5>1, <5>2
          <5>4. j - d \in 0..(size - 2) /\ (j - d) + d = j
            BY <2>5, <5>3
          <5>5. Turn(indexStart' + (j - d)) = Turn(indexStart + j)
            BY <2>5, <5>4
          <5>6. QED
            BY <5>2, <5>4, <5>5
        <4>4. QED
          BY <4>1, <4>2, <4>3
      <3>2. QED
        BY <1>4, <2>4, <2>5, <3>1
    <2>6. CASE IsFirst(n)
      <3>1. indexStart' = (indexStart + 1) % FSize /\ 1 \in 0..FSize
        BY <1>3, <2>1, <2>6 DEF StartAfterRemove
      <3>2. indexStart' = Turn(indexStart + 1) /\ indexStart' \in Slots
        BY <1>3, <3>1, Wraps
      <3>3. 0 \in 0..(size - 1) /\ Turn(indexStart + 0) = indexStart
        BY <1>3 DEF Turn
      <3>4. indexlist[Turn(indexStart + 0)] = n
        BY <2>6, <3>3 DEF IsFirst
      <3>5. ASSUME NEW i \in 0..(size - 2)
            PROVE  /\ Turn(indexStart' + i) = Turn(indexStart + (i + 1))
                   /\ i + 1 \in 0..(size - 1) /\ i + 1 # 0
        BY <1>3, <3>2 DEF Turn
      <3>6. \A i \in 0..(size - 1) : i # 0 => i - 1 \in 0..(size - 2)
        BY <1>3
      <3>7. QED
        BY <2>5, <3>2, <3>3, <3>4, <3>5, <3>6
    <2>7. CASE ~IsFirst(n) /\ IsLast(n)
      <3>1. indexStart' = indexStart
        BY <2>1, <2>7 DEF StartAfterRemove
      <3>2. size - 1 \in 0..FSize /\ size - 1 \in 0..(size - 1)
        BY <1>3
      <3>3. indexlist[Turn(indexStart + (size - 1))] = n
        BY <1>3, <2>7, <3>2, Wraps DEF IsLast
      <3>4. ASSUME NEW i \in 0..(size - 2)
            PROVE  /\ Turn(indexStart' + i) = Turn(indexStart + (i + 0))
                   /\ i + 0 \in 0..(size - 1) /\ i + 0 # size - 1
        BY <1>3, <3>1
      <3>5. \A i \in 0..(size - 1) : i # size - 1 => i - 0 \in 0..(size - 2)
        BY <1>3
      <3>6. QED
        BY <1>3, <2>5, <3>1, <3>2, <3>3, <3>4, <3>5
    <2>8. CASE ~IsFirst(n) /\ ~IsLast(n)
      <3>1. fIndexValid' = FALSE /\ indexStart' = indexStart
        BY <2>1, <2>8 DEF ValidAfterRemove, StartAfterRemove
      <3>2. QED
        BY <1>3, <1>4, <3>1
    <2>9. QED
      BY <2>6, <2>7, <2>8
  <1>8. QED
    BY <1>3, <1>5, <1>6, <1>7 DEF IndexInv

(* Access by position leaves a valid index.                                *)
LEMMA IndexLookup ==
    ASSUME IInv, IndexInv, NEW i \in 0..FSize, LookupByIndex(i), i < size
    PROVE  IndexInv'
  <1>1. /\ indexlist' = ReIndex /\ fIndexValid' = TRUE /\ UNCHANGED chains
        /\ indexStart' = IF fIndexValid THEN indexStart ELSE 0
    BY SizeBound, FastHashAssumption DEF LookupByIndex, FastHashAssumption
  <1>2. Live' = Live /\ size' = size
    BY <1>1 DEF chains, Live
  <1>3. indexlist' = [j \in Slots |-> indexlist'[j]]
    BY <1>1 DEF ReIndex
  <1>4. size \in 0..FSize /\ FSize \in Nat \ {0} /\ 0 \in Slots
    BY SizeBound, FastHashAssumption DEF FastHashAssumption, Slots
  <1>5. CASE fIndexValid
    <2>1. ReIndex = indexlist
      BY <1>5 DEF ReIndex, IndexInv
    <2>2. UNCHANGED <<indexlist, fIndexValid, indexStart>>
      BY <1>1, <1>5, <2>1 DEF IndexInv
    <2>3. QED
      BY <1>2, <2>2 DEF IndexInv, Turn
  <1>6. CASE ~fIndexValid
    <2>1. indexStart' = 0
      BY <1>1, <1>6
    <2>2. /\ \A n : n \in Live <=> \E j \in 1..Len(InChainOrder) : InChainOrder[j] = n
          /\ Len(InChainOrder) = size
      BY ChainOrder DEF Holds
    <2>3. \A j \in 0..(size - 1) : Turn(0 + j) = j /\ indexlist'[j] = InChainOrder[j + 1]
      <3> SUFFICES ASSUME NEW j \in 0..(size - 1)
                   PROVE  Turn(0 + j) = j /\ indexlist'[j] = InChainOrder[j + 1]
        OBVIOUS
      <3>1. j \in Slots /\ j < size /\ 0 + j = j /\ j < FSize
        BY <1>4 DEF Slots
      <3>2. QED
        BY <1>1, <1>6, <2>2, <3>1 DEF ReIndex, Turn
    <2>4. ASSUME NEW n
          PROVE  n \in Live <=> \E j \in 0..(size - 1) : indexlist'[Turn(0 + j)] = n
      <3>1. ASSUME n \in Live PROVE \E j \in 0..(size - 1) : indexlist'[Turn(0 + j)] = n
        <4>1. PICK j \in 1..size : InChainOrder[j] = n
          BY <2>2, <3>1
        <4>2. j - 1 \in 0..(size - 1) /\ (j - 1) + 1 = j
          BY <1>4, <4>1
        <4>3. indexlist'[Turn(0 + (j - 1))] = n
          BY <2>3, <4>1, <4>2
        <4>4. QED
          BY <4>2, <4>3
      <3>2. ASSUME NEW j \in 0..(size - 1), indexlist'[Turn(0 + j)] = n PROVE n \in Live
        <4>1. j + 1 \in 1..Len(InChainOrder) /\ InChainOrder[j + 1] = n
          BY <1>4, <2>2, <2>3, <3>2
        <4>2. QED
          BY <2>2, <4>1
      <3>3. QED
        BY <3>1, <3>2
    <2>5. QED
      BY <1>1, <1>2, <1>3, <1>4, <2>1, <2>4 DEF IndexInv, Turn
  <1>7. QED
    BY <1>5, <1>6 DEF IndexInv

LEMMA IndexReset ==
    ASSUME lookuptable' = [b \in Buckets |-> <<>>],
           indexlist' = [i \in Slots |-> indexlist'[i]],
           size' = 0, fIndexValid' = TRUE, indexStart' = 0
    PROVE  IndexInv'
  <1>1. Live' = {}
    BY DEF Live
  <1>2. 0..(size' - 1) = {}
    OBVIOUS
  <1>3. 0 \in Slots
    BY FastHashAssumption DEF FastHashAssumption, Slots
  <1>4. QED
    BY <1>1, <1>2, <1>3 DEF IndexInv

LEMMA IndexInit == Init => IndexInv
  <1> SUFFICES ASSUME Init PROVE IndexInv
    OBVIOUS
  <1>1. Live = {}
    BY DEF Init, Live
  <1>2. 0..(size - 1) = {}
    BY DEF Init
  <1>3. 0 \in Slots
    BY FastHashAssumption DEF FastHashAssumption, Slots
  <1>4. QED
    BY <1>1, <1>2, <1>3 DEF IndexInv, Init

LEMMA IndexStep == IInv /\ IndexInv /\ [Next]_vars => IndexInv'
  <1> SUFFICES ASSUME IInv, IndexInv, [Next]_vars PROVE IndexInv'
    OBVIOUS
  <1>1. ASSUME UNCHANGED <<chains, index>> PROVE IndexInv'
    <2>1. UNCHANGED <<lookuptable, size, indexlist, indexStart>>
      BY <1>1 DEF chains, index
    <2>2. UNCHANGED fIndexValid
      BY <1>1, Zenon DEF index
    <2>3. Live' = Live
      BY <2>1 DEF Live
    <2>4. fIndexValid' \in BOOLEAN
      BY <2>2, Zenon DEF IndexInv
    <2>5. fIndexValid' =>
            \A n : n \in Live' <=>
               \E i \in 0..(size' - 1) : indexlist'[Turn(indexStart' + i)] = n
      BY <2>1, <2>2, <2>3 DEF IndexInv
    <2>6. QED
      BY <2>1, <2>4, <2>5 DEF IndexInv, Turn
  <1>2. ASSUME NEW k \in Keys, NEW v \in Values, Insert(k, v) PROVE IndexInv'
    BY <1>1, <1>2, IndexInsert DEF Insert
  <1>3. ASSUME NEW k \in Keys, Remove(k) PROVE IndexInv'
    BY <1>1, <1>3, IndexRemove DEF Remove
  <1>4. ASSUME NEW k \in Keys, Lookup(k) PROVE IndexInv'
    BY <1>1, <1>4 DEF Lookup
  <1>5. ASSUME NEW i \in 0..FSize, LookupByIndex(i) PROVE IndexInv'
    BY <1>1, <1>5, IndexLookup DEF LookupByIndex
  <1>6. CASE Reset
    BY <1>6, IndexReset DEF Reset, ResetLists, IndexInv
  <1>7. CASE UNCHANGED vars
    BY <1>1, <1>7 DEF vars
  <1>8. QED
    BY <1>2, <1>3, <1>4, <1>5, <1>6, <1>7 DEF Next

LEMMA IndexIsExact ==
    ASSUME IInv, IndexInv PROVE EnumerationIsExact
  <1>1. size \in 0..FSize /\ FSize \in Nat \ {0} /\ 0 \in Slots
    BY SizeBound, FastHashAssumption DEF FastHashAssumption, Slots
  <1>2. ASSUME NEW n PROVE n \in Live <=> \E i \in 0..(size - 1) : NodeAtIndex(i) = n
    <2>1. CASE fIndexValid
      <3>1. \A i \in 0..(size - 1) : NodeAtIndex(i) = indexlist[Turn(indexStart + i)]
        <4> SUFFICES ASSUME NEW i \in 0..(size - 1)
                     PROVE  NodeAtIndex(i) = indexlist[Turn(indexStart + i)]
          OBVIOUS
        <4>1. i \in 0..FSize /\ indexStart \in Slots
          BY <1>1 DEF IndexInv
        <4>2. (indexStart + i) % FSize = Turn(indexStart + i) /\ Turn(indexStart + i) \in Slots
          BY <4>1, Wraps
        <4>3. QED
          BY <2>1, <4>2 DEF NodeAtIndex, ReIndex
      <3>2. QED
        BY <2>1, <3>1 DEF IndexInv
    <2>2. CASE ~fIndexValid
      <3>1. /\ \A x : x \in Live <=> \E j \in 1..size : InChainOrder[j] = x
            /\ Len(InChainOrder) = size
        BY ChainOrder DEF Holds
      <3>2. \A i \in 0..(size - 1) : NodeAtIndex(i) = InChainOrder[i + 1]
        <4> SUFFICES ASSUME NEW i \in 0..(size - 1) PROVE NodeAtIndex(i) = InChainOrder[i + 1]
          OBVIOUS
        <4>1. i \in 0..FSize /\ i < size /\ i \in Slots /\ 0 + i = i /\ i < FSize
          BY <1>1 DEF Slots
        <4>2. (0 + i) % FSize = i
          BY <1>1, <4>1, Wraps DEF Turn
        <4>3. QED
          BY <2>2, <3>1, <4>1, <4>2 DEF NodeAtIndex, ReIndex
      <3>3. \A i : i \in 0..(size - 1) <=> i + 1 \in 1..size /\ i \in Int
        BY <1>1
      <3>4. \A j \in 1..size : j - 1 \in 0..(size - 1) /\ (j - 1) + 1 = j
        BY <1>1
      <3>5. QED
        BY <3>1, <3>2, <3>3, <3>4
    <2>3. QED
      BY <2>1, <2>2
  <1>3. {NodeAtIndex(i) : i \in 0..(size - 1)} = Live
    BY <1>2
  <1>4. QED
    BY <1>3 DEF EnumerationIsExact, IInv

(* For any table and hash, LookupByIndex over the positions below Size()   *)
(* meets every stored node and no other, however the shortcuts that keep   *)
(* the circular list valid and the rebuilding by ReIndex alternated.       *)
THEOREM EnumerationTheorem == Spec => []EnumerationIsExact
  <1>1. Spec => []IndexInv
    BY IndexInit, IndexStep, Invariant, PTL DEF Spec
  <1>2. QED
    BY <1>1, IndexIsExact, Invariant, PTL

-----------------------------------------------------------------------------
(* -------- sequences joined end to end ----------------------------------- *)
(* Flattening a sequence of sequences, through the results of its          *)
(* beginnings.                                                             *)

IsPrefixes(seqs, G) ==
    /\ G[0] = <<>>
    /\ \A i \in 1..Len(seqs) : G[i] = G[i - 1] \o seqs[i]

LEMMA Prefixes ==
    ASSUME NEW S, NEW seqs \in Seq(Seq(S))
    PROVE  \E G : /\ IsPrefixes(seqs, G)
                  /\ SX!FlattenSeq(seqs) = G[Len(seqs)]
                  /\ \A i \in 0..Len(seqs) : G[i] \in Seq(S)
  <1> DEFINE m == Len(seqs)
  <1>1. m \in Nat /\ \A i \in 1..m : seqs[i] \in Seq(S)
    OBVIOUS
  <1>2. CASE m = 0
    <2> DEFINE G == [i \in {0} |-> <<>>]
    <2>1. SX!FlattenSeq(seqs) = seqs /\ seqs = <<>>
      BY <1>2 DEF SX!FlattenSeq
    <2>2. G[0] = <<>> /\ 0..m = {0} /\ 1..m = {} /\ <<>> \in Seq(S)
      BY <1>2
    <2> HIDE DEF G
    <2>3. IsPrefixes(seqs, G) /\ SX!FlattenSeq(seqs) = G[m] /\ \A i \in 0..m : G[i] \in Seq(S)
      BY <1>2, <2>1, <2>2 DEF IsPrefixes
    <2>4. QED
      BY <2>3
  <1>3. CASE m # 0
    <2>1. m \in Nat \ {0}
      BY <1>1, <1>3
    <2>2. PICK f : IsFlattened(seqs, f) /\ SX!FlattenSeq(seqs) = f[m]
      BY <2>1, FlattenIs
    <2> DEFINE G == [i \in 0..m |-> IF i = 0 THEN <<>> ELSE f[i]]
    <2>3. \A i \in 1..m : f[i] = IF i = 1 THEN seqs[i] ELSE f[i - 1] \o seqs[i]
      <3>1. f = [i \in 1..m |-> IF i = 1 THEN seqs[i] ELSE f[i - 1] \o seqs[i]]
        BY <2>2 DEF IsFlattened
      <3> HIDE DEF m
      <3>2. QED
        BY <3>1
    <2>4. /\ G[0] = <<>> /\ G[m] = f[m]
          /\ \A i \in 1..m : G[i] = f[i] /\ i \in 0..m
          /\ \A i \in 1..m : i # 1 => G[i - 1] = f[i - 1]
      BY <1>1, <1>3
    <2> HIDE DEF G
    <2>5. \A i \in 1..m : G[i] = G[i - 1] \o seqs[i]
      <3> SUFFICES ASSUME NEW i \in 1..m PROVE G[i] = G[i - 1] \o seqs[i]
        OBVIOUS
      <3>1. CASE i = 1
        <4>1. <<>> \o seqs[1] = seqs[1] /\ i - 1 = 0
          BY <1>1, <3>1
        <4>2. QED
          BY <2>3, <2>4, <3>1, <4>1
      <3>2. CASE i # 1
        BY <2>3, <2>4, <3>2
      <3>3. QED
        BY <3>1, <3>2
    <2> DEFINE Good == {i \in Nat : i \in 0..m => G[i] \in Seq(S)}
    <2>6. 0 \in Good
      <3>1. <<>> \in Seq(S)
        OBVIOUS
      <3>2. QED
        BY <2>4, <3>1
    <2>7. ASSUME NEW i \in Good PROVE i + 1 \in Good
      <3> SUFFICES ASSUME i + 1 \in 0..m PROVE G[i + 1] \in Seq(S)
        OBVIOUS
      <3>1. i \in 0..m /\ i + 1 \in 1..m /\ (i + 1) - 1 = i
        BY <1>1
      <3>2. G[i] \in Seq(S) /\ seqs[i + 1] \in Seq(S)
        BY <1>1, <3>1
      <3>3. G[i + 1] = G[i] \o seqs[i + 1]
        BY <2>5, <3>1
      <3>4. QED
        BY <3>2, <3>3
    <2>8. \A i \in 0..m : G[i] \in Seq(S)
      <3>1. Good \in SUBSET Nat
        OBVIOUS
      <3>2. Good = Nat
        <4> HIDE DEF Good
        <4>1. QED
          BY <2>6, <2>7, <3>1, CountUp
      <3>3. QED
        BY <1>1, <3>2
    <2>9. IsPrefixes(seqs, G)
      BY <2>4, <2>5 DEF IsPrefixes
    <2>10. QED
      BY <2>2, <2>4, <2>8, <2>9
  <1>4. QED
    BY <1>2, <1>3

LEMMA EmptyJoin ==
    ASSUME NEW S, NEW r \in Seq(S)
    PROVE  <<>> \o r = r /\ r \o <<>> = r
  OBVIOUS

Join(q, r) == q \o r

LEMMA JoinsTwice ==
    ASSUME NEW S
    PROVE  \A q \in Seq(S) : \A r \in Seq(S) : \A u \in Seq(S) :
              Join(Join(q, r), u) = Join(q, Join(r, u))
  <1> SUFFICES ASSUME NEW q \in Seq(S), NEW r \in Seq(S), NEW u \in Seq(S)
               PROVE  Join(Join(q, r), u) = Join(q, Join(r, u))
    OBVIOUS
  <1>1. QED
    BY DEF Join

(* Taking out one piece: an empty one changes nothing, the first that is   *)
(* not empty was the front of the result.                                  *)
LEMMA FlattenCut ==
    ASSUME NEW S, NEW s \in Seq(Seq(S)), NEW t \in Seq(Seq(S)), NEW p \in 1..Len(s),
           Len(t) = Len(s) - 1,
           \A j \in 1..Len(t) : t[j] = IF j < p THEN s[j] ELSE s[j + 1]
    PROVE  /\ s[p] = <<>> => SX!FlattenSeq(s) = SX!FlattenSeq(t)
           /\ (\A j \in 1..(p - 1) : s[j] = <<>>) =>
                 SX!FlattenSeq(s) = s[p] \o SX!FlattenSeq(t)
  <1> DEFINE m == Len(s)
  <1>1. PICK G : /\ IsPrefixes(s, G) /\ SX!FlattenSeq(s) = G[m]
                 /\ \A i \in 0..m : G[i] \in Seq(S)
    BY Prefixes
  <1>2. PICK H : /\ IsPrefixes(t, H) /\ SX!FlattenSeq(t) = H[m - 1]
                 /\ \A i \in 0..(m - 1) : H[i] \in Seq(S)
    BY Prefixes
  <1>3. m \in Nat /\ p \in 1..m /\ \A i \in 1..m : s[i] \in Seq(S)
    OBVIOUS
  <1>4. /\ G[0] = <<>> /\ \A i \in 1..m : G[i] = G[i - 1] \o s[i]
        /\ H[0] = <<>> /\ \A i \in 1..(m - 1) : H[i] = H[i - 1] \o t[i]
    BY <1>1, <1>2 DEF IsPrefixes
  <1>5. \A i \in 1..(m - 1) : t[i] = IF i < p THEN s[i] ELSE s[i + 1]
    OBVIOUS
  <1> HIDE DEF m
  <1>6. \A i \in 0..(p - 1) : H[i] = G[i]
    <2> DEFINE Good == {i \in Nat : i \in 0..(p - 1) => H[i] = G[i]}
    <2>1. 0 \in Good
      BY <1>4
    <2>2. ASSUME NEW i \in Good PROVE i + 1 \in Good
      <3> SUFFICES ASSUME i + 1 \in 0..(p - 1) PROVE H[i + 1] = G[i + 1]
        OBVIOUS
      <3>1. /\ i \in 0..(p - 1) /\ i + 1 \in 1..(m - 1) /\ i + 1 \in 1..m /\ (i + 1) - 1 = i
            /\ i + 1 < p
        BY <1>3
      <3>2. H[i + 1] = H[i] \o t[i + 1] /\ G[i + 1] = G[i] \o s[i + 1] /\ H[i] = G[i]
        BY <1>4, <3>1
      <3>3. t[i + 1] = s[i + 1]
        BY <1>5, <3>1
      <3>4. QED
        BY <3>2, <3>3
    <2>3. Good \in SUBSET Nat
      OBVIOUS
    <2>4. Good = Nat
      <3> HIDE DEF Good
      <3>1. QED
        BY <2>1, <2>2, <2>3, CountUp
    <2>5. QED
      BY <1>3, <2>4
  <1>7. /\ p - 1 \in 0..(m - 1) /\ p - 1 \in 0..(p - 1) /\ p \in 1..m
        /\ G[p] = H[p - 1] \o s[p] /\ H[p - 1] \in Seq(S) /\ s[p] \in Seq(S)
    <2>1. p - 1 \in 0..(m - 1) /\ p - 1 \in 0..(p - 1)
      BY <1>3
    <2>2. G[p] = G[p - 1] \o s[p] /\ H[p - 1] = G[p - 1]
      BY <1>3, <1>4, <1>6, <2>1
    <2>3. QED
      BY <1>2, <1>3, <2>1, <2>2
  \* What the results are once the piece has been passed.
  <1>8. ASSUME NEW q \in Seq(S), G[p] = q \o H[p - 1]
        PROVE  G[m] = q \o H[m - 1]
    <2> DEFINE Good == {i \in Nat : p + i \in p..m => G[p + i] = q \o H[(p + i) - 1]}
    <2>1. 0 \in Good
      BY <1>3, <1>8
    <2>2. ASSUME NEW i \in Good PROVE i + 1 \in Good
      <3> DEFINE j == p + i
      <3> SUFFICES ASSUME p + (i + 1) \in p..m PROVE G[p + (i + 1)] = q \o H[(p + (i + 1)) - 1]
        OBVIOUS
      <3>1. /\ j \in p..m /\ j \in 1..(m - 1) /\ j - 1 \in 0..(m - 1) /\ j + 1 \in 1..m
            /\ (j + 1) - 1 = j /\ ~(j < p) /\ p + (i + 1) = j + 1 /\ j \in Int
        BY <1>3
      <3>2. G[j] = q \o H[j - 1]
        BY <3>1
      <3> HIDE DEF j
      <3>3. G[j + 1] = G[j] \o s[j + 1] /\ H[j] = H[j - 1] \o t[j] /\ t[j] = s[j + 1]
        BY <1>4, <1>5, <3>1
      <3>4. H[j - 1] \in Seq(S) /\ s[j + 1] \in Seq(S)
        BY <1>2, <1>3, <3>1
      <3>5. (q \o H[j - 1]) \o s[j + 1] = q \o (H[j - 1] \o s[j + 1])
        <4>1. Join(Join(q, H[j - 1]), s[j + 1]) = Join(q, Join(H[j - 1], s[j + 1]))
          BY <3>4, JoinsTwice
        <4>2. QED
          BY <4>1, Zenon DEF Join
      <3>6. G[j + 1] = q \o H[j]
        BY <3>2, <3>3, <3>5
      <3>7. QED
        BY <3>1, <3>6
    <2>3. Good = Nat
      <3>1. Good \in SUBSET Nat
        OBVIOUS
      <3> HIDE DEF Good
      <3>2. QED
        BY <2>1, <2>2, <3>1, CountUp
    <2>4. m - p \in Nat /\ p + (m - p) = m /\ m \in p..m
      BY <1>3
    <2>5. m - p \in Good
      BY <2>3, <2>4
    <2>6. G[p + (m - p)] = q \o H[(p + (m - p)) - 1]
      BY <2>4, <2>5
    <2>7. QED
      BY <2>4, <2>6
  <1>9. ASSUME s[p] = <<>> PROVE G[m] = H[m - 1]
    <2>1. <<>> \in Seq(S)
      OBVIOUS
    <2>2. G[p] = H[p - 1] /\ <<>> \o H[p - 1] = H[p - 1]
      BY <1>7, <1>9, EmptyJoin
    <2>3. G[m] = <<>> \o H[m - 1]
      BY <1>8, <2>1, <2>2
    <2>4. m - 1 \in 0..(m - 1)
      BY <1>3
    <2>5. H[m - 1] \in Seq(S)
      BY <1>2, <2>4 DEF m
    <2>6. QED
      BY <2>3, <2>5, EmptyJoin
  <1>10. ASSUME \A j \in 1..(p - 1) : s[j] = <<>> PROVE G[m] = s[p] \o H[m - 1]
    <2> DEFINE Good == {i \in Nat : i \in 0..(p - 1) => G[i] = <<>>}
    <2>1. 0 \in Good
      BY <1>4
    <2>2. ASSUME NEW i \in Good PROVE i + 1 \in Good
      <3> SUFFICES ASSUME i + 1 \in 0..(p - 1) PROVE G[i + 1] = <<>>
        OBVIOUS
      <3>1. i \in 0..(p - 1) /\ i + 1 \in 1..(p - 1) /\ i + 1 \in 1..m /\ (i + 1) - 1 = i
        BY <1>3
      <3>2. G[i + 1] = G[i] \o s[i + 1] /\ G[i] = <<>> /\ s[i + 1] = <<>>
        BY <1>4, <1>10, <3>1
      <3>3. QED
        BY <3>2
    <2>3. Good = Nat
      <3>1. Good \in SUBSET Nat
        OBVIOUS
      <3> HIDE DEF Good
      <3>2. QED
        BY <2>1, <2>2, <3>1, CountUp
    <2>4. G[p - 1] = <<>>
      <3>1. p - 1 \in Nat
        BY <1>3
      <3>2. p - 1 \in Good
        BY <2>3, <3>1
      <3>3. QED
        BY <1>7, <3>2
    <2>5. H[p - 1] = <<>>
      BY <1>6, <1>7, <2>4
    <2>6. G[p] = s[p] \o H[p - 1]
      BY <1>7, <2>5, EmptyJoin
    <2>7. QED
      BY <1>7, <1>8, <2>6
  <1>11. QED
    BY <1>1, <1>2, <1>9, <1>10 DEF m

(* Empty pieces leave nothing, and what a piece holds is found.            *)
LEMMA FlattenEmpty ==
    ASSUME NEW S, NEW s \in Seq(Seq(S)), \A i \in 1..Len(s) : s[i] = <<>>
    PROVE  SX!FlattenSeq(s) = <<>>
  <1> DEFINE m == Len(s)
  <1>1. PICK G : IsPrefixes(s, G) /\ SX!FlattenSeq(s) = G[m]
    BY Prefixes
  <1>2. m \in Nat
    OBVIOUS
  <1>3. \A i \in 1..m : s[i] = <<>>
    OBVIOUS
  <1>4. G[0] = <<>> /\ \A i \in 1..m : G[i] = G[i - 1] \o s[i]
    BY <1>1 DEF IsPrefixes
  <1> HIDE DEF m
  <1> DEFINE Good == {i \in Nat : i \in 0..m => G[i] = <<>>}
  <1>5. 0 \in Good
    BY <1>4
  <1>6. ASSUME NEW i \in Good PROVE i + 1 \in Good
    <2> SUFFICES ASSUME i + 1 \in 0..m PROVE G[i + 1] = <<>>
      OBVIOUS
    <2>1. i \in 0..m /\ i + 1 \in 1..m /\ (i + 1) - 1 = i
      BY <1>2
    <2>2. G[i + 1] = G[i] \o s[i + 1] /\ G[i] = <<>> /\ s[i + 1] = <<>>
      BY <1>3, <1>4, <2>1
    <2>3. QED
      BY <2>2
  <1>7. Good = Nat
    <2>1. Good \in SUBSET Nat
      OBVIOUS
    <2> HIDE DEF Good
    <2>2. QED
      BY <1>5, <1>6, <2>1, CountUp
  <1>8. QED
    BY <1>1, <1>2, <1>7

LEMMA FlattenHas ==
    ASSUME NEW S, NEW s \in Seq(Seq(S)), NEW p \in 1..Len(s), NEW x, s[p] = <<x>>
    PROVE  \E j \in 1..Len(SX!FlattenSeq(s)) : SX!FlattenSeq(s)[j] = x
  <1> DEFINE m == Len(s)
  <1>1. PICK G : /\ IsPrefixes(s, G) /\ SX!FlattenSeq(s) = G[m]
                 /\ \A i \in 0..m : G[i] \in Seq(S)
    BY Prefixes
  <1>2. m \in Nat /\ p \in 1..m
    OBVIOUS
  <1>3. \A i \in 1..m : s[i] \in Seq(S)
    OBVIOUS
  <1>4. \A i \in 1..m : G[i] = G[i - 1] \o s[i]
    BY <1>1 DEF IsPrefixes
  <1> HIDE DEF m
  <1> DEFINE Has(r) == \E j \in 1..Len(r) : r[j] = x
             Good == {i \in Nat : p + i \in p..m => Has(G[p + i])}
  <1>5. ASSUME NEW q \in Seq(S), NEW r \in Seq(S), Has(q) \/ Has(r)
        PROVE  Has(q \o r)
    <2>1. /\ Len(q \o r) = Len(q) + Len(r) /\ Len(q) \in Nat /\ Len(r) \in Nat
          /\ \A j \in 1..(Len(q) + Len(r)) :
                (q \o r)[j] = IF j <= Len(q) THEN q[j] ELSE r[j - Len(q)]
      BY ConcatProperties
    <2>2. CASE Has(q)
      <3>1. PICK j \in 1..Len(q) : q[j] = x
        BY <2>2
      <3>2. j \in 1..(Len(q) + Len(r)) /\ j <= Len(q)
        BY <2>1
      <3>3. QED
        BY <2>1, <3>1, <3>2
    <2>3. CASE Has(r)
      <3>1. PICK j \in 1..Len(r) : r[j] = x
        BY <2>3
      <3>2. /\ j + Len(q) \in 1..(Len(q) + Len(r)) /\ ~(j + Len(q) <= Len(q))
            /\ (j + Len(q)) - Len(q) = j
        BY <2>1
      <3>3. QED
        BY <2>1, <3>1, <3>2
    <2>4. QED
      BY <1>5, <2>2, <2>3
  <1>6. Has(s[p])
    <2>1. 1 \in 1..Len(s[p]) /\ s[p][1] = x
      OBVIOUS
    <2>2. QED
      BY <2>1
  <1> HIDE DEF Has
  <1>7. 0 \in Good
    <2>1. p - 1 \in 0..m /\ p + 0 = p /\ p \in 1..m
      BY <1>2
    <2>2. G[p - 1] \in Seq(S) /\ s[p] \in Seq(S) /\ G[p] = G[p - 1] \o s[p]
      BY <1>1, <1>2, <1>3, <1>4, <2>1 DEF m
    <2>3. Has(G[p])
      BY <1>5, <1>6, <2>2
    <2>4. QED
      BY <2>1, <2>3
  <1>8. ASSUME NEW i \in Good PROVE i + 1 \in Good
    <2> SUFFICES ASSUME p + (i + 1) \in p..m PROVE Has(G[p + (i + 1)])
      OBVIOUS
    <2>1. /\ p + i \in p..m /\ p + i \in 0..m /\ (p + i) + 1 \in 1..m
          /\ ((p + i) + 1) - 1 = p + i /\ p + (i + 1) = (p + i) + 1
      BY <1>2
    <2>2. /\ Has(G[p + i]) /\ G[p + i] \in Seq(S) /\ s[(p + i) + 1] \in Seq(S)
          /\ G[(p + i) + 1] = G[p + i] \o s[(p + i) + 1]
      BY <1>1, <1>2, <1>3, <1>4, <2>1 DEF m
    <2>3. QED
      BY <1>5, <2>1, <2>2
  <1>9. Good = Nat
    <2>1. Good \in SUBSET Nat
      OBVIOUS
    <2> HIDE DEF Good
    <2>2. QED
      BY <1>7, <1>8, <2>1, CountUp
  <1>10. Has(G[m])
    <2>1. m - p \in Nat /\ p + (m - p) = m /\ m \in p..m
      BY <1>2
    <2>2. m - p \in Good
      BY <1>9, <2>1
    <2>3. Has(G[p + (m - p)])
      BY <2>1, <2>2
    <2>4. QED
      BY <2>1, <2>3
  <1>11. QED
    BY <1>1, <1>10 DEF Has

-----------------------------------------------------------------------------
(* -------- the table is a multimap --------------------------------------- *)

(* What each node of a chain has for a key, and the values there are.      *)
Pieces(chain, store, k) ==
    [i \in 1..Len(chain) |->
        IF store[chain[i]].key = k THEN <<store[chain[i]].value>> ELSE <<>>]

Joined(chain, store, k) == SX!FlattenSeq(Pieces(chain, store, k))

Worth(store) == {store[n].value : n \in Slots}

LEMMA ValuesAre == \A k : ValuesOf(k) = Joined(lookuptable[Bucket(k)], nodes, k)
  BY DEF ValuesOf, Joined, Pieces

LEMMA PiecesType ==
    ASSUME NEW chain \in Seq(Slots), NEW store, NEW k
    PROVE  /\ Pieces(chain, store, k) \in Seq(Seq(Worth(store)))
           /\ Len(Pieces(chain, store, k)) = Len(chain)
           /\ \A i \in 1..Len(chain) : Pieces(chain, store, k)[i] =
                 IF store[chain[i]].key = k THEN <<store[chain[i]].value>> ELSE <<>>
  <1> DEFINE piece(i) == IF store[chain[i]].key = k THEN <<store[chain[i]].value>> ELSE <<>>
  <1>1. Len(chain) \in Nat /\ \A i \in 1..Len(chain) : chain[i] \in Slots
    OBVIOUS
  <1>2. \A i \in 1..Len(chain) : piece(i) \in Seq(Worth(store))
    <2> SUFFICES ASSUME NEW i \in 1..Len(chain) PROVE piece(i) \in Seq(Worth(store))
      OBVIOUS
    <2>1. store[chain[i]].value \in Worth(store)
      BY <1>1 DEF Worth
    <2>2. <<store[chain[i]].value>> \in Seq(Worth(store)) /\ <<>> \in Seq(Worth(store))
      BY <2>1
    <2>3. QED
      BY <2>2
  <1>3. Pieces(chain, store, k) = [i \in 1..Len(chain) |-> piece(i)]
    BY DEF Pieces
  <1> HIDE DEF piece
  <1>4. /\ [i \in 1..Len(chain) |-> piece(i)] \in Seq(Seq(Worth(store)))
        /\ Len([i \in 1..Len(chain) |-> piece(i)]) = Len(chain)
    BY <1>1, <1>2
  <1>5. QED
    BY <1>3, <1>4 DEF piece

LEMMA JoinedType ==
    ASSUME NEW chain \in Seq(Slots), NEW store, NEW k
    PROVE  Joined(chain, store, k) \in Seq(Worth(store))
  <1> DEFINE s == Pieces(chain, store, k)
  <1>1. s \in Seq(Seq(Worth(store)))
    BY PiecesType
  <1> HIDE DEF s
  <1>2. Len(s) \in Nat /\ Len(s) \in 0..Len(s)
    BY <1>1
  <1>3. SX!FlattenSeq(s) \in Seq(Worth(store))
    BY <1>1, <1>2, Prefixes
  <1>4. QED
    BY <1>3 DEF Joined, s

IsCut(chain, shorter, p) ==
    /\ chain \in Seq(Slots) /\ shorter \in Seq(Slots)
    /\ p \in 1..Len(chain) /\ Len(shorter) = Len(chain) - 1
    /\ \A j \in 1..Len(shorter) : shorter[j] = IF j < p THEN chain[j] ELSE chain[j + 1]

NoneBefore(chain, store, k, p) == \A j \in 1..(p - 1) : store[chain[j]].key # k

(* One node less: nothing changes for the other keys, and its own key      *)
(* loses its first value if no node before it has that key.                *)
LEMMA CutNode ==
    ASSUME NEW chain, NEW shorter, NEW store, NEW k, NEW p, IsCut(chain, shorter, p)
    PROVE  /\ store[chain[p]].key # k => Joined(chain, store, k) = Joined(shorter, store, k)
           /\ store[chain[p]].key = k /\ NoneBefore(chain, store, k, p) =>
                 Joined(chain, store, k)
                    = Join(<<store[chain[p]].value>>, Joined(shorter, store, k))
  <1>0. /\ chain \in Seq(Slots) /\ shorter \in Seq(Slots)
        /\ p \in 1..Len(chain) /\ Len(shorter) = Len(chain) - 1
        /\ \A j \in 1..Len(shorter) : shorter[j] = IF j < p THEN chain[j] ELSE chain[j + 1]
    BY DEF IsCut
  <1> DEFINE V == Worth(store)
             s == Pieces(chain, store, k)
             t == Pieces(shorter, store, k)
  <1>1. /\ s \in Seq(Seq(V)) /\ Len(s) = Len(chain)
        /\ \A i \in 1..Len(chain) : s[i] =
              IF store[chain[i]].key = k THEN <<store[chain[i]].value>> ELSE <<>>
    <2>1. s \in Seq(Seq(V)) /\ Len(s) = Len(chain)
      BY <1>0, PiecesType
    <2>2. \A i \in 1..Len(chain) : s[i] =
              IF store[chain[i]].key = k THEN <<store[chain[i]].value>> ELSE <<>>
      BY DEF Pieces
    <2> HIDE DEF s
    <2>3. QED
      BY <2>1, <2>2, Zenon
  <1>2. /\ t \in Seq(Seq(V)) /\ Len(t) = Len(shorter)
        /\ \A i \in 1..Len(shorter) : t[i] =
              IF store[shorter[i]].key = k THEN <<store[shorter[i]].value>> ELSE <<>>
    <2>1. t \in Seq(Seq(V)) /\ Len(t) = Len(shorter)
      BY <1>0, PiecesType
    <2>2. \A i \in 1..Len(shorter) : t[i] =
              IF store[shorter[i]].key = k THEN <<store[shorter[i]].value>> ELSE <<>>
      BY DEF Pieces
    <2> HIDE DEF t
    <2>3. QED
      BY <2>1, <2>2, Zenon
  <1> HIDE DEF V, s, t
  <1>3. Len(chain) \in Nat /\ p \in 1..Len(chain)
    BY <1>0
  <1>4. \A j \in 1..Len(t) : t[j] = IF j < p THEN s[j] ELSE s[j + 1]
    <2> SUFFICES ASSUME NEW j \in 1..Len(t) PROVE t[j] = IF j < p THEN s[j] ELSE s[j + 1]
      OBVIOUS
    <2>1. j \in 1..Len(shorter) /\ j \in 1..Len(chain) /\ j + 1 \in 1..Len(chain)
      BY <1>0, <1>2, <1>3
    <2>2. CASE j < p
      <3>1. shorter[j] = chain[j]
        BY <1>0, <1>2, <2>1, <2>2
      <3>2. QED
        BY <1>1, <1>2, <2>1, <2>2, <3>1
    <2>3. CASE ~(j < p)
      <3>1. shorter[j] = chain[j + 1]
        BY <1>0, <1>2, <2>1, <2>3
      <3>2. QED
        BY <1>1, <1>2, <2>1, <2>3, <3>1
    <2>4. QED
      BY <2>2, <2>3
  <1>5. /\ s[p] = <<>> => SX!FlattenSeq(s) = SX!FlattenSeq(t)
        /\ (\A j \in 1..(p - 1) : s[j] = <<>>) =>
              SX!FlattenSeq(s) = s[p] \o SX!FlattenSeq(t)
    <2>1. p \in 1..Len(s) /\ Len(t) = Len(s) - 1
      BY <1>0, <1>1, <1>2
    <2>2. QED
      BY <1>1, <1>2, <1>4, <2>1, FlattenCut
  <1>6. ASSUME store[chain[p]].key # k PROVE s[p] = <<>>
    BY <1>1, <1>3, <1>6
  <1>7. ASSUME store[chain[p]].key = k PROVE s[p] = <<store[chain[p]].value>>
    BY <1>1, <1>3, <1>7
  <1>8. ASSUME NoneBefore(chain, store, k, p)
        PROVE  \A j \in 1..(p - 1) : s[j] = <<>>
    <2> SUFFICES ASSUME NEW j \in 1..(p - 1) PROVE s[j] = <<>>
      OBVIOUS
    <2>1. j \in 1..Len(chain)
      BY <1>3
    <2>2. QED
      BY <1>1, <1>8, <2>1, Zenon DEF NoneBefore
  <1>9. SX!FlattenSeq(s) = Joined(chain, store, k) /\ SX!FlattenSeq(t) = Joined(shorter, store, k)
    BY DEF Joined, s, t
  <1>10. ASSUME store[chain[p]].key = k, NoneBefore(chain, store, k, p)
         PROVE  Joined(chain, store, k)
                   = Join(<<store[chain[p]].value>>, Joined(shorter, store, k))
    <2>1. SX!FlattenSeq(s) = s[p] \o SX!FlattenSeq(t)
      BY <1>5, <1>8, <1>10
    <2>2. QED
      BY <1>7, <1>9, <1>10, <2>1 DEF Join
  <1>11. QED
    BY <1>5, <1>6, <1>9, <1>10

LEMMA CutOther ==
    ASSUME NEW chain, NEW shorter, NEW store, NEW p, IsCut(chain, shorter, p)
    PROVE  \A k : k # store[chain[p]].key => Joined(chain, store, k) = Joined(shorter, store, k)
  <1> SUFFICES ASSUME NEW k, k # store[chain[p]].key
               PROVE  Joined(chain, store, k) = Joined(shorter, store, k)
    OBVIOUS
  <1>1. /\ store[chain[p]].key # k => Joined(chain, store, k) = Joined(shorter, store, k)
        /\ store[chain[p]].key = k /\ NoneBefore(chain, store, k, p) =>
              Joined(chain, store, k)
                 = Join(<<store[chain[p]].value>>, Joined(shorter, store, k))
    BY CutNode
  <1>2. QED
    BY <1>1

LEMMA NoNode ==
    ASSUME NEW chain \in Seq(Slots), NEW store, NEW k,
           \A j \in 1..Len(chain) : store[chain[j]].key # k
    PROVE  Joined(chain, store, k) = <<>>
  <1> DEFINE s == Pieces(chain, store, k)
  <1>1. /\ s \in Seq(Seq(Worth(store))) /\ Len(s) = Len(chain)
        /\ \A i \in 1..Len(chain) : s[i] =
              IF store[chain[i]].key = k THEN <<store[chain[i]].value>> ELSE <<>>
    <2>1. s \in Seq(Seq(Worth(store))) /\ Len(s) = Len(chain)
      BY PiecesType
    <2>2. \A i \in 1..Len(chain) : s[i] =
              IF store[chain[i]].key = k THEN <<store[chain[i]].value>> ELSE <<>>
      BY DEF Pieces
    <2> HIDE DEF s
    <2>3. QED
      BY <2>1, <2>2, Zenon
  <1> HIDE DEF s
  <1>2. \A i \in 1..Len(s) : s[i] = <<>>
    BY <1>1, Zenon
  <1>3. SX!FlattenSeq(s) = <<>>
    BY <1>1, <1>2, FlattenEmpty
  <1>4. QED
    BY <1>3 DEF Joined, s

Occurs(x, s) == \E j \in 1..Len(s) : s[j] = x

LEMMA ANode ==
    ASSUME NEW chain \in Seq(Slots), NEW store, NEW k
    PROVE  \A p \in 1..Len(chain) :
              store[chain[p]].key = k => Occurs(store[chain[p]].value, Joined(chain, store, k))
  <1> SUFFICES ASSUME NEW p \in 1..Len(chain), store[chain[p]].key = k
               PROVE  Occurs(store[chain[p]].value, Joined(chain, store, k))
    OBVIOUS
  <1> DEFINE x == store[chain[p]].value
             s == Pieces(chain, store, k)
  <1>1. /\ s \in Seq(Seq(Worth(store))) /\ Len(s) = Len(chain)
        /\ \A i \in 1..Len(chain) : s[i] =
              IF store[chain[i]].key = k THEN <<store[chain[i]].value>> ELSE <<>>
    <2>1. s \in Seq(Seq(Worth(store))) /\ Len(s) = Len(chain)
      BY PiecesType
    <2>2. \A i \in 1..Len(chain) : s[i] =
              IF store[chain[i]].key = k THEN <<store[chain[i]].value>> ELSE <<>>
      BY DEF Pieces
    <2> HIDE DEF s
    <2>3. QED
      BY <2>1, <2>2, Zenon
  <1>2. s[p] = <<x>>
    <2> HIDE DEF s
    <2>1. QED
      BY <1>1
  <1>3. p \in 1..Len(s)
    <2> HIDE DEF s
    <2>1. QED
      BY <1>1
  <1> HIDE DEF s, x
  <1>4. \E j \in 1..Len(SX!FlattenSeq(s)) : SX!FlattenSeq(s)[j] = x
    BY <1>1, <1>2, <1>3, FlattenHas
  <1>5. QED
    BY <1>4 DEF Joined, Occurs, s, x

(* Only the items of the nodes in the chain count.                         *)
LEMMA SameItems ==
    ASSUME NEW chain, NEW old, NEW new, NEW k,
           \A i \in 1..Len(chain) : new[chain[i]] = old[chain[i]]
    PROVE  Joined(chain, new, k) = Joined(chain, old, k)
  BY DEF Joined, Pieces

(* Find stops at the first node with the key.                              *)
LEMMA FindIs ==
    ASSUME IInv, NEW k \in Keys
    PROVE  LET chain == lookuptable[Bucket(k)]
           IN  /\ Bucket(k) \in Buckets /\ chain \in Seq(Slots)
               /\ Find(k) = 0 => \A i \in 1..Len(chain) : nodes[chain[i]].key # k
               /\ Find(k) # 0 =>
                     /\ Find(k) \in 1..Len(chain)
                     /\ nodes[chain[Find(k)]].key = k
                     /\ \A i \in 1..(Find(k) - 1) : nodes[chain[i]].key # k
  <1> DEFINE chain == lookuptable[Bucket(k)]
             I == {i \in 1..Len(chain) : nodes[chain[i]].key = k}
  <1>1. Bucket(k) \in Buckets
    BY FastHashAssumption DEF FastHashAssumption, Bucket, Buckets
  <1>2. chain \in Seq(Slots) /\ Len(chain) \in Nat
    BY <1>1 DEF IInv, ChainTypes
  <1>3. Find(k) = IF I # {} THEN CHOOSE x \in I : \A y \in I : x =< y ELSE 0
    BY DEF Find, SX!SelectInSeq, SX!Min
  <1>4. CASE I = {}
    BY <1>1, <1>2, <1>3, <1>4
  <1>5. CASE I # {}
    <2>1. I \in SUBSET Nat
      OBVIOUS
    <2>2. Find(k) \in I /\ \A y \in I : Find(k) =< y
      BY <1>3, <1>5, <2>1, FirstPlace
    <2>3. Find(k) # 0 /\ Find(k) \in 1..Len(chain) /\ nodes[chain[Find(k)]].key = k
      BY <1>2, <2>2
    <2>4. ASSUME NEW i \in 1..(Find(k) - 1) PROVE nodes[chain[i]].key # k
      <3>1. i \in 1..Len(chain) /\ i < Find(k)
        BY <1>2, <2>3
      <3>2. QED
        BY <2>2, <2>3, <3>1
    <2>5. QED
      BY <1>1, <1>2, <2>3, <2>4
  <1>6. QED
    BY <1>4, <1>5

(* The entries of a multimap, and one more of them.                        *)
Entries(w) == UNION {{k} \X DOMAIN w[k] : k \in Keys}

Counted(w, c) == IsFiniteSet(Entries(w)) /\ Cardinality(Entries(w)) = c

LEMMA OneMore ==
    ASSUME NEW w, NEW u, NEW k \in Keys, NEW l \in Nat,
           DOMAIN w[k] = 1..l, DOMAIN u[k] = 1..(l + 1),
           \A j \in Keys : j # k => DOMAIN u[j] = DOMAIN w[j]
    PROVE  Entries(u) = Entries(w) \cup {<<k, l + 1>>} /\ <<k, l + 1>> \notin Entries(w)
  <1>1. \A e : e \in Entries(w) <=> \E j \in Keys : \E i \in DOMAIN w[j] : e = <<j, i>>
    BY DEF Entries
  <1>2. \A e : e \in Entries(u) <=> \E j \in Keys : \E i \in DOMAIN u[j] : e = <<j, i>>
    BY DEF Entries
  <1>3. \A i : i \in DOMAIN u[k] <=> i \in DOMAIN w[k] \/ i = l + 1
    OBVIOUS
  <1>4. l + 1 \notin DOMAIN w[k]
    OBVIOUS
  <1>5. <<k, l + 1>> \notin Entries(w)
    BY <1>1, <1>4
  <1>6. ASSUME NEW e \in Entries(u) PROVE e \in Entries(w) \cup {<<k, l + 1>>}
    <2>1. PICK j \in Keys : \E i \in DOMAIN u[j] : e = <<j, i>>
      BY <1>2
    <2>2. CASE j = k
      BY <1>1, <1>3, <2>1, <2>2, Zenon
    <2>3. CASE j # k
      BY <1>1, <2>1, <2>3
    <2>4. QED
      BY <2>2, <2>3
  <1>7. ASSUME NEW e \in Entries(w) PROVE e \in Entries(u)
    <2>1. PICK j \in Keys : \E i \in DOMAIN w[j] : e = <<j, i>>
      BY <1>1
    <2>2. CASE j = k
      BY <1>2, <1>3, <2>1, <2>2, Zenon
    <2>3. CASE j # k
      BY <1>2, <2>1, <2>3
    <2>4. QED
      BY <2>2, <2>3
  <1>8. <<k, l + 1>> \in Entries(u)
    BY <1>2, <1>3, Zenon
  <1>9. QED
    BY <1>5, <1>6, <1>7, <1>8

LEMMA CountMore ==
    ASSUME NEW w, NEW u, NEW k \in Keys, NEW l \in Nat,
           DOMAIN w[k] = 1..l, DOMAIN u[k] = 1..(l + 1),
           \A j \in Keys : j # k => DOMAIN u[j] = DOMAIN w[j]
    PROVE  \A c \in Nat : /\ Counted(w, c) => Counted(u, c + 1)
                          /\ Counted(u, c) => Counted(w, c - 1)
  <1>1. Entries(u) = Entries(w) \cup {<<k, l + 1>>} /\ <<k, l + 1>> \notin Entries(w)
    BY OneMore
  <1>2. Entries(w) = Entries(u) \ {<<k, l + 1>>} /\ <<k, l + 1>> \in Entries(u)
    BY <1>1
  <1>3. ASSUME NEW c \in Nat, Counted(w, c) PROVE Counted(u, c + 1)
    <2> DEFINE E == Entries(w)
               e == <<k, l + 1>>
    <2>1. Entries(u) = E \cup {e} /\ e \notin E /\ IsFiniteSet(E) /\ Cardinality(E) = c
      BY <1>1, <1>3 DEF Counted
    <2> HIDE DEF E, e
    <2>2. IsFiniteSet(E \cup {e}) /\ Cardinality(E \cup {e}) = Cardinality(E) + 1
      BY <2>1, FS_AddElement
    <2>3. QED
      BY <2>1, <2>2 DEF Counted
  <1>4. ASSUME NEW c \in Nat, Counted(u, c) PROVE Counted(w, c - 1)
    BY <1>2, <1>4, FS_RemoveElement DEF Counted
  <1>5. QED
    BY <1>3, <1>4

-----------------------------------------------------------------------------
(* What the map of the values is, and what is kept about it.               *)
Vals == [k \in Keys |-> ValuesOf(k)]

Chain(k) == lookuptable[Bucket(k)]

LEMMA ValsType ==
    ASSUME IInv, NEW k \in Keys
    PROVE  /\ Vals[k] = Joined(Chain(k), nodes, k)
           /\ Vals[k] \in Seq(Worth(nodes))
           /\ DOMAIN Vals[k] = 1..Len(Vals[k]) /\ Len(Vals[k]) \in Nat
  <1>1. Vals[k] = Joined(Chain(k), nodes, k)
    BY ValuesAre DEF Vals, Chain
  <1>2. Chain(k) \in Seq(Slots)
    BY FindIs DEF Chain
  <1>3. Joined(Chain(k), nodes, k) \in Seq(Worth(nodes))
    BY <1>2, JoinedType
  <1>4. Vals[k] \in Seq(Worth(nodes))
    BY <1>1, <1>3
  <1>5. DOMAIN Vals[k] = 1..Len(Vals[k]) /\ Len(Vals[k]) \in Nat
    <2> DEFINE s == Vals[k]
    <2>1. s \in Seq(Worth(nodes))
      BY <1>4
    <2> HIDE DEF s
    <2>2. DOMAIN s = 1..Len(s) /\ Len(s) \in Nat
      BY <2>1
    <2>3. QED
      BY <2>2 DEF s
  <1>6. QED
    BY <1>1, <1>4, <1>5

LEMMA NextValuesAre ==
    \A k : ValuesOf(k)' = Joined(lookuptable'[Bucket(k)], nodes', k)
  BY DEF ValuesOf, Joined, Pieces

(* A new first value for one key.                                          *)
LEMMA CountFirst ==
    ASSUME NEW V, NEW w, NEW u, NEW k \in Keys, NEW v, NEW c \in Nat,
           w = [j \in Keys |-> w[j]], u = [j \in Keys |-> u[j]],
           w[k] \in Seq(V), u[k] = <<v>> \o w[k],
           \A j \in Keys : j # k => u[j] = w[j]
    PROVE  /\ u = [w EXCEPT ![k] = <<v>> \o @]
           /\ Counted(w, c) => Counted(u, c + 1)
           /\ w = [u EXCEPT ![k] = Tail(@)]
           /\ u[k] # <<>> /\ Head(u[k]) = v
           /\ Counted(u, c) => Counted(w, c - 1)
  <1> DEFINE s == w[k]
             l == Len(s)
             r == <<v>> \o s
  <1>1. s \in Seq(V)
    OBVIOUS
  <1>2. u[k] = r
    OBVIOUS
  <1>3. s \in Seq(V \cup {v}) /\ <<v>> \in Seq(V \cup {v})
    <2> HIDE DEF s
    <2>1. QED
      BY <1>1
  <1>4. l \in Nat /\ DOMAIN s = 1..l /\ DOMAIN r = 1..(l + 1) /\ r # <<>> /\ Head(r) = v
        /\ Tail(r) = s
    <2> HIDE DEF s
    <2>1. QED
      BY <1>3
  <1>5. u = [w EXCEPT ![k] = r] /\ w = [u EXCEPT ![k] = s]
    OBVIOUS
  <1>6. DOMAIN w[k] = 1..l /\ DOMAIN u[k] = 1..(l + 1) /\ l \in Nat
    BY <1>2, <1>4
  <1>7. \A j \in Keys : j # k => DOMAIN u[j] = DOMAIN w[j]
    OBVIOUS
  <1>8. \A d \in Nat : /\ Counted(w, d) => Counted(u, d + 1)
                       /\ Counted(u, d) => Counted(w, d - 1)
    <2> HIDE DEF l, r, s
    <2>1. QED
      BY <1>6, <1>7, CountMore
  <1>9. QED
    BY <1>2, <1>4, <1>5, <1>8

(* A linked node puts its value first, and only among those of its key.    *)
LEMMA ValsInsert ==
    ASSUME IInv, NEW k \in Keys, NEW v \in Values, Insert(k, v), freelist # <<>>
    PROVE  /\ Vals'[k] = <<v>> \o Vals[k]
           /\ \A j \in Keys : j # k => Vals'[j] = Vals[j]
  <1> PICK n : n = Head(freelist)
    OBVIOUS
  <1> DEFINE old == Chain(k)
             new == <<n>> \o old
  <1>1. IInv' /\ n \in Slots /\ n \notin Live
    BY LinkNode DEF Insert
  <1>2. Bucket(k) \in Buckets /\ old \in Seq(Slots) /\ lookuptable \in [Buckets -> Seq(Slots)]
    BY FindIs DEF Chain, IInv, ChainTypes
  <1>3. /\ lookuptable'[Bucket(k)] = new
        /\ \A b \in Buckets : b # Bucket(k) => lookuptable'[b] = lookuptable[b]
    BY <1>2 DEF Insert, NewNodeFirst, Chain
  <1>4. /\ nodes'[n] = [key |-> k, value |-> v]
        /\ \A x \in Slots : x # n => nodes'[x] = nodes[x]
    BY <1>1 DEF Insert, IInv, ChainTypes
  <1>5. ASSUME NEW b \in Buckets, NEW i \in 1..Len(lookuptable[b])
        PROVE  nodes'[lookuptable[b][i]] = nodes[lookuptable[b][i]]
    <2>1. lookuptable[b][i] \in Slots /\ lookuptable[b][i] \in Live
      BY <1>2 DEF Live
    <2>2. QED
      BY <1>1, <1>4, <2>1
  <1>6. \A j \in Keys : Bucket(j) \in Buckets /\ Vals[j] = Joined(Chain(j), nodes, j)
    BY FindIs, ValsType
  <1>7. \A j \in Keys : Vals'[j] = Joined(lookuptable'[Bucket(j)], nodes', j)
    BY NextValuesAre DEF Vals
  <1>8. \A j \in Keys : Joined(Chain(j), nodes', j) = Vals[j]
    <2> SUFFICES ASSUME NEW j \in Keys PROVE Joined(Chain(j), nodes', j) = Vals[j]
      OBVIOUS
    <2>1. \A i \in 1..Len(Chain(j)) : nodes'[Chain(j)[i]] = nodes[Chain(j)[i]]
      BY <1>5, <1>6 DEF Chain
    <2>2. QED
      BY <1>6, <2>1, SameItems
  <1>9. /\ new \in Seq(Slots) /\ 1 \in 1..Len(new) /\ new[1] = n /\ Len(old) = Len(new) - 1
        /\ \A i \in 1..Len(old) : old[i] = IF i < 1 THEN new[i] ELSE new[i + 1]
        /\ 1..(1 - 1) = {}
    <2> HIDE DEF old
    <2>1. Len(old) \in Nat
      BY <1>2
    <2>2. QED
      BY <1>1, <1>2, <2>1, PutFirst
  <1> HIDE DEF old, new
  <1>10. \A j \in Keys :
            /\ j # k => Joined(new, nodes', j) = Joined(old, nodes', j)
            /\ j = k => Joined(new, nodes', j) = Join(<<v>>, Joined(old, nodes', j))
    <2> SUFFICES ASSUME NEW j \in Keys
                 PROVE  /\ j # k => Joined(new, nodes', j) = Joined(old, nodes', j)
                        /\ j = k => Joined(new, nodes', j) = Join(<<v>>, Joined(old, nodes', j))
      OBVIOUS
    <2>1. nodes'[new[1]].key = k /\ nodes'[new[1]].value = v
      BY <1>4, <1>9
    <2>2. IsCut(new, old, 1) /\ NoneBefore(new, nodes', j, 1)
      BY <1>2, <1>9 DEF IsCut, NoneBefore
    <2>3. ASSUME j # k PROVE Joined(new, nodes', j) = Joined(old, nodes', j)
      <3>1. nodes'[new[1]].key # j
        BY <2>1, <2>3
      <3>2. \A i : i # nodes'[new[1]].key => Joined(new, nodes', i) = Joined(old, nodes', i)
        BY <2>2, CutOther
      <3>3. QED
        BY <3>1, <3>2
    <2>4. ASSUME j = k PROVE Joined(new, nodes', j) = Join(<<v>>, Joined(old, nodes', j))
      BY <2>1, <2>2, <2>4, CutNode
    <2>5. QED
      BY <2>3, <2>4
  <1>11. Vals'[k] = <<v>> \o Vals[k]
    BY <1>3, <1>7, <1>8, <1>10 DEF old, Join
  <1>12. ASSUME NEW j \in Keys, j # k PROVE Vals'[j] = Vals[j]
    <2>1. CASE Bucket(j) = Bucket(k)
      <3>1. Chain(j) = old
        BY <2>1 DEF old, Chain
      <3>2. QED
        BY <1>3, <1>7, <1>8, <1>10, <1>12, <2>1, <3>1
    <2>2. CASE Bucket(j) # Bucket(k)
      <3>1. lookuptable'[Bucket(j)] = Chain(j)
        BY <1>3, <1>6, <2>2 DEF Chain
      <3>2. QED
        BY <1>7, <1>8, <3>1
    <2>3. QED
      BY <2>1, <2>2
  <1>13. QED
    BY <1>11, <1>12

(* An unlinked node had the first value of its key.                        *)
LEMMA ValsRemove ==
    ASSUME IInv, NEW k \in Keys, Remove(k), Find(k) # 0
    PROVE  /\ Vals[k] = <<nodes[Chain(k)[Find(k)]].value>> \o Vals'[k]
           /\ \A j \in Keys : j # k => Vals'[j] = Vals[j]
  <1> PICK p : p = Find(k)
    OBVIOUS
  <1> DEFINE old == Chain(k)
             new == Unlink(old, p)
             v == nodes[old[p]].value
  <1>1. /\ Bucket(k) \in Buckets /\ old \in Seq(Slots) /\ p \in 1..Len(old)
        /\ nodes[old[p]].key = k /\ \A i \in 1..(p - 1) : nodes[old[i]].key # k
    BY FindIs DEF Chain
  <1>2. /\ lookuptable'[Bucket(k)] = new /\ nodes' = nodes
        /\ \A b \in Buckets : b # Bucket(k) => lookuptable'[b] = lookuptable[b]
    BY <1>1 DEF Remove, Chain, IInv, ChainTypes
  <1>3. \A j \in Keys : Bucket(j) \in Buckets /\ Vals[j] = Joined(Chain(j), nodes, j)
    BY FindIs, ValsType
  <1>4. \A j \in Keys : Vals'[j] = Joined(lookuptable'[Bucket(j)], nodes, j)
    BY <1>2, NextValuesAre DEF Vals
  <1> HIDE DEF old
  <1>5. /\ new \in Seq(Slots) /\ Len(new) = Len(old) - 1
        /\ \A i \in 1..Len(new) : new[i] = IF i < p THEN old[i] ELSE old[i + 1]
    BY <1>1, Unlinked
  <1> HIDE DEF new
  <1>6. \A j \in Keys :
            /\ j # k => Joined(old, nodes, j) = Joined(new, nodes, j)
            /\ j = k => Joined(old, nodes, j) = Join(<<v>>, Joined(new, nodes, j))
    <2> SUFFICES ASSUME NEW j \in Keys
                 PROVE  /\ j # k => Joined(old, nodes, j) = Joined(new, nodes, j)
                        /\ j = k => Joined(old, nodes, j) = Join(<<v>>, Joined(new, nodes, j))
      OBVIOUS
    <2>1. IsCut(old, new, p) /\ NoneBefore(old, nodes, k, p)
      BY <1>1, <1>5 DEF IsCut, NoneBefore
    <2>2. ASSUME j # k PROVE Joined(old, nodes, j) = Joined(new, nodes, j)
      <3>1. nodes[old[p]].key # j
        BY <1>1, <2>2
      <3>2. \A i : i # nodes[old[p]].key => Joined(old, nodes, i) = Joined(new, nodes, i)
        BY <2>1, CutOther
      <3>3. QED
        BY <3>1, <3>2
    <2>3. ASSUME j = k PROVE Joined(old, nodes, j) = Join(<<v>>, Joined(new, nodes, j))
      BY <1>1, <2>1, <2>3, CutNode
    <2>4. QED
      BY <2>2, <2>3
  <1>7. Vals[k] = <<v>> \o Vals'[k]
    BY <1>2, <1>3, <1>4, <1>6 DEF old, Join
  <1>8. ASSUME NEW j \in Keys, j # k PROVE Vals'[j] = Vals[j]
    <2>1. CASE Bucket(j) = Bucket(k)
      <3>1. Chain(j) = old
        BY <2>1 DEF old, Chain
      <3>2. QED
        BY <1>2, <1>3, <1>4, <1>6, <1>8, <2>1, <3>1
    <2>2. CASE Bucket(j) # Bucket(k)
      <3>1. lookuptable'[Bucket(j)] = Chain(j)
        BY <1>2, <1>3, <2>2 DEF Chain
      <3>2. QED
        BY <1>3, <1>4, <3>1
    <2>3. QED
      BY <2>1, <2>2
  <1>9. QED
    BY <1>7, <1>8 DEF old

(* What Find meets first is the first value of the key.                    *)
LEMMA FoundFirst ==
    ASSUME IInv, NEW k \in Keys
    PROVE  /\ Find(k) = 0 => Vals[k] = <<>>
           /\ Find(k) # 0 => /\ Vals[k] # <<>>
                             /\ Head(Vals[k]) = nodes[Chain(k)[Find(k)]].value
  <1>1. Chain(k) \in Seq(Slots) /\ Vals[k] = Joined(Chain(k), nodes, k)
    BY FindIs, ValsType DEF Chain
  <1>2. ASSUME Find(k) = 0 PROVE Vals[k] = <<>>
    <2>1. \A i \in 1..Len(Chain(k)) : nodes[Chain(k)[i]].key # k
      BY <1>2, FindIs DEF Chain
    <2>2. QED
      BY <1>1, <2>1, NoNode
  <1>3. ASSUME Find(k) # 0
        PROVE  Vals[k] # <<>> /\ Head(Vals[k]) = nodes[Chain(k)[Find(k)]].value
    <2> PICK p, old, new : p = Find(k) /\ old = Chain(k) /\ new = Unlink(old, p)
      OBVIOUS
    <2> DEFINE x == nodes[old[p]].value
               r == Joined(new, nodes, k)
    <2>1. /\ p \in 1..Len(old) /\ nodes[old[p]].key = k
          /\ \A i \in 1..(p - 1) : nodes[old[i]].key # k
      BY <1>3, FindIs DEF Chain
    <2>2. /\ new \in Seq(Slots) /\ Len(new) = Len(old) - 1
          /\ \A i \in 1..Len(new) : new[i] = IF i < p THEN old[i] ELSE old[i + 1]
      BY <1>1, <2>1, Unlinked
    <2>3. IsCut(old, new, p) /\ NoneBefore(old, nodes, k, p)
      BY <1>1, <2>1, <2>2 DEF IsCut, NoneBefore
    <2>4. Vals[k] = Join(<<x>>, r)
      BY <1>1, <2>1, <2>3, CutNode
    <2>5. r \in Seq(Worth(nodes))
      BY <2>2, JoinedType
    <2> HIDE DEF x, r
    <2>6. /\ <<x>> \o r # <<>> /\ Head(<<x>> \o r) = x
      <3>1. r \in Seq(Worth(nodes) \cup {x}) /\ <<x>> \in Seq(Worth(nodes) \cup {x})
        BY <2>5
      <3>2. QED
        BY <3>1
    <2>7. QED
      BY <2>4, <2>6 DEF Join, x
  <1>4. QED
    BY <1>2, <1>3

LEMMA ValsSame == UNCHANGED chains => Vals' = Vals
  BY DEF chains, Vals, ValuesOf

LEMMA AbsCount == Counted(Vals, size) => Abs!Count = size
  <1>1. \A S : Abs!Cardinality(S) = Cardinality(S)
    BY DEF Abs!Cardinality, Cardinality
  <1>2. Abs!Count = Cardinality(Entries(Vals))
    BY <1>1 DEF Entries, Abs!Count, Vals
  <1>3. QED
    BY <1>2 DEF Counted

LEMMA CountSame == Counted(Vals, size) /\ UNCHANGED chains => Counted(Vals, size)'
  BY ValsSame DEF Counted, Entries, chains

LEMMA NothingFree == IInv /\ freelist = <<>> => size = FSize
  <1> SUFFICES ASSUME IInv, freelist = <<>> PROVE size = FSize
    OBVIOUS
  <1>1. FSize \in Nat \ {0} /\ 0 \in Int /\ FSize - 1 \in Int /\ ~(0 > FSize - 1)
    BY FastHashAssumption DEF FastHashAssumption
  <1>2. IsFiniteSet(Slots) /\ Cardinality(Slots) = (FSize - 1) - 0 + 1
    BY <1>1, FS_Interval DEF Slots
  <1>3. ASSUME NEW n \in Slots PROVE n \in Live
    <2>1. ~IsFree(n)
      BY DEF IsFree
    <2>2. QED
      BY <2>1, LiveFinite DEF IInv, Covered
  <1>4. Live = Slots
    BY <1>3, LiveFinite DEF IInv
  <1>5. QED
    BY <1>1, <1>2, <1>4 DEF IInv

LEMMA MapInsert ==
    ASSUME IInv, Counted(Vals, size), NEW k \in Keys, NEW v \in Values, Insert(k, v)
    PROVE  Counted(Vals, size)' /\ Abs!MInsert(k, v)
  <1>1. CASE freelist = <<>>
    <2>1. UNCHANGED chains /\ ret' = <<"failed">>
      BY <1>1 DEF Insert
    <2>2. Abs!Count = FSize
      BY <1>1, NothingFree, AbsCount
    <2>3. Vals' = Vals
      BY <2>1, ValsSame
    <2>4. QED
      BY <2>1, <2>2, <2>3, CountSame DEF Abs!MInsert, Vals
  <1>2. CASE freelist # <<>>
    <2>1. size' = size + 1 /\ ret' = <<"ok">> /\ IInv'
      BY <1>2, LinkNode DEF Insert
    <2>2. size \in Nat /\ size < FSize
      <3>1. FSize \in Nat
        BY FastHashAssumption DEF FastHashAssumption
      <3>2. QED
        BY <2>1, <3>1, SizeBound, NextSizeBound
    <2>3. /\ Vals'[k] = <<v>> \o Vals[k]
          /\ \A j \in Keys : j # k => Vals'[j] = Vals[j]
      BY <1>2, ValsInsert
    <2>4. Vals[k] \in Seq(Worth(nodes))
      BY ValsType
    <2>5. Vals = [j \in Keys |-> Vals[j]] /\ Vals' = [j \in Keys |-> Vals'[j]]
      BY DEF Vals
    <2>6. /\ Vals' = [Vals EXCEPT ![k] = <<v>> \o @]
          /\ Counted(Vals, size) => Counted(Vals', size + 1)
      BY <2>2, <2>3, <2>4, <2>5, CountFirst, SMTT(30)
    <2>7. Counted(Vals, size)'
      BY <2>1, <2>6 DEF Counted, Entries
    <2>8. Abs!Count < FSize
      BY <2>2, AbsCount
    <2>9. QED
      BY <2>1, <2>6, <2>7, <2>8 DEF Abs!MInsert, Vals
  <1>3. QED
    BY <1>1, <1>2

LEMMA MapRemove ==
    ASSUME IInv, Counted(Vals, size), NEW k \in Keys, Remove(k)
    PROVE  Counted(Vals, size)' /\ Abs!MRemove(k)
  <1>1. CASE Find(k) = 0
    <2>1. UNCHANGED chains /\ ret' = <<"failed">>
      BY <1>1 DEF Remove
    <2>2. Vals' = Vals /\ Vals[k] = <<>>
      BY <1>1, <2>1, ValsSame, FoundFirst
    <2>3. QED
      BY <2>1, <2>2, CountSame DEF Abs!MRemove, Vals
  <1>2. CASE Find(k) # 0
    <2> PICK v : v = nodes[Chain(k)[Find(k)]].value
      OBVIOUS
    <2>1. size' = size - 1 /\ ret' = <<"ok">> /\ IInv'
      BY <1>2, UnlinkNode DEF Remove
    <2>2. size \in Nat
      <3>1. FSize \in Nat
        BY FastHashAssumption DEF FastHashAssumption
      <3>2. QED
        BY <3>1, SizeBound
    <2>3. /\ Vals[k] = <<v>> \o Vals'[k]
          /\ \A j \in Keys : j # k => Vals[j] = Vals'[j]
      BY <1>2, ValsRemove
    <2>4. Vals'[k] \in Seq(Worth(nodes'))
      <3>1. Vals'[k] = Joined(lookuptable'[Bucket(k)], nodes', k)
        BY NextValuesAre DEF Vals
      <3>2. lookuptable'[Bucket(k)] \in Seq(Slots)
        BY <2>1, FindIs DEF IInv, ChainTypes
      <3>3. QED
        BY <3>1, <3>2, JoinedType
    <2>5. Vals = [j \in Keys |-> Vals[j]] /\ Vals' = [j \in Keys |-> Vals'[j]]
      BY DEF Vals
    <2>6. /\ Vals' = [Vals EXCEPT ![k] = Tail(@)] /\ Vals[k] # <<>>
          /\ Counted(Vals, size) => Counted(Vals', size - 1)
      BY <2>2, <2>3, <2>4, <2>5, CountFirst, SMTT(30)
    <2>7. Counted(Vals, size)'
      BY <2>1, <2>6 DEF Counted, Entries
    <2>8. QED
      BY <2>1, <2>6, <2>7 DEF Abs!MRemove, Vals
  <1>3. QED
    BY <1>1, <1>2

LEMMA MapLookup ==
    ASSUME IInv, Counted(Vals, size), NEW k \in Keys, Lookup(k)
    PROVE  Counted(Vals, size)' /\ Abs!MLookup(k)
  <1>1. UNCHANGED chains
    BY DEF Lookup
  <1>2. Vals' = Vals /\ Counted(Vals, size)'
    BY <1>1, ValsSame, CountSame
  <1>3. ret' = IF Vals[k] = <<>> THEN <<"null">> ELSE <<"value", Head(Vals[k])>>
    BY FoundFirst DEF Lookup, Chain
  <1>4. QED
    BY <1>2, <1>3 DEF Abs!MLookup, Vals

LEMMA MapIndex ==
    ASSUME IInv, IndexInv, Counted(Vals, size), NEW i \in 0..FSize, LookupByIndex(i)
    PROVE  Counted(Vals, size)' /\ Abs!MLookupByIndex(i)
  <1>1. UNCHANGED chains
    BY DEF LookupByIndex
  <1>2. Vals' = Vals /\ Counted(Vals, size)' /\ Abs!Count = size
    BY <1>1, ValsSame, CountSame, AbsCount
  <1>3. size \in Nat /\ i \in Nat
    <2>1. FSize \in Nat
      BY FastHashAssumption DEF FastHashAssumption
    <2>2. QED
      BY <2>1, SizeBound
  <1>4. CASE i >= size
    <2>1. ret' = <<"null">>
      BY <1>3, <1>4 DEF LookupByIndex
    <2>2. QED
      BY <1>2, <1>4, <2>1 DEF Abs!MLookupByIndex, Vals
  <1>5. CASE i < size
    <2> PICK n : n = NodeAtIndex(i)
      OBVIOUS
    <2>1. ret' = <<"item", nodes[n].key, nodes[n].value>>
      BY <1>3, <1>5 DEF LookupByIndex
    <2>2. n \in Live
      <3>1. i \in 0..(size - 1)
        BY <1>3, <1>5
      <3>2. {NodeAtIndex(j) : j \in 0..(size - 1)} = Live
        BY IndexIsExact DEF EnumerationIsExact
      <3>3. n \in {NodeAtIndex(j) : j \in 0..(size - 1)}
        BY <3>1
      <3>4. QED
        BY <3>2, <3>3, Zenon
    <2>3. PICK b \in Buckets : \E p \in 1..Len(lookuptable[b]) : lookuptable[b][p] = n
      BY <2>2 DEF Live
    <2>4. nodes[n].key \in Keys /\ Bucket(nodes[n].key) = b
      BY <2>3 DEF IInv, Keyed
    <2> PICK k : k = nodes[n].key
      OBVIOUS
    <2>5. Chain(k) = lookuptable[b] /\ Chain(k) \in Seq(Slots) /\ k \in Keys
      BY <2>4 DEF Chain, IInv, ChainTypes
    <2>6. Vals[k] = Joined(Chain(k), nodes, k)
      BY <2>5, ValsType
    <2>7. \E j \in 1..Len(Vals[k]) : Vals[k][j] = nodes[n].value
      <3> PICK chain \in Seq(Slots) : chain = Chain(k)
        BY <2>5
      <3>1. PICK p \in 1..Len(chain) : chain[p] = n
        BY <2>3, <2>5
      <3>2. \A q \in 1..Len(chain) :
               nodes[chain[q]].key = k => Occurs(nodes[chain[q]].value, Joined(chain, nodes, k))
        BY ANode
      <3>3. Occurs(nodes[n].value, Vals[k])
        BY <2>6, <3>1, <3>2
      <3>4. QED
        BY <3>3 DEF Occurs
    <2>8. ret' \in Abs!Stored
      <3>1. \E j \in 1..Len(Vals[k]) : ret' = <<"item", k, Vals[k][j]>>
        BY <2>1, <2>7
      <3>2. QED
        BY <2>5, <3>1 DEF Abs!Stored, Vals
    <2>9. QED
      BY <1>2, <1>5, <2>8 DEF Abs!MLookupByIndex, Vals
  <1>6. QED
    BY <1>3, <1>4, <1>5

LEMMA NoEntries ==
    ASSUME NEW w, w = [k \in Keys |-> <<>>]
    PROVE  Counted(w, 0)
  <1>1. Entries(w) = {}
    BY DEF Entries
  <1>2. QED
    BY <1>1, FS_EmptySet DEF Counted

LEMMA EmptyVals ==
    ASSUME NEW table, NEW store, table = [b \in Buckets |-> <<>>]
    PROVE  \A k \in Keys : Joined(table[Bucket(k)], store, k) = <<>>
  <1> SUFFICES ASSUME NEW k \in Keys PROVE Joined(table[Bucket(k)], store, k) = <<>>
    OBVIOUS
  <1>1. Bucket(k) \in Buckets
    BY FastHashAssumption DEF FastHashAssumption, Bucket, Buckets
  <1>2. table[Bucket(k)] = <<>> /\ <<>> \in Seq(Slots) /\ 1..Len(<<>>) = {}
    BY <1>1
  <1>3. QED
    BY <1>2, NoNode

LEMMA MapReset ==
    ASSUME Reset
    PROVE  Counted(Vals, size)' /\ Abs!MReset
  <1>1. \A k \in Keys : Joined(lookuptable'[Bucket(k)], nodes', k) = <<>>
    BY EmptyVals DEF Reset, ResetLists
  <1>2. Vals' = [k \in Keys |-> <<>>]
    BY <1>1, NextValuesAre DEF Vals
  <1>3. Counted(Vals', 0)
    BY <1>2, NoEntries
  <1>4. Counted(Vals, size)'
    BY <1>3 DEF Counted, Entries, Reset, ResetLists
  <1>5. QED
    BY <1>2, <1>4 DEF Abs!MReset, Vals, Reset

LEMMA MapInit == Init => Counted(Vals, size) /\ Abs!MInit
  <1> SUFFICES ASSUME Init PROVE Counted(Vals, size) /\ Abs!MInit
    OBVIOUS
  <1>1. \A k \in Keys : Joined(lookuptable[Bucket(k)], nodes, k) = <<>>
    BY EmptyVals DEF Init
  <1>2. Vals = [k \in Keys |-> <<>>]
    BY <1>1, ValuesAre DEF Vals
  <1>3. Counted(Vals, 0)
    BY <1>2, NoEntries
  <1>4. QED
    BY <1>2, <1>3 DEF Abs!MInit, Vals, Init

LEMMA MapStep ==
    IInv /\ IndexInv /\ Counted(Vals, size) /\ [Next]_vars
    => Counted(Vals, size)' /\ (Abs!MNext \/ UNCHANGED <<Vals, ret>>)
  <1> SUFFICES ASSUME IInv, IndexInv, Counted(Vals, size), [Next]_vars
               PROVE  Counted(Vals, size)' /\ (Abs!MNext \/ UNCHANGED <<Vals, ret>>)
    OBVIOUS
  <1>1. CASE UNCHANGED vars
    BY <1>1, ValsSame, CountSame DEF vars
  <1>2. ASSUME NEW k \in Keys, NEW v \in Values, Insert(k, v)
        PROVE  Counted(Vals, size)' /\ Abs!MNext
    BY <1>2, MapInsert DEF Abs!MNext
  <1>3. ASSUME NEW k \in Keys, Remove(k) PROVE Counted(Vals, size)' /\ Abs!MNext
    BY <1>3, MapRemove DEF Abs!MNext
  <1>4. ASSUME NEW k \in Keys, Lookup(k) PROVE Counted(Vals, size)' /\ Abs!MNext
    BY <1>4, MapLookup DEF Abs!MNext
  <1>5. ASSUME NEW i \in 0..FSize, LookupByIndex(i) PROVE Counted(Vals, size)' /\ Abs!MNext
    BY <1>5, MapIndex DEF Abs!MNext
  <1>6. CASE Reset
    BY <1>6, MapReset DEF Abs!MNext
  <1>7. QED
    BY <1>1, <1>2, <1>3, <1>4, <1>5, <1>6 DEF Next

(* For any capacity, number of chains and hash, whatever Insert, Remove,   *)
(* Lookup, LookupByIndex and Reset of FastHashBase return, and whatever    *)
(* they leave stored, is what a bounded multimap would: Insert fails only  *)
(* when the table is full, Remove and Lookup concern the newest entry of   *)
(* the key, and a position below Size() yields a stored entry.             *)
THEOREM MultimapTheorem == Spec => ImplementsMultimap
  <1>1. Init => Counted(Vals, size) /\ Abs!MInit
    BY MapInit
  <1>2. IInv /\ IndexInv /\ Counted(Vals, size) /\ [Next]_vars
        => Counted(Vals, size)' /\ (Abs!MNext \/ UNCHANGED <<Vals, ret>>)
    BY MapStep
  <1>3. (Abs!MNext \/ UNCHANGED <<Vals, ret>>)
        => [Abs!MNext]_<<[k \in Keys |-> ValuesOf(k)], ret>>
    BY DEF Vals
  <1>4. Spec => []IInv
    BY Invariant
  <1>5. Init => IInv /\ IndexInv
    BY InitInvariant, IndexInit
  <1>6. IInv /\ IndexInv /\ [Next]_vars => IndexInv'
    BY IndexStep
  <1>7. QED
    BY <1>1, <1>2, <1>3, <1>4, <1>5, <1>6, PTL DEF Spec, ImplementsMultimap, Abs!MSpec
=============================================================================
