--------------------------- MODULE PollingProofs ---------------------------
(***************************************************************************)
(* Proofs about the two implementations of IPolling for any number of      *)
(* descriptors, any flags and any legal sequence of calls.  First CPoll:   *)
(* its hash table finds exactly the entries of its vector, and its count   *)
(* of unread events is never too small.  The invariant adds to the two     *)
(* that a closed object has no entries, which is what Initialize relies    *)
(* on: it clears the table and leaves the vector alone.                    *)
(*                                                                         *)
(* Then both of them: each is shown to implement the contract of the       *)
(* interface by itself, by what its own state says of a descriptor; an     *)
(* object of either type then does.                                        *)
(***************************************************************************)
EXTENDS Polling, FiniteSetTheorems, TLAPS

Entries == [fd : Fds, events : SUBSET Flags, revents : SUBSET Flags]

CPollTypes ==
    /\ fds \in Seq(Entries)
    /\ hashtable \in [Fds -> Nat]
    /\ unreadcount \in Nat

ClosedIsEmpty == ~fInitialized => fds = <<>>

IInv ==
    /\ CPollTypes
    /\ ClosedIsEmpty
    /\ SlotsIndexed
    /\ UnreadCounted

-----------------------------------------------------------------------------

LEMMA UnreadFinite ==
    ASSUME NEW list \in Seq(Entries)
    PROVE  /\ IsFiniteSet(UnreadSlots(list))
           /\ Cardinality(UnreadSlots(list)) \in Nat
  <1>1. IsFiniteSet(1..Len(list))
    BY FS_Interval
  <1>2. UnreadSlots(list) \subseteq 1..Len(list)
    BY DEF UnreadSlots
  <1>3. QED
    BY <1>1, <1>2, FS_Subset, FS_CardinalityType

LEMMA NothingUnread == Cardinality(UnreadSlots(<<>>)) = 0
  BY FS_EmptySet DEF UnreadSlots

LEMMA InitInvariant == Init => IInv
  <1> SUFFICES ASSUME Init PROVE IInv
    OBVIOUS
  <1>1. fds = <<>> /\ ~fInitialized /\ unreadcount = 0 /\ hashtable = Empty
    BY DEF Init, PollInit
  <1>2. CPollTypes /\ ClosedIsEmpty /\ SlotsIndexed
    BY <1>1 DEF CPollTypes, ClosedIsEmpty, SlotsIndexed, Empty, NoSlot
  <1>3. UnreadCounted
    BY <1>1, NothingUnread DEF UnreadCounted
  <1>4. QED
    BY <1>2, <1>3 DEF IInv

(* What a call that leaves CPoll alone preserves.                          *)
LEMMA StepUnchanged == IInv /\ UNCHANGED pvars => IInv'
  BY DEF IInv, CPollTypes, ClosedIsEmpty, SlotsIndexed, UnreadCounted, UnreadSlots, pvars

LEMMA StepInitialize ==
    ASSUME IInv, ~fInitialized, PollInitialize
    PROVE  IInv'
  <1>1. fds' = <<>> /\ fInitialized' /\ unreadcount' = 0 /\ hashtable' = Empty
    BY DEF PollInitialize, IInv, ClosedIsEmpty
  <1>2. CPollTypes' /\ ClosedIsEmpty' /\ SlotsIndexed'
    BY <1>1 DEF CPollTypes, ClosedIsEmpty, SlotsIndexed, Empty, NoSlot
  <1>3. UnreadCounted'
    BY <1>1, NothingUnread DEF UnreadCounted
  <1>4. QED
    BY <1>2, <1>3 DEF IInv

LEMMA StepClose ==
    ASSUME IInv, PollClose
    PROVE  IInv'
  <1>1. fds' = <<>> /\ ~fInitialized' /\ UNCHANGED <<hashtable, unreadcount>>
    BY DEF PollClose
  <1>2. CPollTypes' /\ ClosedIsEmpty' /\ SlotsIndexed'
    BY <1>1 DEF IInv, CPollTypes, ClosedIsEmpty, SlotsIndexed
  <1>3. UnreadCounted'
    BY <1>1, NothingUnread DEF UnreadCounted, IInv, CPollTypes
  <1>4. QED
    BY <1>2, <1>3 DEF IInv

LEMMA StepAdd ==
    ASSUME IInv, NEW f \in Fds, NEW set \in Interests, PollAdd(f, set)
    PROVE  IInv'
  <1>1. CASE UNCHANGED pvars
    BY <1>1, StepUnchanged
  <1>2. CASE /\ fInitialized /\ hashtable[f] = NoSlot
             /\ fds' = Append(fds, Entry(f, set))
             /\ hashtable' = [hashtable EXCEPT ![f] = Len(fds) + 1]
             /\ UNCHANGED <<rotation, unreadcount, fInitialized>>
    <2>1. Entry(f, set) \in Entries /\ Entry(f, set).fd = f /\ Entry(f, set).revents = {}
      BY PollAssumption DEF Entry, Entries, PollAssumption
    <2>2. fds \in Seq(Entries) /\ hashtable \in [Fds -> Nat]
      BY DEF IInv, CPollTypes
    <2>3. /\ fds' \in Seq(Entries) /\ Len(fds') = Len(fds) + 1
          /\ \A s \in DOMAIN fds : fds'[s] = fds[s]
          /\ fds'[Len(fds) + 1] = Entry(f, set)
          /\ DOMAIN fds' = DOMAIN fds \cup {Len(fds) + 1}
          /\ Len(fds) + 1 \notin DOMAIN fds
      BY <1>2, <2>1, <2>2
    <2>4. CPollTypes' /\ ClosedIsEmpty'
      BY <1>2, <2>2, <2>3 DEF IInv, CPollTypes, ClosedIsEmpty
    <2>5. SlotsIndexed'
      <3>1. \A s \in DOMAIN fds : fds[s].fd # f /\ fds[s].fd \in Fds
        <4>1. ASSUME NEW s \in DOMAIN fds PROVE fds[s].fd \in Fds /\ s # 0
          <5>1. fds[s] \in Entries /\ s # 0
            BY <2>2
          <5>2. QED
            BY <5>1 DEF Entries
        <4>2. \A s \in DOMAIN fds : hashtable[fds[s].fd] = s
          BY <1>2 DEF IInv, SlotsIndexed
        <4>3. QED
          BY <1>2, <4>1, <4>2 DEF NoSlot
      <3>2. \A g \in Fds : g # f => hashtable'[g] = hashtable[g]
        BY <1>2, <2>2
      <3>3. hashtable'[f] = Len(fds) + 1
        BY <1>2, <2>2
      <3>4. ASSUME NEW g \in Fds, hashtable'[g] # NoSlot
            PROVE  hashtable'[g] \in DOMAIN fds' /\ fds'[hashtable'[g]].fd = g
        <4>1. CASE g = f
          BY <2>1, <2>3, <3>3, <4>1
        <4>2. CASE g # f
          BY <1>2, <2>3, <3>2, <3>4, <4>2 DEF IInv, SlotsIndexed
        <4>3. QED
          BY <4>1, <4>2
      <3>5. ASSUME NEW s \in DOMAIN fds' PROVE hashtable'[fds'[s].fd] = s
        <4>1. CASE s = Len(fds) + 1
          BY <2>1, <2>3, <3>3, <4>1
        <4>2. CASE s \in DOMAIN fds
          BY <1>2, <2>3, <3>1, <3>2, <4>2 DEF IInv, SlotsIndexed
        <4>3. QED
          BY <2>3, <4>1, <4>2
      <3>6. QED
        BY <3>4, <3>5 DEF SlotsIndexed
    <2>6. UnreadCounted'
      <3>1. UnreadSlots(fds') = UnreadSlots(fds)
        BY <2>1, <2>3 DEF UnreadSlots
      <3>2. QED
        BY <1>2, <3>1 DEF IInv, UnreadCounted
    <2>7. QED
      BY <2>4, <2>5, <2>6 DEF IInv
  <1>3. QED
    BY <1>1, <1>2 DEF PollAdd, PollRefuse

(* Remove fills the gap at slot i with the entry of the last slot, n.      *)
LEMMA GapFilled ==
    ASSUME IInv, NEW f \in Fds, Found(f),
           fds' = SubSeq([fds EXCEPT ![hashtable[f]] = fds[Len(fds)]], 1, Len(fds) - 1),
           hashtable' = IndexWithout(f)
    PROVE  LET i == hashtable[f]
               n == Len(fds)
           IN  /\ n \in Nat \ {0} /\ i \in 1..n /\ fds[i].fd = f
               /\ \A s \in 1..n : fds[s] \in Entries /\ hashtable[fds[s].fd] = s
               /\ fds' \in Seq(Entries) /\ Len(fds') = n - 1
               /\ \A s \in 1..(n - 1) : fds'[s] = IF s = i THEN fds[n] ELSE fds[s]
               /\ hashtable' \in [Fds -> Nat]
               /\ hashtable'[f] = 0
               /\ \A g \in Fds : g # f =>
                     hashtable'[g] = IF g = fds[n].fd THEN i ELSE hashtable[g]
  <1> DEFINE i == hashtable[f]
             n == Len(fds)
             filled == [fds EXCEPT ![i] = fds[n]]
  <1>1. fds \in Seq(Entries) /\ hashtable \in [Fds -> Nat]
    BY DEF IInv, CPollTypes
  <1>2. n \in Nat \ {0} /\ i \in 1..n /\ fds[i].fd = f
    BY <1>1 DEF Found
  <1>3. \A s \in 1..n : fds[s] \in Entries /\ hashtable[fds[s].fd] = s
    BY <1>1 DEF IInv, SlotsIndexed, Found
  <1>4. /\ filled \in Seq(Entries) /\ Len(filled) = n
        /\ \A s \in 1..n : filled[s] = IF s = i THEN fds[n] ELSE fds[s]
    BY <1>1, <1>2, <1>3
  <1>5. fds' = SubSeq(filled, 1, n - 1)
    OBVIOUS
  <1> HIDE DEF filled
  <1>6. /\ fds' \in Seq(Entries) /\ Len(fds') = n - 1
        /\ \A s \in 1..(n - 1) : fds'[s] = filled[s]
    BY <1>2, <1>4, <1>5
  <1>7. fds[n].fd \in Fds
    BY <1>2, <1>3 DEF Entries
  <1>8. /\ hashtable' \in [Fds -> Nat]
        /\ hashtable'[f] = 0
        /\ \A g \in Fds : g # f =>
              hashtable'[g] = IF g = fds[n].fd THEN i ELSE hashtable[g]
    BY <1>1, <1>2, <1>7 DEF IndexWithout, NoSlot
  <1>9. \A s \in 1..(n - 1) : fds'[s] = IF s = i THEN fds[n] ELSE fds[s]
    BY <1>2, <1>4, <1>6
  <1>10. QED
    BY <1>2, <1>3, <1>6, <1>8, <1>9

LEMMA StepRemove ==
    ASSUME IInv, NEW f \in Fds, PollRemove(f)
    PROVE  IInv'
  <1>1. CASE UNCHANGED pvars
    BY <1>1, StepUnchanged
  <1>2. CASE /\ Found(f)
             /\ fds' = SubSeq([fds EXCEPT ![hashtable[f]] = fds[Len(fds)]], 1, Len(fds) - 1)
             /\ hashtable' = IndexWithout(f)
             /\ UNCHANGED <<rotation, unreadcount, fInitialized>>
    <2> DEFINE i == hashtable[f]
               n == Len(fds)
    <2>1. /\ n \in Nat \ {0} /\ i \in 1..n /\ fds[i].fd = f
          /\ \A s \in 1..n : fds[s] \in Entries /\ hashtable[fds[s].fd] = s
          /\ fds' \in Seq(Entries) /\ Len(fds') = n - 1
          /\ \A s \in 1..(n - 1) : fds'[s] = IF s = i THEN fds[n] ELSE fds[s]
          /\ hashtable' \in [Fds -> Nat]
          /\ hashtable'[f] = 0
          /\ \A g \in Fds : g # f =>
                hashtable'[g] = IF g = fds[n].fd THEN i ELSE hashtable[g]
      BY <1>2, GapFilled
    <2>2. DOMAIN fds = 1..n /\ DOMAIN fds' = 1..(n - 1)
      BY <2>1 DEF IInv, CPollTypes
    <2>3. CPollTypes' /\ ClosedIsEmpty'
      BY <1>2, <2>1 DEF IInv, CPollTypes, ClosedIsEmpty, Found
    <2> HIDE DEF i, n
    <2>4. SlotsIndexed'
      <3>1. ASSUME NEW g \in Fds, hashtable'[g] # NoSlot
            PROVE  hashtable'[g] \in DOMAIN fds' /\ fds'[hashtable'[g]].fd = g
        <4>1. g # f
          BY <2>1, <3>1 DEF NoSlot
        <4>2. CASE g = fds[n].fd
          <5>1. i # n
            BY <2>1, <4>1, <4>2
          <5>2. hashtable'[g] = i /\ i \in 1..(n - 1)
            BY <2>1, <4>1, <4>2, <5>1
          <5>3. QED
            BY <2>1, <2>2, <4>2, <5>2
        <4>3. CASE g # fds[n].fd
          <5>1. hashtable'[g] = hashtable[g]
            BY <2>1, <4>1, <4>3
          <5>2. hashtable[g] \in 1..n /\ fds[hashtable[g]].fd = g
            BY <1>2, <2>2, <3>1, <5>1 DEF IInv, SlotsIndexed, Found
          <5>3. hashtable[g] # n /\ hashtable[g] # i
            BY <2>1, <4>1, <4>3, <5>2
          <5>4. hashtable[g] \in 1..(n - 1)
            BY <2>1, <5>2, <5>3
          <5>5. QED
            BY <2>1, <2>2, <5>1, <5>2, <5>3, <5>4
        <4>4. QED
          BY <4>2, <4>3
      <3>2. ASSUME NEW s \in DOMAIN fds' PROVE hashtable'[fds'[s].fd] = s
        <4>1. s \in 1..(n - 1) /\ s \in 1..n /\ s # n /\ n \in 1..n
          BY <2>1, <2>2
        <4>2. CASE s = i
          <5>1. fds'[s] = fds[n] /\ fds[n].fd \in Fds
            BY <2>1, <4>1, <4>2 DEF Entries
          <5>2. fds[n].fd # f
            BY <2>1, <4>1, <4>2
          <5>3. QED
            BY <2>1, <4>2, <5>1, <5>2
        <4>3. CASE s # i
          <5>1. fds'[s] = fds[s] /\ fds[s].fd \in Fds
            BY <2>1, <4>1, <4>3 DEF Entries
          <5>2. fds[s].fd # f /\ fds[s].fd # fds[n].fd
            BY <2>1, <4>1, <4>3
          <5>3. QED
            BY <2>1, <4>1, <5>1, <5>2
        <4>4. QED
          BY <4>2, <4>3
      <3>3. QED
        BY <3>1, <3>2 DEF SlotsIndexed
    <2>5. UnreadCounted'
      <3> DEFINE U == UnreadSlots(fds)
      <3>1. IsFiniteSet(U) /\ Cardinality(U) \in Nat /\ Cardinality(U) =< unreadcount
        BY UnreadFinite DEF IInv, CPollTypes, UnreadCounted
      <3>2. U = {s \in 1..n : fds[s].revents # {}}
        BY <2>2 DEF UnreadSlots
      <3>3. UnreadSlots(fds') = {s \in 1..(n - 1) : fds'[s].revents # {}}
        BY <2>2 DEF UnreadSlots
      <3>4. Cardinality(UnreadSlots(fds')) =< Cardinality(U)
        <4>1. CASE i # n /\ n \in U
          <5>1. UnreadSlots(fds') = (U \ {n}) \cup {i}
            BY <2>1, <3>2, <3>3, <4>1
          <5>2. /\ IsFiniteSet(U \ {n})
                /\ Cardinality(U \ {n}) = Cardinality(U) - 1
            BY <3>1, <4>1, FS_RemoveElement
          <5>3. Cardinality((U \ {n}) \cup {i}) =< Cardinality(U)
            BY <3>1, <5>2, FS_AddElement
          <5>4. QED
            BY <5>1, <5>3
        <4>2. CASE i = n \/ n \notin U
          <5>1. UnreadSlots(fds') \subseteq U
            BY <2>1, <3>2, <3>3, <4>2
          <5>2. QED
            BY <3>1, <5>1, FS_Subset
        <4>3. QED
          BY <4>1, <4>2
      <3>5. Cardinality(UnreadSlots(fds')) \in Nat
        BY <2>1, UnreadFinite
      <3>6. unreadcount \in Nat /\ unreadcount' = unreadcount
        BY <1>2 DEF IInv, CPollTypes
      <3>7. QED
        BY <3>1, <3>4, <3>5, <3>6 DEF UnreadCounted
    <2>6. QED
      BY <2>3, <2>4, <2>5 DEF IInv
  <1>3. QED
    BY <1>1, <1>2 DEF PollRemove, PollRefuse

(* A step that changes nothing of the vector but the events of entries.    *)
LEMMA SameSlots ==
    ASSUME IInv, fInitialized, UNCHANGED <<hashtable, fInitialized>>,
           fds' \in Seq(Entries), Len(fds') = Len(fds),
           \A s \in 1..Len(fds) : fds'[s].fd = fds[s].fd,
           unreadcount' \in Nat
    PROVE  CPollTypes' /\ ClosedIsEmpty' /\ SlotsIndexed'
  <1>1. fds \in Seq(Entries)
    BY DEF IInv, CPollTypes
  <1>2. DOMAIN fds = 1..Len(fds) /\ DOMAIN fds' = 1..Len(fds)
    BY <1>1
  <1>3. CPollTypes' /\ ClosedIsEmpty'
    BY DEF IInv, CPollTypes, ClosedIsEmpty
  <1>4. SlotsIndexed'
    BY <1>2 DEF IInv, SlotsIndexed
  <1>5. QED
    BY <1>3, <1>4

LEMMA StepChangeEventSet ==
    ASSUME IInv, NEW f \in Fds, NEW set \in Interests, PollChangeEventSet(f, set)
    PROVE  IInv'
  <1>1. CASE UNCHANGED pvars
    BY <1>1, StepUnchanged
  <1>2. CASE /\ Found(f)
             /\ fds' = [fds EXCEPT ![hashtable[f]].events = set]
             /\ UNCHANGED <<hashtable, rotation, unreadcount, fInitialized>>
    <2> DEFINE i == hashtable[f]
               changed == [fds[i] EXCEPT !.events = set]
    <2>1. fds \in Seq(Entries) /\ i \in 1..Len(fds)
      BY <1>2 DEF IInv, CPollTypes, Found
    <2>2. changed \in Entries /\ changed.fd = fds[i].fd /\ changed.revents = fds[i].revents
      <3>1. fds[i] \in Entries
        BY <2>1
      <3>2. set \in SUBSET Flags
        BY PollAssumption DEF PollAssumption
      <3>3. QED
        BY <3>1, <3>2 DEF Entries
    <2>3. fds' = [fds EXCEPT ![i] = changed]
      BY <1>2
    <2> HIDE DEF changed, i
    <2>4. /\ fds' \in Seq(Entries) /\ Len(fds') = Len(fds)
          /\ \A s \in 1..Len(fds) : fds'[s].fd = fds[s].fd /\ fds'[s].revents = fds[s].revents
      BY <2>1, <2>2, <2>3
    <2>5. CPollTypes' /\ ClosedIsEmpty' /\ SlotsIndexed'
      BY <1>2, <2>4, SameSlots DEF Found, IInv, CPollTypes
    <2>6. UnreadSlots(fds') = UnreadSlots(fds)
      BY <2>1, <2>4 DEF UnreadSlots
    <2>7. QED
      BY <1>2, <2>5, <2>6 DEF IInv, UnreadCounted
  <1>3. QED
    BY <1>1, <1>2 DEF PollChangeEventSet, PollRefuse

(* FindNextEvent takes one event from a list and one from the count.       *)
LEMMA EventTaken ==
    ASSUME NEW list \in Seq(Entries), NEW n \in Nat,
           Cardinality(UnreadSlots(list)) =< n,
           FindNextEvent(list, n)
    PROVE  /\ fds' \in Seq(Entries) /\ Len(fds') = Len(list)
           /\ \A s \in 1..Len(list) : fds'[s].fd = list[s].fd
           /\ unreadcount' \in Nat
           /\ Cardinality(UnreadSlots(fds')) =< unreadcount'
  <1>1. PICK s \in UnreadSlots(list) : /\ fds' = [list EXCEPT ![s].revents = {}]
                                      /\ unreadcount' = n - 1
    BY DEF FindNextEvent, UnreadAfter
  <1> DEFINE read == [list[s] EXCEPT !.revents = {}]
  <1>2. s \in 1..Len(list) /\ list[s] \in Entries
    BY DEF UnreadSlots
  <1>3. read \in Entries /\ read.fd = list[s].fd /\ read.revents = {}
    BY <1>2 DEF Entries
  <1>4. fds' = [list EXCEPT ![s] = read]
    BY <1>1
  <1> HIDE DEF read
  <1>5. /\ fds' \in Seq(Entries) /\ Len(fds') = Len(list)
        /\ fds'[s] = read
        /\ \A r \in 1..Len(list) : r # s => fds'[r] = list[r]
    BY <1>2, <1>3, <1>4
  <1>6. UnreadSlots(fds') = UnreadSlots(list) \ {s}
    BY <1>3, <1>5 DEF UnreadSlots
  <1>7. /\ Cardinality(UnreadSlots(list)) \in Nat
        /\ Cardinality(UnreadSlots(fds')) = Cardinality(UnreadSlots(list)) - 1
        /\ Cardinality(UnreadSlots(fds')) \in Nat
    BY <1>5, <1>6, UnreadFinite, FS_RemoveElement
  <1>8. unreadcount' \in Nat /\ Cardinality(UnreadSlots(fds')) =< unreadcount'
    BY <1>1, <1>7
  <1>9. QED
    BY <1>3, <1>5, <1>8

LEMMA PolledEntries ==
    ASSUME fds \in Seq(Entries)
    PROVE  /\ Polled \in Seq(Entries) /\ Len(Polled) = Len(fds)
           /\ \A s \in 1..Len(fds) : Polled[s].fd = fds[s].fd
  <1> DEFINE Marked(s) == ready[fds[s].fd] \cap (fds[s].events \cup AlwaysReported)
             Entered(s) == [fds[s] EXCEPT !.revents = Marked(s)]
  <1>1. ASSUME NEW s \in 1..Len(fds)
        PROVE  Entered(s) \in Entries /\ Entered(s).fd = fds[s].fd
    <2>1. fds[s] \in Entries
      OBVIOUS
    <2>2. Marked(s) \subseteq Flags
      BY <2>1, PollAssumption DEF Entries, PollAssumption
    <2> HIDE DEF Marked
    <2>3. QED
      BY <2>1, <2>2 DEF Entries
  <1>2. Polled = [s \in 1..Len(fds) |-> Entered(s)]
    BY DEF Polled
  <1> HIDE DEF Entered
  <1>3. QED
    BY <1>1, <1>2

LEMMA StepWait ==
    ASSUME IInv, PollWait
    PROVE  IInv'
  <1>1. CASE UNCHANGED pvars
    BY <1>1, StepUnchanged
  <1>2. /\ fds \in Seq(Entries) /\ unreadcount \in Nat
        /\ Cardinality(UnreadSlots(fds)) =< unreadcount
    BY DEF IInv, CPollTypes, UnreadCounted
  <1>3. CASE /\ fInitialized /\ FindNextEvent(fds, unreadcount)
             /\ UNCHANGED <<hashtable, fInitialized>>
    <2>1. /\ fds' \in Seq(Entries) /\ Len(fds') = Len(fds)
          /\ \A s \in 1..Len(fds) : fds'[s].fd = fds[s].fd
          /\ unreadcount' \in Nat /\ Cardinality(UnreadSlots(fds')) =< unreadcount'
      BY <1>2, <1>3, EventTaken
    <2>2. CPollTypes' /\ ClosedIsEmpty' /\ SlotsIndexed'
      BY <1>3, <2>1, SameSlots
    <2>3. QED
      BY <2>1, <2>2 DEF IInv, UnreadCounted
  <1>4. CASE /\ fInitialized
             /\ FindNextEvent(Polled, Cardinality(UnreadSlots(Polled)))
             /\ UNCHANGED <<hashtable, fInitialized>>
    <2>1. /\ Polled \in Seq(Entries) /\ Len(Polled) = Len(fds)
          /\ \A s \in 1..Len(fds) : Polled[s].fd = fds[s].fd
          /\ Cardinality(UnreadSlots(Polled)) \in Nat
      BY <1>2, PolledEntries, UnreadFinite
    <2>2. Cardinality(UnreadSlots(Polled)) =< Cardinality(UnreadSlots(Polled))
      BY <2>1
    <2>3. /\ fds' \in Seq(Entries) /\ Len(fds') = Len(Polled)
          /\ \A s \in 1..Len(Polled) : fds'[s].fd = Polled[s].fd
          /\ unreadcount' \in Nat /\ Cardinality(UnreadSlots(fds')) =< unreadcount'
      BY <1>4, <2>1, <2>2, EventTaken
    <2>4. CPollTypes' /\ ClosedIsEmpty' /\ SlotsIndexed'
      BY <1>4, <2>1, <2>3, SameSlots
    <2>5. QED
      BY <2>3, <2>4 DEF IInv, UnreadCounted
  <1>5. CASE /\ fInitialized /\ ~HasUnread /\ PollFindsNothing
             /\ unreadcount' = 0
             /\ UNCHANGED <<hashtable, fInitialized>>
    <2>1. CASE UnreadSlots(Polled) = {} /\ fds' = Polled
      <3>1. CPollTypes' /\ ClosedIsEmpty' /\ SlotsIndexed'
        BY <1>2, <1>5, <2>1, PolledEntries, SameSlots
      <3>2. Cardinality(UnreadSlots(fds')) = 0
        BY <2>1, FS_EmptySet
      <3>3. QED
        BY <1>5, <3>1, <3>2 DEF IInv, UnreadCounted
    <2>2. CASE UNCHANGED fds
      <3>1. CPollTypes' /\ ClosedIsEmpty' /\ SlotsIndexed'
        BY <1>2, <1>5, <2>2, SameSlots
      <3>2. Cardinality(UnreadSlots(fds)) = 0
        <4>1. CASE unreadcount = 0
          BY <1>2, <4>1, UnreadFinite
        <4>2. CASE UnreadSlots(fds) = {}
          BY <4>2, FS_EmptySet
        <4>3. QED
          BY <1>5, <4>1, <4>2 DEF HasUnread
      <3>3. QED
        BY <1>5, <2>2, <3>1, <3>2 DEF IInv, UnreadCounted
    <2>3. QED
      BY <1>5, <2>1, <2>2 DEF PollFindsNothing
  <1>6. QED
    BY <1>1, <1>3, <1>4, <1>5 DEF PollWait, PollRefuse

LEMMA StepInvariant == IInv /\ [Next]_vars => IInv'
  <1> SUFFICES ASSUME IInv, [Next]_vars PROVE IInv'
    OBVIOUS
  <1>1. CASE UNCHANGED pvars
    BY <1>1, StepUnchanged
  <1>2. CASE Initialize
    BY <1>1, <1>2, StepInitialize DEF Initialize
  <1>3. CASE Close
    BY <1>1, <1>3, StepClose DEF Close
  <1>4. CASE WaitForNextEvent
    BY <1>1, <1>4, StepWait DEF WaitForNextEvent
  <1>5. ASSUME NEW f \in Fds, Remove(f) PROVE IInv'
    BY <1>1, <1>5, StepRemove DEF Remove
  <1>6. ASSUME NEW f \in Fds, NEW set \in Interests, Add(f, set) PROVE IInv'
    BY <1>1, <1>6, StepAdd DEF Add
  <1>7. ASSUME NEW f \in Fds, NEW set \in Interests, ChangeEventSet(f, set) PROVE IInv'
    BY <1>1, <1>7, StepChangeEventSet DEF ChangeEventSet
  <1>8. QED
    BY <1>1, <1>2, <1>3, <1>4, <1>5, <1>6, <1>7 DEF Next, vars

LEMMA Invariant == Spec => []IInv
  BY InitInvariant, StepInvariant, PTL DEF Spec

(* CPoll's hash table finds every entry of its vector and nothing else,    *)
(* for any number of descriptors: Remove and ChangeEventSet never work on  *)
(* the entry of another socket, whichever entry Remove moved into the gap. *)
THEOREM SlotsTheorem == Spec => []SlotsIndexed
  BY Invariant, PTL DEF IInv

(* CPoll::_unreadcount is never less than the number of unread events, so  *)
(* WaitForNextEvent calls poll, which overwrites the events, only when     *)
(* every event of the last poll has been reported or removed.              *)
THEOREM UnreadTheorem == Spec => []UnreadCounted
  BY Invariant, PTL DEF IInv

-----------------------------------------------------------------------------
(* -------- the contract ---------------------------------------------------- *)

PollContract == INSTANCE PollingContract
                    WITH working <- fInitialized, watched <- WatchedByPoll, owed <- OwedByPoll

EpollContract == INSTANCE PollingContract
                    WITH working <- epollfd, watched <- interest, owed <- OwedByEpoll

(* Entries are watched for what a caller asked for.                        *)
PollInv ==
    /\ IInv
    /\ \A s \in 1..Len(fds) : fds[s].events \in Interests

(* The buffer holds at most one event of a descriptor, and an object that  *)
(* has no epoll descriptor watches nothing and owes nothing.               *)
EpollInv ==
    /\ interest \in [Fds -> Interests \cup {NotWatched}]
    /\ \A e \in events : e = Event(e.fd, e.flags) /\ e.fd \in Fds /\ e.flags # {}
    /\ \A e, d \in events : e.fd = d.fd => e = d
    /\ ~epollfd => interest = Unwatched /\ events = {}

RInv == PollInv /\ EpollInv /\ type \in {"poll", "epoll"}

-----------------------------------------------------------------------------
(* -------- CPoll ---------------------------------------------------------- *)

(* What the vector says of the descriptors in it, and of the others.       *)
Listed(f) == \E s \in 1..Len(fds) : fds[s].fd = f

PollSeen ==
    /\ fds \in Seq(Entries) /\ DOMAIN fds = 1..Len(fds)
    /\ \A s \in 1..Len(fds) :
          /\ fds[s] \in Entries /\ fds[s].fd \in Fds
          /\ fInitialized /\ hashtable[fds[s].fd] = s
          /\ fds[s].events # NotWatched
          /\ WatchedByPoll[fds[s].fd] = fds[s].events
          /\ OwedByPoll[fds[s].fd] = fds[s].revents
    /\ \A f \in Fds : ~Listed(f) => WatchedByPoll[f] = NotWatched /\ OwedByPoll[f] = {}
    /\ WatchedByPoll = [f \in Fds |-> WatchedByPoll[f]]
    /\ OwedByPoll = [f \in Fds |-> OwedByPoll[f]]

LEMMA PollView == PollInv => PollSeen
  <1> SUFFICES ASSUME PollInv PROVE PollSeen
    OBVIOUS
  <1>1. fds \in Seq(Entries) /\ DOMAIN fds = 1..Len(fds)
    BY DEF PollInv, IInv, CPollTypes
  <1>2. ASSUME NEW s \in 1..Len(fds)
        PROVE  /\ fds[s] \in Entries /\ fds[s].fd \in Fds
               /\ fInitialized /\ hashtable[fds[s].fd] = s
               /\ fds[s].events # NotWatched
               /\ WatchedByPoll[fds[s].fd] = fds[s].events
               /\ OwedByPoll[fds[s].fd] = fds[s].revents
    <2>1. fInitialized
      <3>1. fds # <<>>
        BY <1>1, <1>2
      <3>2. QED
        BY <3>1 DEF PollInv, IInv, ClosedIsEmpty
    <2>2. \A r \in 1..Len(fds) : hashtable[fds[r].fd] = r
      BY <1>1, <2>1 DEF PollInv, IInv, SlotsIndexed
    <2>3. fds[s] \in Entries
      BY <1>1, <1>2
    <2>4. fds[s].fd \in Fds
      BY <2>3 DEF Entries
    <2>5. WatchedSlots(fds[s].fd) = {s}
      BY <1>1, <2>2 DEF WatchedSlots
    <2>6. OnlySlot(fds[s].fd) = s
      BY <2>5 DEF OnlySlot
    <2>7. fds[s].events # NotWatched
      BY <1>2, PollAssumption DEF PollInv, PollAssumption
    <2>8. QED
      BY <2>1, <2>2, <2>3, <2>4, <2>5, <2>6, <2>7 DEF WatchedByPoll, OwedByPoll
  <1>3. ASSUME NEW f \in Fds, ~Listed(f)
        PROVE  WatchedByPoll[f] = NotWatched /\ OwedByPoll[f] = {}
    <2>1. WatchedSlots(f) = {}
      BY <1>1, <1>3 DEF WatchedSlots, Listed
    <2>2. QED
      BY <2>1 DEF WatchedByPoll, OwedByPoll
  <1>4. /\ WatchedByPoll = [f \in Fds |-> WatchedByPoll[f]]
        /\ OwedByPoll = [f \in Fds |-> OwedByPoll[f]]
    BY DEF WatchedByPoll, OwedByPoll
  <1>5. QED
    BY <1>1, <1>2, <1>3, <1>4 DEF PollSeen

LEMMA PollViewNext == PollInv' => PollSeen'
  BY PollView, PTL

(* Remove and ChangeEventSet find a descriptor if and only if it is        *)
(* watched, and Add an empty place if and only if it is not.               *)
LEMMA FoundIsWatched ==
    ASSUME PollInv, NEW f \in Fds
    PROVE  /\ Found(f) <=> fInitialized /\ WatchedByPoll[f] # NotWatched
           /\ fInitialized => ((hashtable[f] = NoSlot) <=> (WatchedByPoll[f] = NotWatched))
           /\ Found(f) => hashtable[f] \in 1..Len(fds) /\ fds[hashtable[f]].fd = f
  <1>1. PollSeen
    BY PollView
  <1>2. CASE Listed(f)
    <2>1. PICK s \in 1..Len(fds) : fds[s].fd = f
      BY <1>2 DEF Listed
    <2>2. hashtable[f] = s /\ WatchedByPoll[f] # NotWatched /\ s # 0 /\ fInitialized
      BY <1>1, <2>1 DEF PollSeen
    <2>3. fds # <<>> /\ DOMAIN fds = 1..Len(fds)
      BY <1>1, <2>1 DEF PollSeen
    <2>4. QED
      BY <2>1, <2>2, <2>3 DEF Found, NoSlot
  <1>3. CASE ~Listed(f)
    <2>1. WatchedByPoll[f] = NotWatched /\ DOMAIN fds = 1..Len(fds)
      BY <1>1, <1>3 DEF PollSeen
    <2>2. ~Found(f)
      BY <1>3, <2>1 DEF Found, Listed
    <2>3. fInitialized => hashtable[f] = NoSlot
      BY <1>3, <2>1 DEF PollInv, IInv, SlotsIndexed, Listed
    <2>4. QED
      BY <2>1, <2>2, <2>3
  <1>4. QED
    BY <1>2, <1>3

(* A call that is refused.                                                 *)
LEMMA PollUnchanged ==
    UNCHANGED pvars => UNCHANGED <<fInitialized, WatchedByPoll, OwedByPoll>>
  BY DEF pvars, WatchedByPoll, OwedByPoll, WatchedSlots, OnlySlot

LEMMA PollOpens ==
    ASSUME PollInv, ~fInitialized, PollInitialize
    PROVE  PollContract!COpen
  <1>1. UNCHANGED <<WatchedByPoll, OwedByPoll>>
    BY DEF PollInitialize, WatchedByPoll, OwedByPoll, WatchedSlots, OnlySlot
  <1>2. QED
    BY <1>1 DEF PollInitialize, PollContract!COpen, PollContract!Result, Result

LEMMA PollCloses ==
    ASSUME PollInv', PollClose
    PROVE  PollContract!CClose
  <1>1. PollSeen' /\ fds' = <<>>
    BY PollViewNext DEF PollClose
  <1>2. \A f \in Fds : ~Listed(f)'
    BY <1>1 DEF Listed
  <1>3. \A f \in Fds : WatchedByPoll'[f] = NotWatched /\ OwedByPoll'[f] = {}
    BY <1>1, <1>2 DEF PollSeen
  <1>4. /\ WatchedByPoll' = [f \in Fds |-> NotWatched]
        /\ OwedByPoll' = [f \in Fds |-> {}]
    BY <1>1, <1>3 DEF PollSeen
  <1>5. QED
    BY <1>4 DEF PollClose, PollContract!CClose, PollContract!Nothing,
                PollContract!Result, Result

LEMMA PollAdds ==
    ASSUME PollInv, PollInv', NEW f \in Fds, NEW set \in Interests, PollAdd(f, set)
    PROVE  PollContract!CAdd(f, set)
  <1>1. PollSeen /\ PollSeen'
    BY PollView, PollViewNext
  <1>2. fInitialized => ((hashtable[f] = NoSlot) <=> (WatchedByPoll[f] = NotWatched))
    BY FoundIsWatched
  <1>3. ASSUME NEW hr, hr \notin {"S_OK", "S_FALSE"}, PollRefuse(hr)
        PROVE  PollContract!Refuse
    BY <1>3, PollUnchanged DEF PollRefuse, PollContract!Refuse, Result
  <1>4. CASE PollRefuse("E_FAIL") /\ ~fInitialized
    BY <1>3, <1>4 DEF PollContract!CAdd
  <1>5. CASE PollRefuse("E_UNEXPECTED") /\ fInitialized /\ hashtable[f] # NoSlot
    BY <1>2, <1>3, <1>5 DEF PollContract!CAdd, PollContract!Watches
  <1>6. CASE /\ fInitialized /\ hashtable[f] = NoSlot
             /\ fds' = Append(fds, Entry(f, set))
             /\ ret' = Result("S_OK")
             /\ UNCHANGED fInitialized
    <2> DEFINE n == Len(fds)
    <2>1. fds \in Seq(Entries) /\ n \in Nat
      BY <1>1 DEF PollSeen
    <2>2. /\ Len(fds') = n + 1 /\ fds'[n + 1] = Entry(f, set)
          /\ \A s \in 1..n : s \in 1..(n + 1) /\ fds'[s] = fds[s]
          /\ \A s \in 1..(n + 1) : s = n + 1 \/ s \in 1..n
          /\ n + 1 \in 1..(n + 1)
      BY <1>6, <2>1
    <2>3. WatchedByPoll[f] = NotWatched
      BY <1>2, <1>6
    <2>4. ~Listed(f)
      BY <1>1, <2>3 DEF PollSeen, Listed
    <2>5. WatchedByPoll'[f] = set /\ OwedByPoll'[f] = {} /\ OwedByPoll[f] = {}
      <3>1. WatchedByPoll'[f] = set /\ OwedByPoll'[f] = {}
        BY <1>1, <2>2 DEF PollSeen, Entry
      <3>2. QED
        BY <1>1, <2>4, <3>1 DEF PollSeen
    <2>6. ASSUME NEW g \in Fds, g # f
          PROVE  WatchedByPoll'[g] = WatchedByPoll[g] /\ OwedByPoll'[g] = OwedByPoll[g]
      <3>1. CASE Listed(g)
        <4>1. PICK s \in 1..n : fds[s].fd = g
          BY <3>1 DEF Listed
        <4>2. s \in 1..Len(fds') /\ fds'[s] = fds[s]
          BY <2>2
        <4>3. QED
          BY <1>1, <4>1, <4>2 DEF PollSeen
      <3>2. CASE ~Listed(g)
        <4>1. ~Listed(g)'
          BY <2>2, <2>6, <3>2 DEF Listed, Entry
        <4>2. QED
          BY <1>1, <3>2, <4>1 DEF PollSeen
      <3>3. QED
        BY <3>1, <3>2
    <2>7. /\ WatchedByPoll' = [WatchedByPoll EXCEPT ![f] = set]
          /\ OwedByPoll' = OwedByPoll
      <3>1. \A g \in Fds : OwedByPoll'[g] = OwedByPoll[g]
        BY <2>5, <2>6
      <3>2. WatchedByPoll' = [WatchedByPoll EXCEPT ![f] = set]
        BY <1>1, <2>5, <2>6 DEF PollSeen
      <3>3. OwedByPoll' = OwedByPoll
        BY <1>1, <3>1 DEF PollSeen
      <3>4. QED
        BY <3>2, <3>3
    <2>8. QED
      BY <1>6, <2>3, <2>7 DEF PollContract!CAdd, PollContract!Watches,
                              PollContract!Result, Result
  <1>7. QED
    BY <1>4, <1>5, <1>6 DEF PollAdd

LEMMA PollChanges ==
    ASSUME PollInv, PollInv', NEW f \in Fds, NEW set \in Interests,
           PollChangeEventSet(f, set)
    PROVE  PollContract!CChange(f, set)
  <1>1. PollSeen /\ PollSeen'
    BY PollView, PollViewNext
  <1>2. /\ Found(f) <=> fInitialized /\ WatchedByPoll[f] # NotWatched
        /\ Found(f) => hashtable[f] \in 1..Len(fds) /\ fds[hashtable[f]].fd = f
    BY FoundIsWatched
  <1>3. CASE PollRefuse("E_FAIL") /\ ~Found(f)
    <2>1. PollContract!Refuse
      BY <1>3, PollUnchanged DEF PollRefuse, PollContract!Refuse, Result
    <2>2. QED
      BY <1>2, <1>3, <2>1 DEF PollContract!CChange, PollContract!Watches
  <1>4. CASE /\ Found(f)
             /\ fds' = [fds EXCEPT ![hashtable[f]].events = set]
             /\ ret' = Result("S_OK")
             /\ UNCHANGED fInitialized
    <2> DEFINE i == hashtable[f]
               n == Len(fds)
               changed == [fds[i] EXCEPT !.events = set]
    <2>1. fds \in Seq(Entries) /\ i \in 1..n /\ fds[i].fd = f /\ fds[i] \in Entries
      BY <1>1, <1>2, <1>4 DEF PollSeen
    <2>2. /\ changed.fd = f /\ changed.events = set /\ changed.revents = fds[i].revents
      BY <2>1 DEF Entries
    <2>3. fds' = [fds EXCEPT ![i] = changed]
      BY <1>4
    <2> HIDE DEF changed
    <2>4. /\ Len(fds') = n /\ fds'[i] = changed
          /\ \A s \in 1..n : s # i => fds'[s] = fds[s]
      BY <2>1, <2>3
    <2>5. WatchedByPoll'[f] = set /\ OwedByPoll'[f] = OwedByPoll[f]
      BY <1>1, <2>1, <2>2, <2>4 DEF PollSeen
    <2>6. ASSUME NEW g \in Fds, g # f
          PROVE  WatchedByPoll'[g] = WatchedByPoll[g] /\ OwedByPoll'[g] = OwedByPoll[g]
      <3>1. CASE Listed(g)
        <4>1. PICK s \in 1..n : fds[s].fd = g
          BY <3>1 DEF Listed
        <4>2. s \in 1..Len(fds') /\ fds'[s] = fds[s]
          BY <2>1, <2>4, <2>6, <4>1
        <4>3. QED
          BY <1>1, <4>1, <4>2 DEF PollSeen
      <3>2. CASE ~Listed(g)
        <4>1. ~Listed(g)'
          BY <2>1, <2>2, <2>4, <3>2 DEF Listed
        <4>2. QED
          BY <1>1, <3>2, <4>1 DEF PollSeen
      <3>3. QED
        BY <3>1, <3>2
    <2>7. /\ WatchedByPoll' = [WatchedByPoll EXCEPT ![f] = set]
          /\ OwedByPoll' = OwedByPoll
      <3>1. \A g \in Fds : OwedByPoll'[g] = OwedByPoll[g]
        BY <2>5, <2>6
      <3>2. WatchedByPoll' = [WatchedByPoll EXCEPT ![f] = set]
        BY <1>1, <2>5, <2>6 DEF PollSeen
      <3>3. OwedByPoll' = OwedByPoll
        BY <1>1, <3>1 DEF PollSeen
      <3>4. QED
        BY <3>2, <3>3
    <2>8. QED
      BY <1>2, <1>4, <2>7 DEF PollContract!CChange, PollContract!Watches,
                              PollContract!Result, Result
  <1>5. QED
    BY <1>3, <1>4 DEF PollChangeEventSet

(* The entry that fills the gap keeps its interest and its event.          *)
LEMMA PollRemoves ==
    ASSUME PollInv, PollInv', type = "poll", NEW f \in Fds, PollRemove(f)
    PROVE  PollContract!CRemove(f)
  <1>1. PollSeen /\ PollSeen'
    BY PollView, PollViewNext
  <1>2. Found(f) <=> fInitialized /\ WatchedByPoll[f] # NotWatched
    BY FoundIsWatched
  <1>3. CASE PollRefuse("E_FAIL") /\ ~Found(f)
    <2>1. PollContract!Refuse
      BY <1>3, PollUnchanged DEF PollRefuse, PollContract!Refuse, Result
    <2>2. QED
      BY <1>2, <1>3, <2>1 DEF PollContract!CRemove, PollContract!Watches
  <1>4. CASE /\ Found(f)
             /\ fds' = SubSeq([fds EXCEPT ![hashtable[f]] = fds[Len(fds)]], 1, Len(fds) - 1)
             /\ hashtable' = IndexWithout(f)
             /\ ret' = Result("S_OK")
             /\ UNCHANGED fInitialized
    <2> DEFINE i == hashtable[f]
               n == Len(fds)
    <2>1. /\ n \in Nat \ {0} /\ i \in 1..n /\ fds[i].fd = f
          /\ Len(fds') = n - 1
          /\ \A s \in 1..(n - 1) : fds'[s] = IF s = i THEN fds[n] ELSE fds[s]
      BY <1>4, GapFilled DEF PollInv
    <2>2. \A s \in 1..n : hashtable[fds[s].fd] = s
      BY <1>1 DEF PollSeen
    <2> HIDE DEF i, n
    <2>3. ~Listed(f)'
      <3>1. ASSUME NEW s \in 1..(n - 1), fds'[s].fd = f PROVE FALSE
        <4>1. CASE s = i
          <5>1. fds[n].fd = f /\ n \in 1..n /\ s # n
            BY <2>1, <3>1, <4>1
          <5>2. QED
            BY <2>1, <2>2, <4>1, <5>1
        <4>2. CASE s # i
          <5>1. fds[s].fd = f /\ s \in 1..n
            BY <2>1, <3>1, <4>2
          <5>2. QED
            BY <2>1, <2>2, <4>2, <5>1
        <4>3. QED
          BY <4>1, <4>2
      <3>2. QED
        BY <2>1, <3>1 DEF Listed
    <2>4. WatchedByPoll'[f] = NotWatched /\ OwedByPoll'[f] = {}
      BY <1>1, <2>3 DEF PollSeen
    <2>5. ASSUME NEW g \in Fds, g # f
          PROVE  WatchedByPoll'[g] = WatchedByPoll[g] /\ OwedByPoll'[g] = OwedByPoll[g]
      <3>1. CASE Listed(g)
        <4>1. PICK s \in 1..n : fds[s].fd = g
          BY <3>1 DEF Listed, n
        <4>2. PICK r \in 1..(n - 1) : fds'[r] = fds[s]
          <5>1. s # i
            BY <2>1, <2>5, <4>1
          <5>2. CASE s = n
            <6>1. i \in 1..(n - 1) /\ fds'[i] = fds[s]
              BY <2>1, <5>1, <5>2
            <6>2. QED
              BY <6>1
          <5>3. CASE s # n
            <6>1. s \in 1..(n - 1) /\ fds'[s] = fds[s]
              BY <2>1, <5>1, <5>3
            <6>2. QED
              BY <6>1
          <5>4. QED
            BY <5>2, <5>3
        <4>3. r \in 1..Len(fds') /\ s \in 1..Len(fds)
          BY <2>1 DEF n
        <4>4. QED
          BY <1>1, <4>1, <4>2, <4>3 DEF PollSeen
      <3>2. CASE ~Listed(g)
        <4>1. \A s \in 1..n : fds[s].fd # g
          BY <3>2 DEF Listed, n
        <4>2. \A s \in 1..(n - 1) : fds'[s].fd # g
          BY <2>1, <4>1
        <4>3. ~Listed(g)'
          BY <2>1, <4>2 DEF Listed
        <4>4. QED
          BY <1>1, <3>2, <4>3 DEF PollSeen
      <3>3. QED
        BY <3>1, <3>2
    <2>6. /\ WatchedByPoll' = [WatchedByPoll EXCEPT ![f] = NotWatched]
          /\ OwedByPoll' = [OwedByPoll EXCEPT ![f] = {}]
      BY <1>1, <2>4, <2>5 DEF PollSeen
    <2>7. QED
      BY <1>2, <1>4, <2>6 DEF PollContract!CRemove, PollContract!Watches,
                              PollContract!Result, Result
  <1>5. QED
    BY <1>3, <1>4 DEF PollRemove

(* FindNextEvent reports what its list holds for a descriptor, and leaves  *)
(* what it holds for the others.                                           *)
LEMMA EventReported ==
    ASSUME PollSeen, PollSeen',
           NEW list \in Seq(Entries), Len(list) = Len(fds),
           \A s \in 1..Len(fds) : list[s].fd = fds[s].fd /\ list[s].events = fds[s].events,
           NEW all, all = [g \in Fds |-> all[g]],
           \A s \in 1..Len(fds) : all[fds[s].fd] = list[s].revents,
           \A g \in Fds : ~Listed(g) => all[g] = {},
           NEW n, FindNextEvent(list, n)
    PROVE  PollContract!Report(all) /\ UNCHANGED WatchedByPoll
  <1> DEFINE m == Len(fds)
  <1>1. PICK s \in UnreadSlots(list) : /\ fds' = [list EXCEPT ![s].revents = {}]
                                      /\ ret' = Event(list[s].fd, list[s].revents)
    BY DEF FindNextEvent
  <1> DEFINE read == [list[s] EXCEPT !.revents = {}]
             f == fds[s].fd
  <1>2. s \in 1..m /\ list[s] \in Entries /\ list[s].revents # {}
    BY DEF UnreadSlots
  <1>3. read.fd = f /\ read.revents = {} /\ read.events = fds[s].events
    BY <1>2 DEF Entries
  <1>4. fds' = [list EXCEPT ![s] = read]
    BY <1>1
  <1> HIDE DEF read
  <1>5. /\ Len(fds') = m /\ fds'[s] = read
        /\ \A r \in 1..m : r # s => fds'[r] = list[r]
    BY <1>2, <1>4
  <1>6. \A r \in 1..m : fds'[r].fd = fds[r].fd /\ fds'[r].events = fds[r].events
    BY <1>3, <1>5
  <1>7. f \in Fds /\ all[f] = list[s].revents
    BY <1>2 DEF PollSeen
  <1>8. OwedByPoll'[f] = {}
    <2>1. s \in 1..Len(fds')
      BY <1>2, <1>5
    <2>2. fds'[s].fd = f /\ fds'[s].revents = {}
      BY <1>3, <1>5
    <2>3. QED
      BY <2>1, <2>2 DEF PollSeen
  <1>9. ASSUME NEW g \in Fds
        PROVE  /\ WatchedByPoll'[g] = WatchedByPoll[g]
               /\ g # f => OwedByPoll'[g] = all[g]
    <2>1. CASE Listed(g)
      <3>1. PICK r \in 1..m : fds[r].fd = g
        BY <2>1 DEF Listed
      <3>2. r \in 1..Len(fds') /\ fds'[r].fd = g /\ fds'[r].events = fds[r].events
        BY <1>5, <1>6, <3>1
      <3>3. WatchedByPoll'[g] = fds'[r].events /\ OwedByPoll'[g] = fds'[r].revents
        BY <3>2 DEF PollSeen
      <3>4. g # f => fds'[r].revents = all[g]
        BY <1>5, <3>1
      <3>5. QED
        BY <3>1, <3>2, <3>3, <3>4 DEF PollSeen
    <2>2. CASE ~Listed(g)
      <3>1. ~Listed(g)'
        BY <1>5, <1>6, <2>2 DEF Listed
      <3>2. QED
        BY <2>2, <3>1 DEF PollSeen
    <2>3. QED
      BY <2>1, <2>2
  <1> HIDE DEF f, m
  <1>10. UNCHANGED WatchedByPoll
    BY <1>9 DEF PollSeen
  <1>11. OwedByPoll' = [all EXCEPT ![f] = {}]
    BY <1>7, <1>8, <1>9 DEF PollSeen
  <1>12. ret' = Event(f, all[f]) /\ all[f] # {}
    <2>1. list[s].fd = f
      BY <1>2 DEF f, m
    <2>2. QED
      BY <1>1, <1>2, <1>7, <2>1
  <1>13. QED
    BY <1>7, <1>10, <1>11, <1>12 DEF PollContract!Report, PollContract!Event, Event

LEMMA PolledValues ==
    ASSUME PollSeen
    PROVE  /\ Polled \in Seq(Entries) /\ Len(Polled) = Len(fds)
           /\ \A s \in 1..Len(fds) :
                 /\ Polled[s].fd = fds[s].fd /\ Polled[s].events = fds[s].events
                 /\ Polled[s].revents = PollContract!Fetched[fds[s].fd]
           /\ \A g \in Fds : ~Listed(g) => PollContract!Fetched[g] = {}
           /\ PollContract!Fetched = [g \in Fds |-> PollContract!Fetched[g]]
  <1>1. Polled \in Seq(Entries) /\ Len(Polled) = Len(fds)
    BY PolledEntries DEF PollSeen
  <1>2. ASSUME NEW s \in 1..Len(fds)
        PROVE  /\ Polled[s].fd = fds[s].fd /\ Polled[s].events = fds[s].events
               /\ Polled[s].revents = PollContract!Fetched[fds[s].fd]
    <2> DEFINE marks == ready[fds[s].fd] \cap (fds[s].events \cup AlwaysReported)
    <2>1. Polled[s] = [fds[s] EXCEPT !.revents = marks]
      BY <1>2 DEF Polled, PollSeen
    <2>2. PollContract!Fetched[fds[s].fd] = marks
      BY <1>2 DEF PollContract!Fetched, PollContract!Watches, PollSeen
    <2> HIDE DEF marks
    <2>3. fds[s] \in Entries
      BY <1>2 DEF PollSeen
    <2>4. QED
      BY <2>1, <2>2, <2>3 DEF Entries
  <1>3. \A g \in Fds : ~Listed(g) => PollContract!Fetched[g] = {}
    BY DEF PollContract!Fetched, PollContract!Watches, PollSeen
  <1>4. PollContract!Fetched = [g \in Fds |-> PollContract!Fetched[g]]
    BY DEF PollContract!Fetched
  <1>5. QED
    BY <1>1, <1>2, <1>3, <1>4

(* A search that finds nothing proves that nothing is owed: the count that *)
(* cuts it short is never too small.                                       *)
LEMMA NothingOwed ==
    ASSUME PollInv, ~HasUnread
    PROVE  OwedByPoll = PollContract!Nothing
  <1>1. PollSeen
    BY PollView
  <1>2. UnreadSlots(fds) = {}
    <2>1. CASE unreadcount = 0
      <3>1. /\ Cardinality(UnreadSlots(fds)) \in Nat
            /\ Cardinality(UnreadSlots(fds)) =< 0
            /\ IsFiniteSet(UnreadSlots(fds))
        BY <1>1, <2>1, UnreadFinite DEF PollInv, IInv, UnreadCounted, PollSeen
      <3>2. QED
        BY <3>1, FS_EmptySet
    <2>2. QED
      BY <2>1 DEF HasUnread
  <1>3. \A s \in 1..Len(fds) : fds[s].revents = {}
    BY <1>1, <1>2 DEF UnreadSlots, PollSeen
  <1>4. \A g \in Fds : OwedByPoll[g] = {}
    BY <1>1, <1>3 DEF PollSeen, Listed
  <1>5. QED
    BY <1>1, <1>4 DEF PollSeen, PollContract!Nothing

LEMMA PollWaits ==
    ASSUME PollInv, PollInv', PollWait
    PROVE  PollContract!CWait
  <1>1. PollSeen /\ PollSeen'
    BY PollView, PollViewNext
  <1>2. CASE ~fInitialized /\ PollRefuse("E_FAIL")
    <2>1. PollContract!Refuse
      BY <1>2, PollUnchanged DEF PollRefuse, PollContract!Refuse, Result
    <2>2. QED
      BY <1>2, <2>1 DEF PollContract!CWait
  <1>3. CASE fInitialized /\ fds = <<>> /\ PollRefuse("S_FALSE")
    <2>1. \A g \in Fds : ~Listed(g)
      BY <1>3 DEF Listed
    <2>2. \A g \in Fds : OwedByPoll[g] = {} /\ PollContract!Fetched[g] = {}
      BY <1>1, <2>1, PolledValues DEF PollSeen
    <2>3. /\ OwedByPoll = PollContract!Nothing
          /\ PollContract!Fetched = PollContract!Nothing
      BY <1>1, <2>2, PolledValues DEF PollSeen, PollContract!Nothing
    <2>4. ret' = PollContract!Result("S_FALSE")
      BY <1>3 DEF PollRefuse, PollContract!Result, Result
    <2>5. UNCHANGED <<fInitialized, WatchedByPoll, OwedByPoll>>
      BY <1>3, PollUnchanged DEF PollRefuse
    <2>6. QED
      BY <1>3, <2>3, <2>4, <2>5 DEF PollContract!CWait
  <1>4. CASE fInitialized /\ HasUnread /\ FindNextEvent(fds, unreadcount) /\ UNCHANGED fInitialized
    <2>1. PollContract!Report(OwedByPoll) /\ UNCHANGED WatchedByPoll
      <3>1. /\ fds \in Seq(Entries) /\ OwedByPoll = [g \in Fds |-> OwedByPoll[g]]
            /\ \A s \in 1..Len(fds) : OwedByPoll[fds[s].fd] = fds[s].revents
            /\ \A g \in Fds : ~Listed(g) => OwedByPoll[g] = {}
        BY <1>1 DEF PollSeen
      <3>2. QED
        BY <1>1, <1>4, <3>1, EventReported
    <2>2. OwedByPoll # PollContract!Nothing
      BY <2>1 DEF PollContract!Report, PollContract!Nothing
    <2>3. QED
      BY <1>4, <2>1, <2>2 DEF PollContract!CWait
  <1>5. CASE /\ fInitialized /\ ~HasUnread
             /\ FindNextEvent(Polled, Cardinality(UnreadSlots(Polled)))
             /\ UNCHANGED fInitialized
    <2>1. PollContract!Report(PollContract!Fetched) /\ UNCHANGED WatchedByPoll
      BY <1>1, <1>5, PolledValues, EventReported
    <2>2. QED
      BY <1>5, <2>1, NothingOwed DEF PollContract!CWait
  <1>6. CASE fInitialized /\ ~HasUnread /\ PollFindsNothing /\ UNCHANGED fInitialized
    <2>1. OwedByPoll = PollContract!Nothing
      BY <1>6, NothingOwed
    <2>2. CASE UnreadSlots(Polled) = {} /\ fds' = Polled /\ ret' = Result("S_FALSE")
      <3>1. /\ Polled \in Seq(Entries) /\ Len(Polled) = Len(fds)
            /\ \A s \in 1..Len(fds) :
                 /\ fds'[s].fd = fds[s].fd /\ fds'[s].events = fds[s].events
                 /\ fds'[s].revents = PollContract!Fetched[fds[s].fd]
        BY <1>1, <2>2, PolledValues
      <3>2. \A s \in 1..Len(fds) : fds'[s].revents = {}
        BY <2>2, <3>1 DEF UnreadSlots
      <3>3. ASSUME NEW g \in Fds
            PROVE  /\ WatchedByPoll'[g] = WatchedByPoll[g]
                   /\ OwedByPoll'[g] = {} /\ PollContract!Fetched[g] = {}
        <4>1. CASE Listed(g)
          <5>1. PICK s \in 1..Len(fds) : fds[s].fd = g
            BY <4>1 DEF Listed
          <5>2. s \in 1..Len(fds') /\ fds'[s].fd = g
            BY <2>2, <3>1, <5>1
          <5>3. WatchedByPoll'[g] = fds'[s].events /\ OwedByPoll'[g] = fds'[s].revents
            BY <1>1, <5>2 DEF PollSeen
          <5>4. WatchedByPoll[g] = fds[s].events
            BY <1>1, <5>1 DEF PollSeen
          <5>5. QED
            BY <3>1, <3>2, <5>1, <5>3, <5>4
        <4>2. CASE ~Listed(g)
          <5>1. ~Listed(g)'
            BY <2>2, <3>1, <4>2 DEF Listed
          <5>2. QED
            BY <1>1, <4>2, <5>1, PolledValues DEF PollSeen
        <4>3. QED
          BY <4>1, <4>2
      <3>4. WatchedByPoll' = WatchedByPoll
        BY <1>1, <3>3 DEF PollSeen
      <3>5. OwedByPoll' = PollContract!Nothing
        BY <1>1, <3>3 DEF PollSeen, PollContract!Nothing
      <3>6. PollContract!Fetched = PollContract!Nothing
        BY <1>1, <3>3, PolledValues DEF PollContract!Nothing
      <3>7. ret' = PollContract!Result("S_FALSE")
        BY <2>2 DEF PollContract!Result, Result
      <3>8. QED
        BY <1>6, <2>1, <3>4, <3>5, <3>6, <3>7 DEF PollContract!CWait
    <2>3. CASE UNCHANGED fds /\ ret' = Result("E_ERRNO")
      <3>1. UNCHANGED <<WatchedByPoll, OwedByPoll>>
        BY <2>3 DEF WatchedByPoll, OwedByPoll, WatchedSlots, OnlySlot
      <3>2. PollContract!Refuse
        BY <1>6, <2>3, <3>1 DEF PollContract!Refuse, Result
      <3>3. QED
        BY <2>1, <3>2 DEF PollContract!CWait
    <2>4. QED
      BY <1>6, <2>2, <2>3 DEF PollFindsNothing
  <1>7. QED
    BY <1>2, <1>3, <1>4, <1>5, <1>6 DEF PollWait

LEMMA InterestsKept ==
    ASSUME PollInv, [Next]_vars
    PROVE  PollInv'
  <1> DEFINE Asked == \A s \in 1..Len(fds) : fds[s].events \in Interests
  <1>1. IInv' /\ PollSeen
    BY StepInvariant, PollView DEF PollInv
  <1>2. fds \in Seq(Entries) /\ Asked
    BY <1>1 DEF PollInv, PollSeen
  <1>3. CASE UNCHANGED fds
    BY <1>1, <1>2, <1>3 DEF PollInv
  <1>4. CASE PollClose
    BY <1>1, <1>4 DEF PollClose, PollInv
  <1>5. ASSUME NEW f \in Fds, NEW set \in Interests, fds' = Append(fds, Entry(f, set))
        PROVE  Asked'
    <2>1. \A s \in 1..Len(fds') : s = Len(fds) + 1 \/ s \in 1..Len(fds)
      BY <1>2, <1>5
    <2>2. /\ fds'[Len(fds) + 1].events = set
          /\ \A s \in 1..Len(fds) : fds'[s] = fds[s]
      BY <1>2, <1>5 DEF Entry
    <2>3. QED
      BY <1>2, <2>1, <2>2
  <1>6. ASSUME NEW f \in Fds, Found(f), PollRemove(f), fds' # fds
        PROVE  Asked'
    <2>1. /\ fds' = SubSeq([fds EXCEPT ![hashtable[f]] = fds[Len(fds)]], 1, Len(fds) - 1)
          /\ hashtable' = IndexWithout(f)
      BY <1>6 DEF PollRemove, PollRefuse, pvars
    <2>2. /\ Len(fds) \in Nat \ {0} /\ Len(fds') = Len(fds) - 1
          /\ \A s \in 1..(Len(fds) - 1) :
                fds'[s] = IF s = hashtable[f] THEN fds[Len(fds)] ELSE fds[s]
      BY <1>6, <2>1, GapFilled DEF PollInv
    <2>3. QED
      BY <1>2, <2>2
  <1>7. ASSUME NEW f \in Fds, NEW set \in Interests, Found(f),
               fds' = [fds EXCEPT ![hashtable[f]].events = set]
        PROVE  Asked'
    <2> DEFINE i == hashtable[f]
               changed == [fds[i] EXCEPT !.events = set]
    <2>1. i \in 1..Len(fds) /\ fds[i] \in Entries
      BY <1>1, <1>7 DEF Found, PollSeen
    <2>2. changed.events = set
      BY <2>1 DEF Entries
    <2>3. fds' = [fds EXCEPT ![i] = changed]
      BY <1>7
    <2> HIDE DEF changed
    <2>4. QED
      BY <1>2, <2>1, <2>2, <2>3
  <1>8. ASSUME PollWait PROVE Asked'
    <2>1. ASSUME NEW list \in Seq(Entries), NEW n, FindNextEvent(list, n),
                 Len(list) = Len(fds),
                 \A s \in 1..Len(fds) : list[s].events = fds[s].events
          PROVE  Asked'
      <3>1. PICK s \in UnreadSlots(list) : fds' = [list EXCEPT ![s].revents = {}]
        BY <2>1 DEF FindNextEvent
      <3> DEFINE read == [list[s] EXCEPT !.revents = {}]
      <3>2. s \in 1..Len(list) /\ list[s] \in Entries
        BY DEF UnreadSlots
      <3>3. read.events = list[s].events
        BY <3>2 DEF Entries
      <3>4. fds' = [list EXCEPT ![s] = read]
        BY <3>1
      <3> HIDE DEF read
      <3>5. Len(fds') = Len(fds) /\ \A r \in 1..Len(fds) : fds'[r].events = fds[r].events
        BY <2>1, <3>2, <3>3, <3>4
      <3>6. QED
        BY <1>2, <3>5
    <2>2. CASE fds' = Polled
      BY <1>1, <1>2, <2>2, PolledValues
    <2>3. CASE \E n : FindNextEvent(fds, n)
      BY <1>2, <2>1, <2>3
    <2>4. CASE \E n : FindNextEvent(Polled, n)
      BY <1>1, <2>1, <2>4, PolledValues
    <2>5. CASE UNCHANGED fds
      BY <1>2, <2>5
    <2>6. QED
      BY <1>8, <2>2, <2>3, <2>4, <2>5 DEF PollWait, PollRefuse, PollFindsNothing, pvars
  <1> HIDE DEF Asked
  <1>9. Asked' => PollInv'
    BY <1>1 DEF PollInv, Asked
  <1>10. CASE UNCHANGED vars
    BY <1>3, <1>10 DEF vars, pvars
  <1>11. CASE \E f \in Fds : Readiness(f) /\ UNCHANGED <<ret, pvars, evars, type>>
    BY <1>3, <1>11 DEF pvars
  <1>12. CASE Initialize
    BY <1>3, <1>12 DEF Initialize, PollInitialize, pvars
  <1>13. CASE Close
    BY <1>3, <1>4, <1>13 DEF Close, pvars
  <1>14. CASE WaitForNextEvent
    BY <1>3, <1>8, <1>9, <1>14 DEF WaitForNextEvent, pvars
  <1>15. ASSUME NEW f \in Fds, Remove(f) PROVE PollInv'
    <2>1. CASE UNCHANGED fds
      BY <1>3, <2>1
    <2>2. CASE PollRemove(f) /\ fds' # fds
      <3>1. Found(f)
        BY <2>2 DEF PollRemove, PollRefuse, pvars
      <3>2. QED
        BY <1>6, <1>9, <2>2, <3>1
    <2>3. QED
      BY <1>15, <2>1, <2>2 DEF Remove, pvars
  <1>16. ASSUME NEW f \in Fds, NEW set \in Interests, Add(f, set) PROVE PollInv'
    BY <1>3, <1>5, <1>9, <1>16 DEF Add, PollAdd, PollRefuse, pvars
  <1>17. ASSUME NEW f \in Fds, NEW set \in Interests, ChangeEventSet(f, set) PROVE PollInv'
    BY <1>3, <1>7, <1>9, <1>17 DEF ChangeEventSet, PollChangeEventSet, PollRefuse, pvars
  <1>18. QED
    BY <1>10, <1>11, <1>12, <1>13, <1>14, <1>15, <1>16, <1>17 DEF Next

(* -------- CEpoll --------------------------------------------------------- *)

(* The buffer, seen as what is owed for every descriptor.                  *)
OwedAs(owed, buffer) ==
    /\ owed = [f \in Fds |-> owed[f]]
    /\ \A e \in buffer : e.fd \in Fds /\ owed[e.fd] = e.flags /\ e.flags # {}
                         /\ e = Event(e.fd, e.flags)
    /\ \A e, d \in buffer : e.fd = d.fd => e = d
    /\ \A f \in Fds : (\A e \in buffer : e.fd # f) => owed[f] = {}

LEMMA EpollView ==
    ASSUME NEW buffer,
           \A e \in buffer : e = Event(e.fd, e.flags) /\ e.fd \in Fds /\ e.flags # {},
           \A e, d \in buffer : e.fd = d.fd => e = d
    PROVE  OwedAs([f \in Fds |-> UNION {e.flags : e \in {x \in buffer : x.fd = f}}], buffer)
  <1> DEFINE owed == [f \in Fds |-> UNION {e.flags : e \in {x \in buffer : x.fd = f}}]
  <1>1. ASSUME NEW e \in buffer PROVE owed[e.fd] = e.flags
    <2>1. {x \in buffer : x.fd = e.fd} = {e}
      BY <1>1
    <2>2. UNION {x.flags : x \in {e}} = e.flags
      OBVIOUS
    <2>3. QED
      BY <1>1, <2>1, <2>2
  <1>2. ASSUME NEW f \in Fds, \A e \in buffer : e.fd # f PROVE owed[f] = {}
    <2>1. {x \in buffer : x.fd = f} = {}
      BY <1>2
    <2>2. UNION {x.flags : x \in {}} = {}
      OBVIOUS
    <2>3. QED
      BY <2>1, <2>2
  <1>3. owed = [f \in Fds |-> owed[f]]
    OBVIOUS
  <1> HIDE DEF owed
  <1>4. OwedAs(owed, buffer)
    BY <1>1, <1>2, <1>3 DEF OwedAs
  <1>5. QED
    BY <1>4 DEF owed

LEMMA EpollSeen == EpollInv => OwedAs(OwedByEpoll, events)
  BY EpollView DEF EpollInv, OwedByEpoll

LEMMA EpollSeenNext == EpollInv' => OwedAs(OwedByEpoll, events)'
  BY EpollSeen, PTL

LEMMA FetchedSeen ==
    /\ OwedAs(EpollContract!Fetched, EpollFetched)
    /\ \A e \in EpollFetched : e = Event(e.fd, e.flags) /\ e.fd \in Fds /\ e.flags # {}
    /\ \A e, d \in EpollFetched : e.fd = d.fd => e = d
  <1> DEFINE Got(f) == ready[f] \cap (interest[f] \cup AlwaysReported)
             Ready(f) == f \in Fds /\ interest[f] # NotWatched /\ Got(f) # {}
  <1>1. \A e \in EpollFetched : Ready(e.fd) /\ e = Event(e.fd, Got(e.fd)) /\ e.flags = Got(e.fd)
    BY DEF EpollFetched, Event
  <1>2. \A f \in Fds : Ready(f) => /\ Event(f, Got(f)) \in EpollFetched
                                   /\ Event(f, Got(f)).fd = f
    BY DEF EpollFetched, Event
  <1>3. \A f \in Fds : EpollContract!Fetched[f] =
                          IF interest[f] # NotWatched THEN Got(f) ELSE {}
    BY DEF EpollContract!Fetched, EpollContract!Watches
  <1>4. EpollContract!Fetched = [f \in Fds |-> EpollContract!Fetched[f]]
    BY DEF EpollContract!Fetched
  <1>5. \A f \in Fds : (\A e \in EpollFetched : e.fd # f) => EpollContract!Fetched[f] = {}
    BY <1>2, <1>3
  <1>6. /\ \A e \in EpollFetched : e = Event(e.fd, e.flags) /\ e.fd \in Fds /\ e.flags # {}
        /\ \A e, d \in EpollFetched : e.fd = d.fd => e = d
    BY <1>1
  <1>7. \A e \in EpollFetched : EpollContract!Fetched[e.fd] = e.flags
    BY <1>1, <1>3
  <1> HIDE DEF Got
  <1>8. QED
    BY <1>4, <1>5, <1>6, <1>7 DEF OwedAs

LEMMA EpollKept ==
    ASSUME EpollInv, [Next]_vars
    PROVE  EpollInv'
  <1>1. CASE UNCHANGED evars
    BY <1>1 DEF EpollInv, evars
  <1>2. CASE interest' = Unwatched /\ events' = {}
    BY <1>2 DEF EpollInv, Unwatched
  <1>3. ASSUME NEW f \in Fds, NEW set \in Interests \cup {NotWatched}, epollfd,
               interest' = [interest EXCEPT ![f] = set], UNCHANGED <<epollfd, events>>
        PROVE  EpollInv'
    BY <1>3 DEF EpollInv
  <1>4. ASSUME NEW buffer, Deliver(buffer), epollfd, UNCHANGED <<epollfd, interest>>,
               \A e \in buffer : e = Event(e.fd, e.flags) /\ e.fd \in Fds /\ e.flags # {},
               \A e, d \in buffer : e.fd = d.fd => e = d
        PROVE  EpollInv'
    BY <1>4 DEF EpollInv, Deliver
  <1>5. CASE EpollWait
    <2>1. CASE Deliver(events) /\ epollfd /\ UNCHANGED <<epollfd, interest>>
      BY <1>4, <2>1 DEF EpollInv
    <2>2. CASE Deliver(EpollFetched) /\ epollfd /\ UNCHANGED <<epollfd, interest>>
      BY <1>4, <2>2, FetchedSeen
    <2>3. QED
      BY <1>1, <1>5, <2>1, <2>2 DEF EpollWait, EpollRefuse
  <1>6. ASSUME NEW f \in Fds, NEW set \in Interests \cup {NotWatched}, NEW must,
               EpollCtl(f, must, set)
        PROVE  EpollInv'
    BY <1>1, <1>3, <1>6 DEF EpollCtl, EpollRefuse
  <1>7. CASE UNCHANGED vars
    BY <1>1, <1>7 DEF vars
  <1>8. CASE \E f \in Fds : Readiness(f) /\ UNCHANGED <<ret, pvars, evars, type>>
    BY <1>1, <1>8
  <1>9. CASE Initialize
    BY <1>1, <1>2, <1>9 DEF Initialize, EpollInitialize
  <1>10. CASE Close
    BY <1>1, <1>2, <1>10 DEF Close, EpollClose, EventsAfterClose
  <1>11. CASE WaitForNextEvent
    BY <1>1, <1>5, <1>11 DEF WaitForNextEvent
  <1>12. ASSUME NEW f \in Fds, Remove(f) PROVE EpollInv'
    BY <1>1, <1>6, <1>12 DEF Remove, EpollRemove
  <1>13. ASSUME NEW f \in Fds, NEW set \in Interests, Add(f, set) PROVE EpollInv'
    BY <1>1, <1>6, <1>13 DEF Add, EpollAdd
  <1>14. ASSUME NEW f \in Fds, NEW set \in Interests, ChangeEventSet(f, set) PROVE EpollInv'
    BY <1>1, <1>6, <1>14 DEF ChangeEventSet, EpollChangeEventSet
  <1>15. QED
    BY <1>7, <1>8, <1>9, <1>10, <1>11, <1>12, <1>13, <1>14 DEF Next

LEMMA EpollOpens ==
    ASSUME EpollInv, ~epollfd, EpollInitialize
    PROVE  EpollContract!COpen
  <1>1. UNCHANGED <<interest, events>>
    BY DEF EpollInitialize, EpollInv
  <1>2. UNCHANGED OwedByEpoll
    BY <1>1 DEF OwedByEpoll
  <1>3. QED
    BY <1>1, <1>2 DEF EpollInitialize, EpollContract!COpen, EpollContract!Result, Result

LEMMA NothingBuffered ==
    ASSUME NEW owed, OwedAs(owed, {})
    PROVE  owed = EpollContract!Nothing
  BY DEF OwedAs, EpollContract!Nothing

LEMMA EpollCloses ==
    ASSUME EpollInv', EpollClose
    PROVE  EpollContract!CClose
  <1>1. OwedAs(OwedByEpoll', {})
    BY EpollSeenNext DEF EpollClose, EventsAfterClose, OwedAs
  <1>2. OwedByEpoll' = EpollContract!Nothing
    BY <1>1, NothingBuffered
  <1>3. QED
    BY <1>2 DEF EpollClose, EpollContract!CClose, EpollContract!Result, Result, Unwatched

LEMMA EpollRefuses ==
    ASSUME NEW hr, hr \notin {"S_OK", "S_FALSE"}, EpollRefuse(hr)
    PROVE  EpollContract!Refuse
  <1>1. UNCHANGED <<epollfd, interest, OwedByEpoll>>
    BY DEF EpollRefuse, evars, OwedByEpoll
  <1>2. QED
    BY <1>1 DEF EpollRefuse, EpollContract!Refuse, Result

(* Remove leaves the event of the descriptor in the buffer.                *)
LEMMA EpollControls ==
    ASSUME EpollInv, type = "epoll", NEW f \in Fds
    PROVE  /\ \A set \in Interests :
                 /\ EpollAdd(f, set) => EpollContract!CAdd(f, set)
                 /\ EpollChangeEventSet(f, set) => EpollContract!CChange(f, set)
           /\ EpollRemove(f) => EpollContract!CRemove(f)
  <1> DEFINE Done(new) == /\ epollfd
                          /\ interest' = [interest EXCEPT ![f] = new]
                          /\ ret' = Result("S_OK")
                          /\ UNCHANGED <<epollfd, OwedByEpoll>>
             Seen == interest[f] # NotWatched
  <1>1. EpollRefuse("E_UNEXPECTED") \/ EpollRefuse("E_ERRNO") => EpollContract!Refuse
    BY EpollRefuses
  <1>2. ASSUME NEW new, EpollCtl(f, TRUE, new)
        PROVE  (~(epollfd /\ Seen) /\ EpollContract!Refuse) \/ (Seen /\ Done(new))
    <2>1. CASE ~epollfd /\ EpollRefuse("E_UNEXPECTED")
      BY <1>1, <2>1
    <2>2. CASE (Seen # TRUE) /\ EpollRefuse("E_ERRNO")
      BY <1>1, <2>2
    <2>3. CASE /\ epollfd /\ (Seen = TRUE)
               /\ interest' = [interest EXCEPT ![f] = new]
               /\ ret' = Result("S_OK") /\ UNCHANGED <<epollfd, events>>
      BY <2>3 DEF OwedByEpoll
    <2>4. QED
      BY <1>2, <2>1, <2>2, <2>3 DEF EpollCtl
  <1>3. ASSUME NEW new, EpollCtl(f, FALSE, new)
        PROVE  (~(epollfd /\ ~Seen) /\ EpollContract!Refuse) \/ (~Seen /\ Done(new))
    <2>1. CASE ~epollfd /\ EpollRefuse("E_UNEXPECTED")
      BY <1>1, <2>1
    <2>2. CASE (Seen # FALSE) /\ EpollRefuse("E_ERRNO")
      BY <1>1, <2>2
    <2>3. CASE /\ epollfd /\ (Seen = FALSE)
               /\ interest' = [interest EXCEPT ![f] = new]
               /\ ret' = Result("S_OK") /\ UNCHANGED <<epollfd, events>>
      BY <2>3 DEF OwedByEpoll
    <2>4. QED
      BY <1>3, <2>1, <2>2, <2>3 DEF EpollCtl
  <1>4. \A set \in Interests : EpollAdd(f, set) => EpollContract!CAdd(f, set)
    BY <1>3 DEF EpollAdd, EpollContract!CAdd, EpollContract!Watches,
                EpollContract!Result, Result
  <1>5. \A set \in Interests : EpollChangeEventSet(f, set) => EpollContract!CChange(f, set)
    BY <1>2 DEF EpollChangeEventSet, EpollContract!CChange, EpollContract!Watches,
                EpollContract!Result, Result
  <1>6. EpollRemove(f) => EpollContract!CRemove(f)
    BY <1>2 DEF EpollRemove, EpollContract!CRemove, EpollContract!Watches,
                EpollContract!Result, Result
  <1>7. QED
    BY <1>4, <1>5, <1>6

LEMMA EpollReports ==
    ASSUME EpollInv', NEW all, NEW buffer, OwedAs(all, buffer), Deliver(buffer)
    PROVE  EpollContract!Report(all)
  <1>1. PICK e \in buffer : ret' = e /\ events' = buffer \ {e}
    BY DEF Deliver
  <1> DEFINE f == e.fd
  <1>2. /\ f \in Fds /\ all[f] = e.flags /\ all[f] # {} /\ e = Event(f, all[f])
        /\ all = [g \in Fds |-> all[g]]
    BY DEF OwedAs
  <1>3. OwedAs(OwedByEpoll', events')
    BY EpollSeenNext DEF OwedAs
  <1>4. OwedByEpoll'[f] = {}
    BY <1>1, <1>2, <1>3 DEF OwedAs
  <1>5. ASSUME NEW g \in Fds, g # f PROVE OwedByEpoll'[g] = all[g]
    <2>1. CASE \E d \in buffer : d.fd = g
      <3>1. PICK d \in buffer : d.fd = g
        BY <2>1
      <3>2. d \in events'
        BY <1>1, <1>5, <3>1
      <3>3. QED
        BY <1>3, <3>1, <3>2 DEF OwedAs
    <2>2. CASE \A d \in buffer : d.fd # g
      BY <1>1, <1>3, <2>2 DEF OwedAs
    <2>3. QED
      BY <2>1, <2>2
  <1>6. OwedByEpoll' = [all EXCEPT ![f] = {}]
    BY <1>2, <1>3, <1>4, <1>5 DEF OwedAs
  <1>7. QED
    BY <1>1, <1>2, <1>6 DEF EpollContract!Report, EpollContract!Event, Event

LEMMA EpollWaits ==
    ASSUME EpollInv, EpollInv', EpollWait
    PROVE  EpollContract!CWait
  <1>1. CASE ~epollfd /\ EpollRefuse("E_UNEXPECTED")
    BY <1>1, EpollRefuses DEF EpollContract!CWait
  <1>2. CASE epollfd /\ Deliver(events) /\ UNCHANGED <<epollfd, interest>>
    <2>1. EpollContract!Report(OwedByEpoll)
      BY <1>2, EpollSeen, EpollReports
    <2>2. OwedByEpoll # EpollContract!Nothing
      BY <2>1 DEF EpollContract!Report, EpollContract!Nothing
    <2>3. QED
      BY <1>2, <2>1, <2>2 DEF EpollContract!CWait
  <1>3. events = {} => OwedByEpoll = EpollContract!Nothing
    BY EpollSeen, NothingBuffered
  <1>4. CASE epollfd /\ events = {} /\ Deliver(EpollFetched) /\ UNCHANGED <<epollfd, interest>>
    <2>1. EpollContract!Report(EpollContract!Fetched)
      BY <1>4, FetchedSeen, EpollReports
    <2>2. QED
      BY <1>3, <1>4, <2>1 DEF EpollContract!CWait
  <1>5. CASE epollfd /\ events = {} /\ EpollFetched = {} /\ EpollRefuse("S_FALSE")
    <2>1. EpollContract!Fetched = EpollContract!Nothing
      BY <1>5, FetchedSeen, NothingBuffered
    <2>2. UNCHANGED <<epollfd, interest, OwedByEpoll>>
      BY <1>5 DEF EpollRefuse, evars, OwedByEpoll
    <2>3. QED
      BY <1>3, <1>5, <2>1, <2>2 DEF EpollRefuse, EpollContract!CWait,
                                    EpollContract!Result, Result
  <1>6. CASE epollfd /\ events = {} /\ EpollRefuse("E_ERRNO")
    BY <1>3, <1>6, EpollRefuses DEF EpollContract!CWait
  <1>7. QED
    BY <1>1, <1>2, <1>4, <1>5, <1>6 DEF EpollWait

(* -------- an object of either type ------------------------------------ *)

LEMMA PollIsContract ==
    ASSUME type = "poll", UNCHANGED type
    PROVE  /\ PollContract!COpen => Contract!COpen
           /\ PollContract!CClose => Contract!CClose
           /\ PollContract!CWait => Contract!CWait
           /\ \A f \in Fds : PollContract!CRemove(f) => Contract!CRemove(f)
           /\ \A f \in Fds, set \in Interests :
                 /\ PollContract!CAdd(f, set) => Contract!CAdd(f, set)
                 /\ PollContract!CChange(f, set) => Contract!CChange(f, set)
  <1>1. /\ Works = fInitialized /\ WatchedFor = WatchedByPoll /\ Owed = OwedByPoll
        /\ Works' = fInitialized' /\ WatchedFor' = WatchedByPoll' /\ Owed' = OwedByPoll'
    BY DEF Works, WatchedFor, Owed
  <1>2. PollContract!Refuse => Contract!Refuse
    BY <1>1 DEF PollContract!Refuse, Contract!Refuse
  <1>3. PollContract!COpen => Contract!COpen
    BY <1>1 DEF PollContract!COpen, Contract!COpen, PollContract!Result, Contract!Result
  <1>4. PollContract!CClose => Contract!CClose
    BY <1>1 DEF PollContract!CClose, Contract!CClose, PollContract!Nothing,
            Contract!Nothing, PollContract!Result, Contract!Result
  <1>5. ASSUME NEW all, PollContract!Report(all) PROVE Contract!Report(all)
    BY <1>1, <1>5 DEF PollContract!Report, Contract!Report, PollContract!Event, Contract!Event
  <1>6. PollContract!Fetched = Contract!Fetched /\ PollContract!Nothing = Contract!Nothing
    BY <1>1 DEF PollContract!Fetched, Contract!Fetched, PollContract!Nothing,
            Contract!Nothing, PollContract!Watches, Contract!Watches
  <1>7. PollContract!CWait => Contract!CWait
    BY <1>1, <1>2, <1>5, <1>6 DEF PollContract!CWait, Contract!CWait, PollContract!Result, Contract!Result
  <1>8. ASSUME NEW f \in Fds
        PROVE  PollContract!CRemove(f) => Contract!CRemove(f)
    BY <1>1, <1>2 DEF PollContract!CRemove, Contract!CRemove, PollContract!Watches,
            Contract!Watches, PollContract!Result, Contract!Result
  <1>9. ASSUME NEW f \in Fds, NEW set \in Interests
        PROVE  /\ PollContract!CAdd(f, set) => Contract!CAdd(f, set)
               /\ PollContract!CChange(f, set) => Contract!CChange(f, set)
    BY <1>1, <1>2 DEF PollContract!CAdd, Contract!CAdd, PollContract!CChange, Contract!CChange,
            PollContract!Watches, Contract!Watches, PollContract!Result, Contract!Result
  <1>10. QED
    BY <1>3, <1>4, <1>7, <1>8, <1>9

LEMMA EpollIsContract ==
    ASSUME type = "epoll", UNCHANGED type
    PROVE  /\ EpollContract!COpen => Contract!COpen
           /\ EpollContract!CClose => Contract!CClose
           /\ EpollContract!CWait => Contract!CWait
           /\ \A f \in Fds : EpollContract!CRemove(f) => Contract!CRemove(f)
           /\ \A f \in Fds, set \in Interests :
                 /\ EpollContract!CAdd(f, set) => Contract!CAdd(f, set)
                 /\ EpollContract!CChange(f, set) => Contract!CChange(f, set)
  <1>1. /\ Works = epollfd /\ WatchedFor = interest /\ Owed = OwedByEpoll
        /\ Works' = epollfd' /\ WatchedFor' = interest' /\ Owed' = OwedByEpoll'
    BY DEF Works, WatchedFor, Owed
  <1>2. EpollContract!Refuse => Contract!Refuse
    BY <1>1 DEF EpollContract!Refuse, Contract!Refuse
  <1>3. EpollContract!COpen => Contract!COpen
    BY <1>1 DEF EpollContract!COpen, Contract!COpen, EpollContract!Result, Contract!Result
  <1>4. EpollContract!CClose => Contract!CClose
    BY <1>1 DEF EpollContract!CClose, Contract!CClose, EpollContract!Nothing,
            Contract!Nothing, EpollContract!Result, Contract!Result
  <1>5. ASSUME NEW all, EpollContract!Report(all) PROVE Contract!Report(all)
    BY <1>1, <1>5 DEF EpollContract!Report, Contract!Report, EpollContract!Event, Contract!Event
  <1>6. EpollContract!Fetched = Contract!Fetched /\ EpollContract!Nothing = Contract!Nothing
    BY <1>1 DEF EpollContract!Fetched, Contract!Fetched, EpollContract!Nothing,
            Contract!Nothing, EpollContract!Watches, Contract!Watches
  <1>7. EpollContract!CWait => Contract!CWait
    BY <1>1, <1>2, <1>5, <1>6 DEF EpollContract!CWait, Contract!CWait, EpollContract!Result, Contract!Result
  <1>8. ASSUME NEW f \in Fds
        PROVE  EpollContract!CRemove(f) => Contract!CRemove(f)
    BY <1>1, <1>2 DEF EpollContract!CRemove, Contract!CRemove, EpollContract!Watches,
            Contract!Watches, EpollContract!Result, Contract!Result
  <1>9. ASSUME NEW f \in Fds, NEW set \in Interests
        PROVE  /\ EpollContract!CAdd(f, set) => Contract!CAdd(f, set)
               /\ EpollContract!CChange(f, set) => Contract!CChange(f, set)
    BY <1>1, <1>2 DEF EpollContract!CAdd, Contract!CAdd, EpollContract!CChange, Contract!CChange,
            EpollContract!Watches, Contract!Watches, EpollContract!Result, Contract!Result
  <1>10. QED
    BY <1>3, <1>4, <1>7, <1>8, <1>9

LEMMA InitRefinement == Init => RInv /\ Contract!CInit
  <1> SUFFICES ASSUME Init PROVE RInv /\ Contract!CInit
    OBVIOUS
  <1>1. /\ fds = <<>> /\ interest = Unwatched /\ events = {} /\ ret = Result("none")
        /\ type \in {"poll", "epoll"} /\ ~fInitialized /\ ~epollfd
    BY DEF Init, PollInit, EpollInit, CreatePollingInstance
  <1>2. RInv
    BY <1>1, InitInvariant DEF RInv, PollInv, EpollInv, Unwatched
  <1>3. ~Works
    BY <1>1 DEF Works
  <1>4. WatchedByPoll = Unwatched /\ OwedByPoll = [f \in Fds |-> {}]
    BY <1>1 DEF WatchedByPoll, OwedByPoll, WatchedSlots, Unwatched
  <1>5. OwedByEpoll = [f \in Fds |-> {}]
    BY <1>1, <1>2, EpollSeen DEF OwedAs, RInv
  <1>6. WatchedFor = [f \in Fds |-> NotWatched] /\ Owed = [f \in Fds |-> {}]
    BY <1>1, <1>4, <1>5 DEF WatchedFor, Owed, Unwatched
  <1>7. QED
    BY <1>1, <1>2, <1>3, <1>6 DEF Contract!CInit, Contract!Nothing, Contract!Result, Result

LEMMA StepKept == RInv /\ [Next]_vars => RInv'
  <1> SUFFICES ASSUME RInv, [Next]_vars PROVE RInv'
    OBVIOUS
  <1>1. PollInv' /\ EpollInv'
    BY InterestsKept, EpollKept DEF RInv
  <1>2. type' = type
    BY DEF Next, vars
  <1>3. QED
    BY <1>1, <1>2 DEF RInv

LEMMA StepRefinement ==
    RInv /\ RInv' /\ [Next]_vars =>
        [Contract!CNext]_<<type, Works, WatchedFor, Owed, ready, ret>>
  <1> SUFFICES ASSUME RInv, RInv', [Next]_vars
               PROVE  [Contract!CNext]_<<type, Works, WatchedFor, Owed, ready, ret>>
    OBVIOUS
  <1>1. PollInv /\ PollInv' /\ EpollInv /\ EpollInv' /\ UNCHANGED type
    BY DEF RInv, Next, vars
  <1>2. CASE UNCHANGED <<ret, pvars, evars>>
    <2>1. UNCHANGED <<WatchedByPoll, OwedByPoll, OwedByEpoll, fInitialized, epollfd, interest>>
      BY <1>2, PollUnchanged DEF evars, OwedByEpoll
    <2>2. UNCHANGED <<Works, WatchedFor, Owed>>
      BY <1>1, <2>1 DEF Works, WatchedFor, Owed
    <2>3. QED
      BY <1>2, <2>2 DEF Contract!CNext
  <1>3. CASE Initialize /\ UNCHANGED <<ready, type>>
    <2>1. Contract!COpen
      BY <1>1, <1>3, PollOpens, EpollOpens, PollIsContract, EpollIsContract DEF Initialize
    <2>2. QED
      BY <1>3, <2>1 DEF Contract!CNext
  <1>4. CASE Close /\ UNCHANGED <<ready, type>>
    <2>1. Contract!CClose
      BY <1>1, <1>4, PollCloses, EpollCloses, PollIsContract, EpollIsContract DEF Close
    <2>2. QED
      BY <1>4, <2>1 DEF Contract!CNext
  <1>5. CASE WaitForNextEvent /\ UNCHANGED <<ready, type>>
    <2>1. Contract!CWait
      BY <1>1, <1>5, PollWaits, EpollWaits, PollIsContract, EpollIsContract
         DEF WaitForNextEvent
    <2>2. QED
      BY <1>5, <2>1 DEF Contract!CNext
  <1>6. ASSUME NEW f \in Fds, Remove(f), UNCHANGED <<ready, type>>
        PROVE  Contract!CNext
    <2>1. Contract!CRemove(f)
      BY <1>1, <1>6, PollRemoves, EpollControls, PollIsContract, EpollIsContract DEF Remove
    <2>2. QED
      BY <1>6, <2>1 DEF Contract!CNext
  <1>7. ASSUME NEW f \in Fds, NEW set \in Interests, Add(f, set), UNCHANGED <<ready, type>>
        PROVE  Contract!CNext
    <2>1. Contract!CAdd(f, set)
      BY <1>1, <1>7, PollAdds, EpollControls, PollIsContract, EpollIsContract DEF Add
    <2>2. QED
      BY <1>7, <2>1 DEF Contract!CNext
  <1>8. ASSUME NEW f \in Fds, NEW set \in Interests, ChangeEventSet(f, set),
               UNCHANGED <<ready, type>>
        PROVE  Contract!CNext
    <2>1. Contract!CChange(f, set)
      BY <1>1, <1>8, PollChanges, EpollControls, PollIsContract, EpollIsContract
         DEF ChangeEventSet
    <2>2. QED
      BY <1>8, <2>1 DEF Contract!CNext
  <1>9. QED
    BY <1>2, <1>3, <1>4, <1>5, <1>6, <1>7, <1>8 DEF Next, vars

(* CPoll and CEpoll keep the contract of IPolling for any number of        *)
(* descriptors: each event a poll or epoll_wait fetched is reported once   *)
(* and unaltered before the next system call fetches more, and no call     *)
(* touches another descriptor than its own.  CPoll forgets the event of a  *)
(* removed descriptor, CEpoll reports it.                                  *)
THEOREM ContractTheorem == Spec => ImplementsContract
  <1>1. Contract!CSpec <=>
          Contract!CInit /\ [][Contract!CNext]_<<type, Works, WatchedFor, Owed, ready, ret>>
    BY DEF Contract!CSpec
  <1>2. QED
    BY <1>1, InitRefinement, StepKept, StepRefinement, PTL DEF Spec, ImplementsContract
=============================================================================
