------------------------- MODULE RateLimiterProofs -------------------------
(***************************************************************************)
(* Proofs about the rate limiter for any number of threads, addresses and  *)
(* nodes, any rate and penalty, and a clock that may be set back.          *)
(*                                                                         *)
(* Everything rests on the mutex: at most one thread is inside RateCheck,  *)
(* because there is one thread or because it holds the mutex.              *)
(***************************************************************************)
EXTENDS RateHistory, FiniteSetTheorems, TLAPS

(* What a thread knows inside RateCheck.                                   *)
Locals ==
    \A t \in Threads : pc[t] # "idle" =>
        /\ addr[t] \in Addrs
        /\ pc[t] = "update" => currentTime[t] \in 1..MaxTime

MutexHeld ==
    isUsingLock => \A t \in Threads : pc[t] # "idle" => mutex = t

(* No address has two records.                                             *)
Unique ==
    \A m, n \in Nodes :
        table[m] # None /\ table[n] # None /\ table[m].addr = table[n].addr => m = n

(* The record a thread is about to count in can be counted in.             *)
RoomToCount ==
    \A t \in Threads : pc[t] # "idle" =>
        \A n \in NodesOf(addr[t]) : table[n].count < MaxCount

IInv ==
    /\ TypeOK
    /\ Locals
    /\ MutexHeld
    /\ Unique
    /\ RoomToCount
    /\ PointerIsCurrent

-----------------------------------------------------------------------------

LEMMA OneThread ==
    ASSUME ~isUsingLock, NEW s \in Threads, NEW t \in Threads
    PROVE  s = t
  <1>1. IsFiniteSet(Threads) /\ Cardinality(Threads) \in Nat
    BY RateAssumption, FS_CardinalityType DEF RateAssumption
  <1>2. Cardinality(Threads) = 0 \/ Cardinality(Threads) = 1
    BY <1>1 DEF isUsingLock
  <1>3. Cardinality(Threads) # 0
    BY <1>1, FS_EmptySet
  <1>4. PICK x : Threads = {x}
    BY <1>1, <1>2, <1>3, FS_Singleton
  <1>5. QED
    BY <1>4

(* At most one thread is inside RateCheck.                                 *)
LEMMA OthersIdle ==
    ASSUME MutexHeld, NEW s \in Threads, NEW t \in Threads,
           pc[s] # "idle", pc[t] # "idle"
    PROVE  s = t
  BY OneThread DEF MutexHeld

(* When a thread enters RateCheck nobody is inside.                        *)
LEMMA EnterAlone ==
    ASSUME IInv, NEW t \in Threads, NEW a \in Addrs, RateCheck(t, a)
    PROVE  \A s \in Threads : pc[s] = "idle"
  <1> SUFFICES ASSUME NEW s \in Threads, pc[s] # "idle" PROVE FALSE
    OBVIOUS
  <1>1. CASE isUsingLock
    BY <1>1, RateAssumption DEF IInv, MutexHeld, RateCheck, Lock, RateAssumption
  <1>2. CASE ~isUsingLock
    BY <1>2, OneThread DEF RateCheck
  <1>3. QED
    BY <1>1, <1>2

LEMMA InitInvariant == Init => IInv
  <1> SUFFICES ASSUME Init PROVE IInv
    OBVIOUS
  <1>1. TypeOK
    BY RateAssumption DEF Init, TypeOK, RateAssumption
  <1>2. Locals /\ MutexHeld /\ RoomToCount /\ PointerIsCurrent
    BY DEF Init, Locals, MutexHeld, RoomToCount, PointerIsCurrent
  <1>3. Unique
    BY DEF Init, Unique
  <1>4. QED
    BY <1>1, <1>2, <1>3 DEF IInv

LEMMA StepRateCheck ==
    ASSUME IInv, NEW t \in Threads, NEW a \in Addrs, RateCheck(t, a)
    PROVE  IInv'
  <1> USE DEF RateCheck
  <1>1. TypeOK'
    BY DEF IInv, TypeOK, Lock
  <1>2. \A s \in Threads : s # t => pc'[s] = "idle"
    BY EnterAlone DEF IInv, TypeOK
  <1>3. pc'[t] = "lookup" /\ addr'[t] = a
    BY DEF IInv, TypeOK
  <1>4. Locals'
    BY <1>2, <1>3 DEF Locals
  <1>5. MutexHeld'
    BY <1>2 DEF MutexHeld, Lock, isUsingLock
  <1>6. Unique'
    BY DEF IInv, Unique, Nodes
  <1>7. RoomToCount'
    BY <1>2, <1>3 DEF RoomToCount, NodesOf, Nodes
  <1>8. PointerIsCurrent'
    BY <1>2, <1>3 DEF PointerIsCurrent
  <1>9. QED
    BY <1>1, <1>4, <1>5, <1>6, <1>7, <1>8 DEF IInv

LEMMA StepLookup ==
    ASSUME IInv, NEW t \in Threads, Lookup(t)
    PROVE  IInv'
  <1> USE DEF Lookup
  <1>1. TypeOK'
    BY DEF IInv, TypeOK, NodesOf
  <1>2. \A s \in Threads : s # t => pc[s] = "idle" /\ pc'[s] = "idle"
    BY OthersIdle DEF IInv, TypeOK
  <1>3. pc[t] = "lookup" /\ pc'[t] = "update" /\ addr' = addr /\ currentTime'[t] = now
    BY DEF IInv, TypeOK
  <1>4. Locals'
    BY <1>2, <1>3 DEF IInv, Locals, TypeOK
  <1>5. MutexHeld'
    BY <1>2, <1>3 DEF IInv, MutexHeld, isUsingLock
  <1>6. Unique'
    BY DEF IInv, Unique, Nodes
  <1>7. RoomToCount'
    BY <1>2, <1>3 DEF IInv, RoomToCount, NodesOf, Nodes
  <1>8. PointerIsCurrent'
    <2>1. NodesOf(addr[t])' = NodesOf(addr[t])
      BY <1>3 DEF NodesOf, Nodes
    <2>2. CASE NodesOf(addr[t]) = {}
      <3>1. pRT'[t] = None
        BY <2>2 DEF IInv, TypeOK
      <3>2. QED
        BY <1>2, <1>3, <2>1, <2>2, <3>1 DEF PointerIsCurrent
    <2>3. CASE NodesOf(addr[t]) # {}
      <3>1. PICK n \in NodesOf(addr[t]) : pRT'[t] = n
        BY <2>3 DEF IInv, TypeOK
      <3>2. NodesOf(addr[t]) = {n}
        BY <3>1 DEF IInv, Unique, NodesOf
      <3>3. n # None
        BY <3>1, RateAssumption DEF RateAssumption, NodesOf, Nodes
      <3>4. QED
        BY <1>2, <1>3, <2>1, <3>1, <3>2, <3>3 DEF PointerIsCurrent
    <2>4. QED
      BY <2>2, <2>3
  <1>9. QED
    BY <1>1, <1>4, <1>5, <1>6, <1>7, <1>8 DEF IInv

-----------------------------------------------------------------------------

(* The thread that returns was the only one inside.                        *)
LEMMA NobodyInside ==
    ASSUME IInv, NEW t \in Threads, pc[t] = "update", NEW answer, Return(t, answer)
    PROVE  /\ \A s \in Threads : pc'[s] = "idle"
           /\ Locals' /\ MutexHeld' /\ RoomToCount' /\ PointerIsCurrent'
  <1>1. \A s \in Threads : s # t => pc[s] = "idle"
    BY OthersIdle DEF IInv
  <1>2. \A s \in Threads : pc'[s] = "idle"
    BY <1>1 DEF Return, IInv, TypeOK
  <1>3. QED
    BY <1>2 DEF Locals, MutexHeld, RoomToCount, PointerIsCurrent

(* The locals keep their types when a thread returns.                      *)
LEMMA ReturnTypes ==
    ASSUME TypeOK, NEW t \in Threads, NEW answer \in BOOLEAN, Return(t, answer),
           table' \in [Nodes -> Tracker \cup {None}]
    PROVE  TypeOK'
  <1>1. verdict' \in [Threads -> BOOLEAN \cup {None}]
    <2>1. verdict \in [Threads -> BOOLEAN \cup {None}]
      BY DEF TypeOK
    <2>2. verdict' = [verdict EXCEPT ![t] = answer]
      BY DEF Return
    <2>3. QED
      BY <2>1, <2>2, Zenon
  <1>2. mutex' \in Threads \cup {None}
    BY DEF TypeOK, Return
  <1>3. now' \in 1..MaxTime /\ currentTime' \in [Threads -> 0..MaxTime]
    BY RateAssumption DEF TypeOK, Return, RateAssumption
  <1>4. /\ pc' \in [Threads -> {"idle", "lookup", "update"}]
        /\ addr' \in [Threads -> Addrs \cup {None}]
        /\ pRT' \in [Threads -> Nodes \cup {None}]
    BY DEF TypeOK, Return
  <1>5. QED
    BY <1>1, <1>2, <1>3, <1>4 DEF TypeOK

LEMMA StepInsertNew ==
    ASSUME IInv, NEW t \in Threads, InsertNew(t)
    PROVE  IInv'
  <1>1. pc[t] = "update" /\ pRT[t] = None /\ Return(t, TRUE)
    BY DEF InsertNew
  <1>2. NodesOf(addr[t]) = {}
    BY <1>1 DEF IInv, PointerIsCurrent
  <1>3. NewTracker(t) \in Tracker /\ NewTracker(t).addr = addr[t]
    <2>1. addr[t] \in Addrs /\ currentTime[t] \in 1..MaxTime
      BY <1>1 DEF IInv, Locals
    <2>2. 1 \in 1..MaxCount /\ 0 \in 0..(MaxTime + PenaltyTime)
      BY RateAssumption DEF RateAssumption
    <2>3. QED
      BY <2>1, <2>2 DEF NewTracker, Tracker
  <1>4. table \in [Nodes -> Tracker \cup {None}]
    BY DEF IInv, TypeOK
  <1>5. PICK n \in Nodes : \/ table' = [table EXCEPT ![n] = NewTracker(t)]
                           \/ table' = [[m \in Nodes |-> None] EXCEPT ![n] = NewTracker(t)]
    BY DEF InsertNew, FreeNodes
  <1>6. /\ table' \in [Nodes -> Tracker \cup {None}]
        /\ table'[n] = NewTracker(t)
        /\ \A m \in Nodes : m # n => table'[m] \in {table[m], None}
    BY <1>3, <1>4, <1>5
  <1>7. TypeOK'
    BY <1>1, <1>6, ReturnTypes DEF IInv
  <1>8. Unique'
    <2>1. \A m \in Nodes : m # n /\ table'[m] # None
                              => table'[m] = table[m] /\ table'[m].addr # addr[t]
      BY <1>2, <1>6 DEF NodesOf
    <2>2. QED
      BY <1>3, <1>6, <2>1 DEF IInv, Unique, Nodes
  <1>9. QED
    BY <1>1, <1>7, <1>8, NobodyInside DEF IInv

(* What Update leaves in the node of its record: the record counted once   *)
(* more, with some penalty, or nothing.                                    *)
LEMMA UpdateStores ==
    ASSUME IInv, NEW t \in Threads, Update(t)
    PROVE  /\ pc[t] = "update"
           /\ pRT[t] \in Nodes
           /\ NodesOf(addr[t]) = {pRT[t]}
           /\ table[pRT[t]] \in Tracker
           /\ table[pRT[t]].addr = addr[t]
           /\ Counted(t) \in Tracker
           /\ Counted(t).addr = addr[t]
           /\ Counted(t).penalty = table[pRT[t]].penalty
           /\ currentTime[t] \in 1..MaxTime
  <1>1. pc[t] = "update" /\ pRT[t] # None
    BY DEF Update
  <1>2. NodesOf(addr[t]) = {pRT[t]}
    BY <1>1 DEF IInv, PointerIsCurrent
  <1>3. pRT[t] \in Nodes /\ table[pRT[t]] # None /\ table[pRT[t]].addr = addr[t]
    BY <1>2 DEF NodesOf
  <1>4. table[pRT[t]] \in Tracker
    BY <1>3 DEF IInv, TypeOK
  <1>5. table[pRT[t]].count < MaxCount
    BY <1>1, <1>2 DEF IInv, RoomToCount
  <1>6. currentTime[t] \in 1..MaxTime
    BY <1>1 DEF IInv, Locals
  <1>7. table[pRT[t]].count + 1 \in 1..MaxCount
    BY <1>4, <1>5, RateAssumption DEF Tracker, RateAssumption
  <1>8. Counted(t) \in Tracker
    BY <1>4, <1>6, <1>7 DEF Counted, Tracker
  <1>9. Counted(t).addr = addr[t] /\ Counted(t).penalty = table[pRT[t]].penalty
    BY <1>3, <1>4 DEF Counted, Tracker
  <1>10. QED
    BY <1>1, <1>2, <1>3, <1>4, <1>6, <1>8, <1>9

(* The five ways out of Update: kept in the penalty box, let out, sent     *)
(* there, forgotten, just counted.                                         *)
Outcome(t, rt, answer) ==
    LET before == table[pRT[t]].penalty
        time   == currentTime[t]
    IN  \/ /\ answer = FALSE /\ before >= time
           /\ rt \in Tracker /\ rt.addr = addr[t] /\ rt.penalty = before
        \/ /\ answer = FALSE /\ before < time
           /\ rt \in Tracker /\ rt.addr = addr[t] /\ rt.penalty = time + PenaltyTime
        \/ /\ answer = TRUE /\ before < time
           /\ rt = None \/ (rt \in Tracker /\ rt.addr = addr[t] /\ rt.penalty = 0)

LEMMA UpdateOutcome ==
    ASSUME IInv, NEW t \in Threads, Update(t)
    PROVE  \E rt \in Tracker \cup {None}, answer \in BOOLEAN :
              Store(t, rt) /\ Return(t, answer) /\ Outcome(t, rt, answer)
  <1> DEFINE rt == Counted(t)
             time == currentTime[t]
  <1>1. /\ rt \in Tracker /\ rt.addr = addr[t]
        /\ rt.penalty = table[pRT[t]].penalty
        /\ time \in 1..MaxTime
    BY UpdateStores
  <1>2. rt.penalty \in Nat /\ time + PenaltyTime \in 0..(MaxTime + PenaltyTime)
    BY <1>1, RateAssumption DEF Tracker, RateAssumption
  <1>3. /\ [rt EXCEPT !.penalty = time + PenaltyTime] \in Tracker
        /\ [rt EXCEPT !.penalty = time + PenaltyTime].addr = addr[t]
        /\ [rt EXCEPT !.penalty = time + PenaltyTime].penalty = time + PenaltyTime
    BY <1>1, <1>2 DEF Tracker
  <1>4. /\ [rt EXCEPT !.penalty = 0] \in Tracker
        /\ [rt EXCEPT !.penalty = 0].addr = addr[t]
        /\ [rt EXCEPT !.penalty = 0].penalty = 0
    BY <1>1, RateAssumption DEF Tracker, RateAssumption
  <1> HIDE DEF rt, time
  <1>5. CASE /\ rt.penalty # 0 /\ StillInPenalty(rt, time)
             /\ Store(t, rt) /\ Return(t, FALSE)
    BY <1>1, <1>2, <1>5 DEF StillInPenalty, Outcome, time
  <1>6. CASE /\ rt.penalty # 0 /\ ~StillInPenalty(rt, time)
             /\ Store(t, [rt EXCEPT !.penalty = 0]) /\ Return(t, TRUE)
    <2>1. rt.penalty < time
      BY <1>1, <1>2, <1>6 DEF StillInPenalty
    <2>2. Outcome(t, [rt EXCEPT !.penalty = 0], TRUE)
      BY <1>1, <1>4, <2>1 DEF Outcome, time
    <2>3. QED
      BY <1>4, <1>6, <2>2
  <1>7. CASE /\ (rt.penalty # 0 /\ ~StillInPenalty(rt, time)) \/ rt.penalty = 0
             /\ Store(t, [rt EXCEPT !.penalty = time + PenaltyTime])
             /\ Return(t, FALSE)
    <2>1. rt.penalty < time
      BY <1>1, <1>2, <1>7 DEF StillInPenalty
    <2>2. Outcome(t, [rt EXCEPT !.penalty = time + PenaltyTime], FALSE)
      BY <1>1, <1>3, <2>1 DEF Outcome, time
    <2>3. QED
      BY <1>3, <1>7, <2>2
  <1>8. CASE /\ rt.penalty = 0
             /\ Store(t, None) \/ Store(t, rt)
             /\ Return(t, TRUE)
    <2>1. table[pRT[t]].penalty < currentTime[t]
      <3>1. table[pRT[t]].penalty = 0 /\ currentTime[t] \in 1..MaxTime
        BY <1>1, <1>8 DEF time
      <3>2. QED
        BY <3>1, RateAssumption DEF RateAssumption
    <2>2. Outcome(t, None, TRUE) /\ Outcome(t, rt, TRUE)
      BY <1>1, <1>8, <2>1 DEF Outcome
    <2>3. QED
      BY <1>1, <1>8, <2>2
  <1>9. QED
    BY <1>5, <1>6, <1>7, <1>8 DEF Update, Penalised, Unpenalised, rt, time

LEMMA StepUpdate ==
    ASSUME IInv, NEW t \in Threads, Update(t)
    PROVE  IInv'
  <1>1. PICK rt \in Tracker \cup {None}, answer \in BOOLEAN :
               Store(t, rt) /\ Return(t, answer) /\ Outcome(t, rt, answer)
    BY UpdateOutcome
  <1>2. pc[t] = "update" /\ pRT[t] \in Nodes /\ NodesOf(addr[t]) = {pRT[t]}
    BY UpdateStores
  <1>3. table \in [Nodes -> Tracker \cup {None}]
    BY DEF IInv, TypeOK
  <1>4. /\ table' \in [Nodes -> Tracker \cup {None}]
        /\ table'[pRT[t]] = rt
        /\ \A m \in Nodes : m # pRT[t] => table'[m] = table[m]
    BY <1>1, <1>2, <1>3 DEF Store
  <1>5. TypeOK'
    BY <1>1, <1>4, ReturnTypes DEF IInv
  <1>6. Unique'
    <2>1. rt = None \/ rt.addr = addr[t]
      BY <1>1 DEF Outcome
    <2>2. \A m \in Nodes : m # pRT[t] /\ table[m] # None => table[m].addr # addr[t]
      BY <1>2 DEF NodesOf
    <2>3. QED
      BY <1>2, <1>4, <2>1, <2>2 DEF IInv, Unique, Nodes
  <1>7. QED
    BY <1>1, <1>2, <1>5, <1>6, NobodyInside DEF IInv

LEMMA StepUnchangedTable ==
    ASSUME IInv, UNCHANGED <<table, mutex, pc, addr, currentTime, pRT, verdict>>,
           now' \in 1..MaxTime
    PROVE  IInv'
  <1>1. TypeOK'
    BY DEF IInv, TypeOK
  <1>2. Locals' /\ MutexHeld' /\ Unique' /\ RoomToCount' /\ PointerIsCurrent'
    BY DEF IInv, Locals, MutexHeld, isUsingLock, Unique, RoomToCount, PointerIsCurrent,
           NodesOf, Nodes
  <1>3. QED
    BY <1>1, <1>2 DEF IInv

LEMMA StepTick ==
    ASSUME IInv, Tick
    PROVE  IInv'
  <1>1. now' \in 1..MaxTime
    BY RateAssumption DEF Tick, IInv, TypeOK, RateAssumption
  <1>2. QED
    BY <1>1, StepUnchangedTable DEF Tick

LEMMA StepInvariant == IInv /\ [Next]_vars => IInv'
  <1> SUFFICES ASSUME IInv, [Next]_vars PROVE IInv'
    OBVIOUS
  <1>1. CASE UNCHANGED vars
    BY <1>1, StepUnchangedTable DEF vars, IInv, TypeOK
  <1>2. ASSUME NEW t \in Threads, NEW a \in Addrs, RateCheck(t, a) PROVE IInv'
    BY <1>2, StepRateCheck
  <1>3. ASSUME NEW t \in Threads, Lookup(t) PROVE IInv'
    BY <1>3, StepLookup
  <1>4. ASSUME NEW t \in Threads, InsertNew(t) PROVE IInv'
    BY <1>4, StepInsertNew
  <1>5. ASSUME NEW t \in Threads, Update(t) PROVE IInv'
    BY <1>5, StepUpdate
  <1>6. CASE Tick
    BY <1>6, StepTick
  <1>7. QED
    BY <1>1, <1>2, <1>3, <1>4, <1>5, <1>6 DEF Next

(* The history changes nothing the limiter does.                           *)
LEMMA HistoryObserves == [HNext]_hvars => [Next]_vars
  BY DEF HNext, hvars, Next

LEMMA Invariant == HSpec => []IInv
  <1>1. HInit => IInv
    BY InitInvariant DEF HInit
  <1>2. IInv /\ [HNext]_hvars => IInv'
    BY StepInvariant, HistoryObserves
  <1>3. QED
    BY <1>1, <1>2, PTL DEF HSpec

(* Every variable keeps its type: in particular no count exceeds its bound *)
(* and a thread's pRT is a node of the table.                              *)
THEOREM TypeCorrect == HSpec => []TypeOK
  BY Invariant, PTL DEF IInv

(* RateCheckImpl may keep its pointer into the hash table from the lookup  *)
(* to the update: whatever other threads do, it points at the record of    *)
(* the address being checked, and a lookup that failed is still right.     *)
THEOREM PointerTheorem == HSpec => []PointerIsCurrent
  BY Invariant, PTL DEF IInv

-----------------------------------------------------------------------------

(* The history agrees with the table: an address is refused exactly until  *)
(* the penalty in its record is over, and an address without a record is   *)
(* not being refused.                                                      *)
HInv ==
    /\ refusedUntil \in [Addrs -> Nat]
    /\ \A a \in Addrs :
          /\ \A n \in NodesOf(a) : table[n].penalty = refusedUntil[a]
          /\ NodesOf(a) = {} => refusedUntil[a] = 0

(* Only an address whose penalty is over is let in.                        *)
Served(t) ==
    pc[t] = "update" /\ pc'[t] = "idle" /\ verdict'[t]
       => refusedUntil[addr[t]] < currentTime[t]

(* A step of one thread says nothing about the others.                     *)
LEMMA OthersServed ==
    ASSUME IInv, NEW t \in Threads, pc[t] # "idle", Served(t)
    PROVE  \A s \in Threads : Served(s)
  <1>1. \A s \in Threads : s # t => pc[s] = "idle"
    BY OthersIdle DEF IInv
  <1>2. QED
    BY <1>1 DEF Served

LEMMA HistoryInit == HInit => HInv
  BY DEF HInit, Init, HInv, NodesOf, Nodes

LEMMA HistoryInsertNew ==
    ASSUME IInv, HInv, NEW t \in Threads, InsertNew(t), Record(t)
    PROVE  HInv' /\ \A s \in Threads : Served(s)
  <1>1. pc[t] = "update" /\ pRT[t] = None /\ Return(t, TRUE)
    BY DEF InsertNew
  <1>2. /\ NodesOf(addr[t]) = {}
        /\ addr[t] \in Addrs /\ currentTime[t] \in 1..MaxTime
    BY <1>1 DEF IInv, PointerIsCurrent, Locals
  <1>3. refusedUntil[addr[t]] = 0
    BY <1>2 DEF HInv
  <1>4. Served(t)
    BY <1>2, <1>3, RateAssumption DEF Served, RateAssumption
  <1>5. verdict'[t] = TRUE
    <2>1. verdict \in [Threads -> BOOLEAN \cup {None}] /\ verdict' = [verdict EXCEPT ![t] = TRUE]
      BY <1>1 DEF IInv, TypeOK, Return
    <2>2. QED
      BY <2>1, Zenon
  <1>6. NewTracker(t).addr = addr[t] /\ NewTracker(t).penalty = 0
    BY DEF NewTracker
  <1>7. table \in [Nodes -> Tracker \cup {None}] /\ NewTracker(t) # None
    <2>1. NewTracker(t) \in Tracker
      <3>1. 1 \in 1..MaxCount /\ 0 \in 0..(MaxTime + PenaltyTime)
        BY RateAssumption DEF RateAssumption
      <3>2. QED
        BY <1>2, <3>1 DEF NewTracker, Tracker
    <2>2. QED
      BY <2>1, NoneIsNoTracker DEF IInv, TypeOK, NoneIsNoTracker
  <1>8. CASE FreeNodes # {}
    <2>1. PICK n \in FreeNodes : table' = [table EXCEPT ![n] = NewTracker(t)]
      BY <1>8 DEF InsertNew
    <2>2. refusedUntil' = [refusedUntil EXCEPT ![addr[t]] = 0]
      BY <1>5, <1>8 DEF Record, Dumps
    <2>3. ASSUME NEW a \in Addrs, a # addr[t] PROVE NodesOf(a)' = NodesOf(a)
      BY <1>6, <1>7, <2>1, <2>3 DEF NodesOf, FreeNodes, Nodes
    <2>4. ASSUME NEW a \in Addrs, a = addr[t] PROVE NodesOf(a)' = {n}
      BY <1>2, <1>6, <1>7, <2>1, <2>4 DEF NodesOf, FreeNodes, Nodes
    <2>5. HInv'
      <3>1. refusedUntil' \in [Addrs -> Nat]
        BY <1>2, <2>2 DEF HInv
      <3>2. ASSUME NEW a \in Addrs, a = addr[t]
            PROVE  /\ NodesOf(a)' = {n} /\ table'[n].penalty = refusedUntil'[a]
        BY <1>6, <1>7, <2>1, <2>2, <2>4, <3>2 DEF HInv, FreeNodes
      <3>3. ASSUME NEW a \in Addrs, a # addr[t]
            PROVE  /\ NodesOf(a)' = NodesOf(a) /\ refusedUntil'[a] = refusedUntil[a]
                   /\ \A m \in NodesOf(a) : table'[m] = table[m]
        BY <1>7, <2>1, <2>2, <2>3, <3>3 DEF HInv, FreeNodes, NodesOf
      <3>4. QED
        BY <3>1, <3>2, <3>3 DEF HInv
    <2>6. QED
      BY <1>1, <1>4, <2>5, OthersServed
  <1>9. CASE FreeNodes = {}
    <2>1. PICK n \in Nodes : table' = [[m \in Nodes |-> None] EXCEPT ![n] = NewTracker(t)]
      BY <1>9 DEF InsertNew
    <2>2. refusedUntil' = [b \in Addrs |-> 0]
      BY <1>1, <1>9 DEF Record, Dumps
    <2>3. HInv'
      BY <1>6, <2>1, <2>2 DEF HInv, NodesOf, Nodes
    <2>4. QED
      BY <1>1, <1>4, <2>3, OthersServed
  <1>10. QED
    BY <1>8, <1>9

(* A thread stores rt in the node of its address and the history follows.  *)
LEMMA HistoryStored ==
    ASSUME HInv, NEW t \in Threads, NEW b \in Addrs, NEW rt \in Tracker \cup {None},
           NEW until \in Nat,
           Store(t, rt),
           pRT[t] \in Nodes, NodesOf(b) = {pRT[t]},
           table \in [Nodes -> Tracker \cup {None}],
           refusedUntil' = [refusedUntil EXCEPT ![b] = until],
           rt # None => rt.addr = b /\ rt.penalty = until,
           rt = None => until = 0
    PROVE  HInv'
  <1>1. /\ table'[pRT[t]] = rt
        /\ \A m \in Nodes : m # pRT[t] => table'[m] = table[m]
    BY DEF Store
  <1>2. refusedUntil' \in [Addrs -> Nat]
    BY DEF HInv
  <1>3. /\ NodesOf(b)' = IF rt = None THEN {} ELSE {pRT[t]}
        /\ refusedUntil'[b] = until
    BY <1>1 DEF NodesOf, Nodes, HInv
  <1>4. ASSUME NEW a \in Addrs, a # b
        PROVE  /\ NodesOf(a)' = NodesOf(a) /\ refusedUntil'[a] = refusedUntil[a]
               /\ \A m \in NodesOf(a) : table'[m] = table[m]
    <2>1. pRT[t] \notin NodesOf(a) /\ pRT[t] \notin NodesOf(a)'
      BY <1>1, <1>4 DEF NodesOf, Nodes
    <2>2. QED
      BY <1>1, <1>4, <2>1 DEF NodesOf, Nodes, HInv
  <1>5. ASSUME NEW a \in Addrs
        PROVE  /\ \A n \in NodesOf(a)' : table'[n].penalty = refusedUntil'[a]
               /\ NodesOf(a)' = {} => refusedUntil'[a] = 0
    <2>1. CASE a = b
      BY <1>1, <1>3, <2>1
    <2>2. CASE a # b
      BY <1>4, <2>2 DEF HInv
    <2>3. QED
      BY <2>1, <2>2
  <1>6. QED
    BY <1>2, <1>5 DEF HInv

LEMMA HistoryUpdate ==
    ASSUME IInv, HInv, NEW t \in Threads, Update(t), Record(t)
    PROVE  HInv' /\ \A s \in Threads : Served(s)
  <1>1. PICK rt \in Tracker \cup {None}, answer \in BOOLEAN :
               Store(t, rt) /\ Return(t, answer) /\ Outcome(t, rt, answer)
    BY UpdateOutcome
  <1>2. /\ pc[t] = "update" /\ pRT[t] \in Nodes /\ NodesOf(addr[t]) = {pRT[t]}
        /\ currentTime[t] \in 1..MaxTime
    BY UpdateStores
  <1>3. addr[t] \in Addrs
    BY <1>2 DEF IInv, Locals
  <1>4. table[pRT[t]].penalty = refusedUntil[addr[t]]
    BY <1>2, <1>3 DEF HInv
  <1>5. verdict'[t] = answer
    <2>1. verdict \in [Threads -> BOOLEAN \cup {None}] /\ verdict' = [verdict EXCEPT ![t] = answer]
      BY <1>1 DEF IInv, TypeOK, Return
    <2>2. QED
      BY <2>1, Zenon
  <1>6. Served(t)
    BY <1>1, <1>4, <1>5 DEF Served, Outcome
  <1>7. table \in [Nodes -> Tracker \cup {None}] /\ None \notin Tracker
    BY NoneIsNoTracker DEF IInv, TypeOK, NoneIsNoTracker
  <1>8. ~Dumps(t)
    BY <1>2, RateAssumption DEF Dumps, RateAssumption, Nodes
  <1>9. ASSUME answer PROVE HInv'
    <2>1. refusedUntil' = [refusedUntil EXCEPT ![addr[t]] = 0]
      BY <1>5, <1>8, <1>9 DEF Record
    <2>2. rt # None => rt.addr = addr[t] /\ rt.penalty = 0
      BY <1>1, <1>9 DEF Outcome
    <2>3. QED
      BY <1>3, <2>1, <2>2, HistoryStored, <1>1, <1>2, <1>7
  <1>10. ASSUME ~answer, refusedUntil[addr[t]] < currentTime[t] PROVE HInv'
    <2>1. refusedUntil' = [refusedUntil EXCEPT ![addr[t]] = currentTime[t] + PenaltyTime]
      BY <1>5, <1>8, <1>10 DEF Record
    <2>2. rt \in Tracker /\ rt.addr = addr[t] /\ rt.penalty = currentTime[t] + PenaltyTime
      <3>1. refusedUntil[addr[t]] \in Nat /\ currentTime[t] \in Nat
        BY <1>2, <1>3 DEF HInv
      <3>2. ~(table[pRT[t]].penalty >= currentTime[t])
        BY <1>4, <1>10, <3>1
      <3>3. QED
        BY <1>1, <1>10, <3>2 DEF Outcome
    <2>3. currentTime[t] + PenaltyTime \in Nat
      BY <1>2, RateAssumption DEF RateAssumption
    <2>4. QED
      BY <1>2, <1>3, <2>1, <2>2, <2>3, HistoryStored, <1>1, <1>7
  <1>11. ASSUME ~answer, ~(refusedUntil[addr[t]] < currentTime[t]) PROVE HInv'
    <2>1. refusedUntil' = [refusedUntil EXCEPT ![addr[t]] = refusedUntil[addr[t]]]
      BY <1>5, <1>8, <1>11 DEF Record, HInv
    <2>2. rt \in Tracker /\ rt.addr = addr[t] /\ rt.penalty = refusedUntil[addr[t]]
      BY <1>1, <1>4, <1>11 DEF Outcome
    <2>3. refusedUntil[addr[t]] \in Nat
      BY <1>3 DEF HInv
    <2>4. QED
      BY <1>2, <1>3, <2>1, <2>2, <2>3, HistoryStored, <1>1, <1>7
  <1>12. HInv'
    BY <1>9, <1>10, <1>11, Zenon
  <1>13. QED
    BY <1>2, <1>6, <1>12, OthersServed

-----------------------------------------------------------------------------

LEMMA HistoryUnchanged ==
    ASSUME HInv, UNCHANGED <<table, refusedUntil>>
    PROVE  HInv'
  BY DEF HInv, NodesOf, Nodes

LEMMA HistoryStep ==
    IInv /\ HInv /\ [HNext]_hvars => HInv' /\ \A s \in Threads : Served(s)
  <1> SUFFICES ASSUME IInv, HInv, [HNext]_hvars
               PROVE  HInv' /\ \A s \in Threads : Served(s)
    OBVIOUS
  <1>1. CASE UNCHANGED hvars
    BY <1>1, HistoryUnchanged DEF hvars, vars, Served
  <1>2. ASSUME NEW t \in Threads, NEW a \in Addrs, RateCheck(t, a), UNCHANGED refusedUntil
        PROVE  HInv' /\ \A s \in Threads : Served(s)
    <2>1. \A s \in Threads : pc[s] = "idle"
      BY <1>2, EnterAlone
    <2>2. QED
      BY <1>2, <2>1, HistoryUnchanged DEF RateCheck, Served
  <1>3. ASSUME NEW t \in Threads, Lookup(t), UNCHANGED refusedUntil
        PROVE  HInv' /\ \A s \in Threads : Served(s)
    <2>1. pc[t] = "lookup" /\ UNCHANGED table
      BY <1>3 DEF Lookup
    <2>2. QED
      BY <1>3, <2>1, OthersServed, HistoryUnchanged DEF Served
  <1>4. ASSUME NEW t \in Threads, InsertNew(t), Record(t)
        PROVE  HInv' /\ \A s \in Threads : Served(s)
    BY <1>4, HistoryInsertNew
  <1>5. ASSUME NEW t \in Threads, Update(t), Record(t)
        PROVE  HInv' /\ \A s \in Threads : Served(s)
    BY <1>5, HistoryUpdate
  <1>6. CASE Tick /\ UNCHANGED refusedUntil
    BY <1>6, HistoryUnchanged DEF Tick, Served
  <1>7. QED
    BY <1>1, <1>2, <1>3, <1>4, <1>5, <1>6 DEF HNext

(* An address in the penalty box is refused until the penalty it was given *)
(* is over, for any number of threads and addresses, whatever they do and  *)
(* however the clock is set, unless RateCheckImpl had to dump the table.   *)
THEOREM PenaltyTheorem == HSpec => PenaltyIsServed
  <1>1. IInv /\ HInv /\ [HNext]_hvars =>
           \A t \in Threads :
              pc[t] = "update" /\ pc'[t] = "idle" /\ verdict'[t]
                 => refusedUntil[addr[t]] < currentTime[t]
    BY HistoryStep DEF Served
  <1>2. QED
    BY <1>1, Invariant, HistoryInit, HistoryStep, PTL DEF HSpec, PenaltyIsServed

-----------------------------------------------------------------------------

(* The record of a polite address spans Gap seconds for every request in   *)
(* it but the first, and it was never sent to the penalty box.             *)
PoliteRecord(rt, asked) ==
    /\ rt.penalty = 0
    /\ rt.last = asked
    /\ rt.last - rt.first >= (rt.count - 1) * Gap

PoliteInv ==
    /\ lastRequest \in [Addrs -> Nat]
    /\ polite \subseteq Addrs
    /\ \A a \in polite : \A n \in NodesOf(a) : PoliteRecord(table[n], lastRequest[a])

(* Only an impolite address is refused.                                    *)
Fair(t) ==
    pc[t] = "update" /\ pc'[t] = "idle" /\ ~verdict'[t] => addr[t] \notin polite'

(* What holds of MinCount requests holds of more.                          *)
LEMMA PoliteCount ==
    ASSUME NEW c \in Nat, c >= MinCount
    PROVE  c * Hour < MaxRate * ((c - 1) * Gap)
  <1>1. /\ MinCount \in Nat /\ Hour \in Nat /\ Hour > 0 /\ MaxRate \in Nat /\ Gap \in Nat
        /\ MinCount > 1
    BY RateAssumption, GapAssumption DEF RateAssumption, GapAssumption
  <1>2. PICK d \in Nat : c = MinCount + d
    <2>1. c - MinCount \in Nat /\ c = MinCount + (c - MinCount)
      BY <1>1
    <2>2. QED
      BY <2>1
  <1> DEFINE pace == MaxRate * Gap
             m == MinCount
  <1>3. pace \in Nat /\ m * Hour < (m - 1) * pace
    <2>1. MaxRate * ((m - 1) * Gap) = (m - 1) * (MaxRate * Gap)
      BY <1>1
    <2>2. QED
      BY <1>1, <2>1, GapAssumption DEF GapAssumption
  <1>4. Hour =< pace
    <2>1. SUFFICES ASSUME pace < Hour PROVE FALSE
      BY <1>1, <1>3
    <2>2. (m - 1) * pace =< m * pace
      BY <1>1, <1>3
    <2>3. m * pace =< m * Hour
      BY <1>1, <1>3, <2>1
    <2>4. m * Hour \in Nat /\ (m - 1) * pace \in Nat /\ m * pace \in Nat
      BY <1>1, <1>3
    <2>5. QED
      BY <1>3, <2>2, <2>3, <2>4
  <1>5. d * Hour =< d * pace
    BY <1>1, <1>2, <1>3, <1>4
  <1>6. c * Hour = m * Hour + d * Hour /\ (c - 1) * pace = (m - 1) * pace + d * pace
    BY <1>1, <1>2, <1>3
  <1>7. MaxRate * ((c - 1) * Gap) = (c - 1) * pace
    BY <1>1
  <1>8. m * Hour \in Nat /\ d * Hour \in Nat /\ (m - 1) * pace \in Nat /\ d * pace \in Nat
    BY <1>1, <1>2, <1>3
  <1>9. QED
    BY <1>3, <1>5, <1>6, <1>7, <1>8

LEMMA PoliteRate ==
    ASSUME NEW rt \in Tracker, rt.last - rt.first >= (rt.count - 1) * Gap
    PROVE  ~OverRate(rt)
  <1>1. /\ rt.count \in Nat /\ rt.last \in Nat /\ rt.first \in Nat
        /\ MaxRate \in Nat \ {0} /\ Hour \in Nat /\ Gap \in Nat
        /\ MinCount \in Nat /\ MinCount > 1
    BY RateAssumption, GapAssumption DEF RateAssumption, GapAssumption, Tracker
  <1>2. CASE rt.count < MinCount
    BY <1>1, <1>2 DEF OverRate, get_rate
  <1>3. CASE rt.count >= MinCount
    <2> DEFINE c == rt.count
               span == rt.last - rt.first
               need == (c - 1) * Gap
               work == c * Hour
    <2>1. work < MaxRate * need
      BY <1>1, <1>3, PoliteCount
    <2>2. need \in Nat /\ work \in Nat /\ span \in Int /\ span >= need
      BY <1>1, <1>3
    <2> HIDE DEF need, work, span
    <2>3. need > 0
      BY <1>1, <2>1, <2>2
    <2>4. MaxRate * need =< MaxRate * span
      BY <1>1, <2>2, <2>3
    <2>5. span > 0 /\ work < MaxRate * span
      <3>1. MaxRate * need \in Int /\ MaxRate * span \in Int
        BY <1>1, <2>2
      <3>2. QED
        BY <2>1, <2>2, <2>3, <2>4, <3>1
    <2>6. work \div span < MaxRate
      BY <1>1, <2>2, <2>5
    <2>7. get_rate(rt) = work \div span
      BY <1>1, <1>3, <2>5 DEF get_rate, work, span
    <2>8. work \div span \in Int
      BY <2>2, <2>5
    <2>9. QED
      BY <1>1, <2>6, <2>7, <2>8 DEF OverRate
  <1>4. QED
    BY <1>1, <1>2, <1>3

LEMMA OthersFair ==
    ASSUME IInv, NEW t \in Threads, pc[t] # "idle", Fair(t)
    PROVE  \A s \in Threads : Fair(s)
  <1>1. \A s \in Threads : s # t => pc[s] = "idle"
    BY OthersIdle DEF IInv
  <1>2. QED
    BY <1>1 DEF Fair

LEMMA PoliteInit == HInit => PoliteInv
  BY DEF HInit, Init, PoliteInv, NodesOf, Nodes

LEMMA PoliteUnchanged ==
    ASSUME PoliteInv, UNCHANGED <<table, lastRequest, polite>>
    PROVE  PoliteInv'
  BY DEF PoliteInv, PoliteRecord, NodesOf, Nodes

(* What Record notes of the address that asked, and leaves of the others.  *)
LEMMA Recorded ==
    ASSUME PoliteInv, NEW t \in Threads, addr[t] \in Addrs, currentTime[t] \in 1..MaxTime,
           Record(t)
    PROVE  LET a == addr[t]
               time == currentTime[t]
           IN  /\ lastRequest' \in [Addrs -> Nat] /\ polite' \subseteq polite
               /\ lastRequest'[a] = time
               /\ \A b \in Addrs : b # a => lastRequest'[b] = lastRequest[b]
               /\ a \in polite' => lastRequest[a] = 0 \/ time - lastRequest[a] >= Gap
  <1>1. /\ lastRequest' = [lastRequest EXCEPT ![addr[t]] = currentTime[t]]
        /\ polite' = IF lastRequest[addr[t]] # 0 /\ currentTime[t] - lastRequest[addr[t]] < Gap
                     THEN polite \ {addr[t]} ELSE polite
    BY DEF Record
  <1>2. currentTime[t] \in Nat /\ lastRequest[addr[t]] \in Nat /\ Gap \in Nat
    BY GapAssumption, RateAssumption DEF GapAssumption, RateAssumption, PoliteInv
  <1>3. lastRequest' \in [Addrs -> Nat] /\ polite' \subseteq polite
    BY <1>1, <1>2 DEF PoliteInv
  <1>4. /\ lastRequest'[addr[t]] = currentTime[t]
        /\ \A b \in Addrs : b # addr[t] => lastRequest'[b] = lastRequest[b]
    BY <1>1 DEF PoliteInv
  <1>5. addr[t] \in polite' => lastRequest[addr[t]] = 0
                               \/ currentTime[t] - lastRequest[addr[t]] >= Gap
    BY <1>1, <1>2
  <1>6. QED
    BY <1>3, <1>4, <1>5

LEMMA PoliteInsertNew ==
    ASSUME IInv, PoliteInv, NEW t \in Threads, InsertNew(t), Record(t)
    PROVE  PoliteInv' /\ \A s \in Threads : Fair(s)
  <1> DEFINE a == addr[t]
             new == NewTracker(t)
  <1>1. pc[t] = "update" /\ pRT[t] = None /\ Return(t, TRUE)
    BY DEF InsertNew
  <1>2. a \in Addrs /\ currentTime[t] \in 1..MaxTime
    BY <1>1 DEF IInv, Locals
  <1>3. Fair(t)
    <2>1. verdict \in [Threads -> BOOLEAN \cup {None}] /\ verdict' = [verdict EXCEPT ![t] = TRUE]
      BY <1>1 DEF IInv, TypeOK, Return
    <2>2. verdict'[t] = TRUE
      BY <2>1, Zenon
    <2>3. QED
      BY <2>2 DEF Fair
  <1>4. /\ lastRequest' \in [Addrs -> Nat] /\ polite' \subseteq polite
        /\ lastRequest'[a] = currentTime[t]
        /\ \A b \in Addrs : b # a => lastRequest'[b] = lastRequest[b]
    BY <1>2, Recorded
  <1>5. /\ new.addr = a /\ new.penalty = 0 /\ new.count = 1
        /\ new.last = currentTime[t] /\ new.first = currentTime[t]
    BY DEF NewTracker
  <1>6. table \in [Nodes -> Tracker \cup {None}]
    BY DEF IInv, TypeOK
  <1> HIDE DEF new
  <1>7. PICK n \in Nodes : \/ table' = [table EXCEPT ![n] = new]
                           \/ table' = [[m \in Nodes |-> None] EXCEPT ![n] = new]
    BY DEF InsertNew, FreeNodes, new
  <1>8. /\ table'[n] = new
        /\ \A m \in Nodes : m # n => table'[m] \in {table[m], None}
    BY <1>6, <1>7
  <1>9. PoliteRecord(new, currentTime[t])
    BY <1>2, <1>5, GapAssumption, RateAssumption
       DEF PoliteRecord, GapAssumption, RateAssumption
  <1>10. ASSUME NEW b \in polite', NEW m \in NodesOf(b)'
         PROVE  PoliteRecord(table'[m], lastRequest'[b])
    <2>1. b \in Addrs /\ b \in polite /\ m \in Nodes /\ table'[m] # None /\ table'[m].addr = b
      BY <1>4, <1>10 DEF PoliteInv, NodesOf, Nodes
    <2>2. CASE m = n
      BY <1>4, <1>5, <1>8, <1>9, <2>1, <2>2
    <2>3. CASE m # n
      <3>1. table'[m] = table[m] /\ m \in NodesOf(b)
        BY <1>8, <2>1, <2>3 DEF NodesOf
      <3>2. b # a
        BY <1>1, <3>1 DEF IInv, PointerIsCurrent
      <3>3. QED
        BY <1>4, <2>1, <3>1, <3>2 DEF PoliteInv
    <2>4. QED
      BY <2>2, <2>3
  <1>11. PoliteInv'
    BY <1>4, <1>10 DEF PoliteInv
  <1>12. QED
    BY <1>1, <1>3, <1>11, OthersFair

(* A polite address is not refused: its record, with this request counted, *)
(* is not over the rate, and it was not in the penalty box.                *)
LEMMA PoliteUpdate ==
    ASSUME IInv, PoliteInv, NEW t \in Threads, Update(t), Record(t)
    PROVE  PoliteInv' /\ \A s \in Threads : Fair(s)
  <1> DEFINE a == addr[t]
             n == pRT[t]
             time == currentTime[t]
             rt == Counted(t)
  <1>1. PICK left \in Tracker \cup {None}, answer \in BOOLEAN :
               Store(t, left) /\ Return(t, answer) /\ Outcome(t, left, answer)
    BY UpdateOutcome
  <1>2. /\ pc[t] = "update" /\ n \in Nodes /\ NodesOf(a) = {n}
        /\ table[n] \in Tracker /\ rt \in Tracker /\ time \in 1..MaxTime
        /\ rt.penalty = table[n].penalty
    BY UpdateStores
  <1>3. a \in Addrs
    BY <1>2 DEF IInv, Locals
  <1>4. /\ lastRequest' \in [Addrs -> Nat] /\ polite' \subseteq polite
        /\ lastRequest'[a] = time
        /\ \A b \in Addrs : b # a => lastRequest'[b] = lastRequest[b]
        /\ a \in polite' => lastRequest[a] = 0 \/ time - lastRequest[a] >= Gap
    BY <1>2, <1>3, Recorded
  <1>5. /\ table \in [Nodes -> Tracker \cup {None}]
        /\ verdict \in [Threads -> BOOLEAN \cup {None}]
    BY DEF IInv, TypeOK
  <1>6. table'[n] = left /\ \A m \in Nodes : m # n => table'[m] = table[m]
    BY <1>1, <1>2, <1>5 DEF Store
  <1>7. ASSUME a \in polite'
        PROVE  PoliteRecord(rt, time) /\ ~OverRate(rt)
    <2>1. PoliteRecord(table[n], lastRequest[a])
      BY <1>2, <1>4, <1>7 DEF PoliteInv
    <2>2. /\ rt.count = table[n].count + 1 /\ rt.last = time /\ rt.first = table[n].first
      BY <1>2 DEF Counted, Tracker
    <2>3. /\ table[n].last \in Nat /\ table[n].last # 0 /\ table[n].first \in Nat
          /\ table[n].count \in Nat /\ Gap \in Nat /\ time \in Nat
      BY <1>2, RateAssumption, GapAssumption DEF Tracker, RateAssumption, GapAssumption
    <2>4. time - table[n].last >= Gap
      BY <1>4, <1>7, <2>1, <2>3 DEF PoliteRecord
    <2>5. (rt.count - 1) * Gap = (table[n].count - 1) * Gap + Gap
      BY <2>2, <2>3
    <2>6. table[n].last - table[n].first >= (table[n].count - 1) * Gap
      BY <2>1 DEF PoliteRecord
    <2>7. (table[n].count - 1) * Gap \in Int
      BY <2>3
    <2>8. rt.last - rt.first >= (rt.count - 1) * Gap
      BY <2>2, <2>3, <2>4, <2>5, <2>6, <2>7
    <2>9. PoliteRecord(rt, time)
      BY <1>2, <2>1, <2>2, <2>8 DEF PoliteRecord
    <2>10. QED
      BY <1>2, <2>8, <2>9, PoliteRate
  <1>8. ASSUME a \in polite'
        PROVE  Return(t, TRUE) /\ (Store(t, rt) \/ Store(t, None))
    BY <1>7, <1>8 DEF Update, Penalised, Unpenalised, PoliteRecord
  <1> HIDE DEF rt, n, time, a
  <1>9. Fair(t)
    <2>1. SUFFICES ASSUME a \in polite' PROVE verdict'[t] = TRUE
      BY DEF Fair, a
    <2>2. verdict' = [verdict EXCEPT ![t] = TRUE]
      BY <1>8, <2>1 DEF Return
    <2>3. QED
      BY <1>5, <2>2, Zenon
  <1>10. ASSUME NEW b \in polite', NEW m \in NodesOf(b)'
         PROVE  PoliteRecord(table'[m], lastRequest'[b])
    <2>1. b \in Addrs /\ b \in polite /\ m \in Nodes /\ table'[m] # None /\ table'[m].addr = b
      BY <1>4, <1>10 DEF PoliteInv, NodesOf, Nodes
    <2>2. CASE m = n
      <3>1. table'[m].addr = a
        BY <1>1, <1>6, <2>1, <2>2 DEF Outcome, a
      <3>2. table'[m] = rt
        BY <1>2, <1>5, <1>8, <2>1, <2>2, <3>1 DEF Store, n
      <3>3. QED
        BY <1>4, <1>7, <2>1, <3>1, <3>2
    <2>3. CASE m # n
      <3>1. table'[m] = table[m] /\ m \in NodesOf(b)
        BY <1>6, <2>1, <2>3 DEF NodesOf
      <3>2. b # a
        BY <1>2, <2>3, <3>1
      <3>3. QED
        BY <1>4, <2>1, <3>1, <3>2 DEF PoliteInv
    <2>4. QED
      BY <2>2, <2>3
  <1>11. PoliteInv'
    BY <1>4, <1>10 DEF PoliteInv
  <1>12. QED
    BY <1>2, <1>9, <1>11, OthersFair

LEMMA PoliteStep ==
    IInv /\ PoliteInv /\ [HNext]_hvars => PoliteInv' /\ \A s \in Threads : Fair(s)
  <1> SUFFICES ASSUME IInv, PoliteInv, [HNext]_hvars
               PROVE  PoliteInv' /\ \A s \in Threads : Fair(s)
    OBVIOUS
  <1>1. CASE UNCHANGED hvars
    BY <1>1, PoliteUnchanged DEF hvars, vars, Fair
  <1>2. ASSUME NEW t \in Threads, NEW a \in Addrs, RateCheck(t, a),
               UNCHANGED <<lastRequest, polite>>
        PROVE  PoliteInv' /\ \A s \in Threads : Fair(s)
    <2>1. \A s \in Threads : pc[s] = "idle"
      BY <1>2, EnterAlone
    <2>2. QED
      BY <1>2, <2>1, PoliteUnchanged DEF RateCheck, Fair
  <1>3. ASSUME NEW t \in Threads, Lookup(t), UNCHANGED <<lastRequest, polite>>
        PROVE  PoliteInv' /\ \A s \in Threads : Fair(s)
    <2>1. pc[t] = "lookup" /\ UNCHANGED table
      BY <1>3 DEF Lookup
    <2>2. QED
      BY <1>3, <2>1, OthersFair, PoliteUnchanged DEF Fair
  <1>4. ASSUME NEW t \in Threads, InsertNew(t), Record(t)
        PROVE  PoliteInv' /\ \A s \in Threads : Fair(s)
    BY <1>4, PoliteInsertNew
  <1>5. ASSUME NEW t \in Threads, Update(t), Record(t)
        PROVE  PoliteInv' /\ \A s \in Threads : Fair(s)
    BY <1>5, PoliteUpdate
  <1>6. CASE Tick /\ UNCHANGED <<lastRequest, polite>>
    BY <1>6, PoliteUnchanged DEF Tick, Fair
  <1>7. QED
    BY <1>1, <1>2, <1>3, <1>4, <1>5, <1>6 DEF HNext

(* An address that leaves Gap seconds between its requests is never        *)
(* refused by RateCheckImpl, for any number of threads and addresses that  *)
(* flood the table, any rate, and also when the clock is set back.         *)
THEOREM PoliteTheorem == HSpec => PoliteIsNeverRefused
  <1>1. IInv /\ PoliteInv /\ [HNext]_hvars =>
           \A t \in Threads :
              pc[t] = "update" /\ pc'[t] = "idle" /\ ~verdict'[t]
                 => addr[t] \notin polite'
    BY PoliteStep DEF Fair
  <1>2. QED
    BY <1>1, Invariant, PoliteInit, PoliteStep, PTL DEF HSpec, PoliteIsNeverRefused

-----------------------------------------------------------------------------
(* How many requests get through, as long as the clock is not set back.    *)

(* What the rate allows in one interval, and twice that.                   *)
Few(k) == k * Hour < MaxRate * ResetInterval

TwiceFew(k) == k * Hour < 2 * MaxRate * ResetInterval

Ordered(log) == \A i, j \in 1..Len(log) : i <= j => log[i] <= log[j]

WithinTwice(log) ==
    \A i, j \in 1..Len(log) :
        i <= j /\ log[j] - log[i] < ResetInterval => TwiceFew(j - i + 1)

(* One request more, at this time, may be let through.                     *)
Fits(log, time) ==
    /\ \A i \in 1..Len(log) : log[i] <= time
    /\ \A i \in 1..Len(log) : time - log[i] < ResetInterval => TwiceFew(Len(log) - i + 2)

(* No record is kept, or a new one is made: few requests were let through  *)
(* in the last interval.                                                   *)
Forgotten(log) ==
    \A i \in 1..Len(log) : log[Len(log)] - log[i] < ResetInterval => Few(Len(log) - i + 1)

(* A record in the penalty box: nothing was let in since it was put there. *)
Boxed(rt, log) ==
    /\ rt.penalty # 0
    /\ rt.first + PenaltyTime <= rt.penalty
    /\ \A i \in 1..Len(log) : log[i] + PenaltyTime <= rt.penalty

(* One let out of it: its age is past ResetInterval, and nothing else was  *)
(* let in within the interval.                                             *)
LetOut(rt, log) ==
    /\ rt.penalty = 0
    /\ rt.last - rt.first > ResetInterval
    /\ \A i \in 1..(Len(log) - 1) : log[Len(log)] - log[i] >= ResetInterval

(* One that was never in it: the requests after the first m are those it   *)
(* counts, and those before came in earlier records.                       *)
Young(rt, log) ==
    /\ rt.penalty = 0
    /\ rt.last - rt.first <= ResetInterval
    /\ Few(rt.count)
    /\ \E m \in Nat :
          /\ m < Len(log) /\ Len(log) - m <= rt.count
          /\ log[m + 1] <= rt.first
          /\ \A i \in 1..m : rt.first - log[i] < ResetInterval => Few(m - i + 1)

Judged(rt, log) == Boxed(rt, log) \/ LetOut(rt, log) \/ Young(rt, log)

(* Nothing is later than this time.                                        *)
AllBefore(time) ==
    /\ \A a \in Addrs : \A i \in 1..Len(letIn[a]) : letIn[a][i] <= time
    /\ \A n \in Nodes : table[n] # None => table[n].first <= time /\ table[n].last <= time

LogInv ==
    /\ letIn \in [Addrs -> Seq(Nat)]
    /\ \A a \in Addrs :
          /\ Ordered(letIn[a]) /\ WithinTwice(letIn[a])
          /\ NodesOf(a) = {} => Forgotten(letIn[a])
          /\ \A n \in NodesOf(a) : Judged(table[n], letIn[a])
    /\ AllBefore(now)
    /\ \A t \in Threads : pc[t] = "update" => currentTime[t] <= now /\ AllBefore(currentTime[t])

(* -------- arithmetic ----------------------------------------------------- *)

LEMMA RateTypes ==
    /\ Hour \in Nat \ {0} /\ MaxRate \in Nat \ {0} /\ ResetInterval \in Nat \ {0}
    /\ PenaltyTime \in Nat \ {0} /\ MinCount \in Nat /\ MinCount > 1
    /\ MaxRate * ResetInterval \in Nat
  BY RateAssumption DEF RateAssumption

LEMMA FewLess ==
    ASSUME NEW k \in Nat, NEW l \in Nat, k <= l, Few(l)
    PROVE  Few(k)
  <1>1. k * Hour <= l * Hour /\ k * Hour \in Nat /\ l * Hour \in Nat
    BY RateTypes
  <1>2. QED
    BY <1>1, RateTypes DEF Few

LEMMA FewSum ==
    ASSUME NEW k \in Nat, NEW l \in Nat, Few(k), Few(l)
    PROVE  TwiceFew(k + l)
  <1>1. (k + l) * Hour = k * Hour + l * Hour /\ k * Hour \in Nat /\ l * Hour \in Nat
    BY RateTypes
  <1>2. 2 * MaxRate * ResetInterval = 2 * (MaxRate * ResetInterval)
    BY RateTypes
  <1>3. QED
    BY <1>1, <1>2, RateTypes DEF Few, TwiceFew

LEMMA FewExamples == Few(1) /\ Few(2) /\ Few(MinCount - 1) /\ TwiceFew(1)
  <1>1. Few(2) /\ Few(MinCount - 1)
    BY IntervalAssumption DEF Few, IntervalAssumption
  <1>2. Few(1) /\ Few(0)
    BY <1>1, FewLess DEF Few
  <1>3. TwiceFew(1 + 0)
    BY <1>2, FewSum
  <1>4. QED
    BY <1>1, <1>2, <1>3

(* A record not over the rate and not old has few requests.                *)
LEMMA FewCounted ==
    ASSUME NEW rt \in Tracker, ~OverRate(rt), rt.last - rt.first <= ResetInterval
    PROVE  Few(rt.count)
  <1>1. rt.count \in Nat /\ rt.count > 0 /\ rt.first \in Nat /\ rt.last \in Nat
    BY RateAssumption DEF Tracker, RateAssumption
  <1>2. CASE rt.count < MinCount
    <2>1. MinCount - 1 \in Nat /\ rt.count <= MinCount - 1
      BY <1>1, <1>2, RateTypes
    <2>2. QED
      BY <1>1, <2>1, FewExamples, FewLess
  <1>3. CASE ~(rt.count < MinCount)
    <2> DEFINE seconds == IF rt.last > rt.first THEN rt.last - rt.first ELSE 1
               work == rt.count * Hour
    <2>1. seconds \in Nat /\ seconds > 0 /\ seconds <= ResetInterval /\ work \in Nat
      BY <1>1, RateTypes
    <2>2. get_rate(rt) = work \div seconds
      BY <1>3 DEF get_rate
    <2> HIDE DEF seconds, work
    <2>3. work \div seconds < MaxRate /\ work \div seconds \in Int
      BY <2>1, <2>2, RateTypes DEF OverRate
    <2>4. work < seconds * MaxRate
      <3>1. SUFFICES ASSUME seconds * MaxRate <= work PROVE FALSE
        BY <2>1, RateTypes
      <3>2. MaxRate <= work \div seconds
        BY <2>1, <3>1, RateTypes
      <3>3. QED
        BY <2>3, <3>2, RateTypes
    <2>5. seconds * MaxRate <= MaxRate * ResetInterval /\ seconds * MaxRate \in Nat
      BY <2>1, RateTypes
    <2>6. work < MaxRate * ResetInterval
      BY <2>1, <2>4, <2>5, RateTypes
    <2>7. QED
      BY <2>6 DEF Few, work
  <1>4. QED
    BY <1>2, <1>3

(* -------- the log of one address ------------------------------------------ *)

LEMMA Appended ==
    ASSUME NEW log \in Seq(Nat), NEW time \in Nat
    PROVE  LET more == Append(log, time)
           IN  /\ more \in Seq(Nat) /\ Len(log) \in Nat /\ Len(more) = Len(log) + 1
               /\ \A i \in 1..Len(log) : more[i] = log[i] /\ log[i] \in Nat
               /\ more[Len(log) + 1] = time
  OBVIOUS

LEMMA FitsAppended ==
    ASSUME NEW log \in Seq(Nat), NEW time \in Nat, Ordered(log), WithinTwice(log),
           Fits(log, time)
    PROVE  Ordered(Append(log, time)) /\ WithinTwice(Append(log, time))
  <1> DEFINE more == Append(log, time)
             n == Len(log)
  <1>1. /\ n \in Nat /\ Len(more) = n + 1 /\ more[n + 1] = time
        /\ \A i \in 1..n : more[i] = log[i] /\ log[i] \in Nat
    BY Appended
  <1> HIDE DEF more
  <1>2. Ordered(more)
    BY <1>1 DEF Ordered, Fits
  <1>3. ASSUME NEW i \in 1..Len(more), NEW j \in 1..Len(more), i <= j,
               more[j] - more[i] < ResetInterval
        PROVE  TwiceFew(j - i + 1)
    <2>1. CASE j <= n
      <3>1. i \in 1..n /\ j \in 1..n /\ more[i] = log[i] /\ more[j] = log[j]
        BY <1>1, <1>3, <2>1
      <3>2. QED
        BY <1>3, <3>1 DEF WithinTwice
    <2>2. CASE j = n + 1 /\ i <= n
      <3>1. time - log[i] < ResetInterval /\ i \in 1..n
        BY <1>1, <1>3, <2>2
      <3>2. TwiceFew(n - i + 2)
        BY <3>1 DEF Fits
      <3>3. n - i + 2 = j - i + 1
        BY <1>1, <2>2
      <3>4. QED
        BY <3>2, <3>3
    <2>3. CASE j = n + 1 /\ i = n + 1
      <3>1. j - i + 1 = 1
        BY <1>1, <2>3
      <3>2. QED
        BY <3>1, FewExamples
    <2>4. QED
      BY <1>1, <1>3, <2>1, <2>2, <2>3
  <1>4. WithinTwice(more)
    BY <1>3 DEF WithinTwice
  <1>5. QED
    BY <1>2, <1>4 DEF more

(* The first request of a record.                                          *)
LEMMA NewFits ==
    ASSUME NEW log \in Seq(Nat), NEW time \in Nat, Ordered(log), Forgotten(log),
           \A i \in 1..Len(log) : log[i] <= time,
           NEW rt, rt.penalty = 0, rt.count = 1, rt.first = time, rt.last = time
    PROVE  Fits(log, time) /\ Judged(rt, Append(log, time))
  <1> DEFINE more == Append(log, time)
             n == Len(log)
  <1>1. /\ n \in Nat /\ Len(more) = n + 1 /\ more[n + 1] = time
        /\ \A i \in 1..n : more[i] = log[i] /\ log[i] \in Nat
    BY Appended
  <1>2. ASSUME NEW i \in 1..n, time - log[i] < ResetInterval PROVE Few(n - i + 1)
    <2>1. log[n] - log[i] < ResetInterval
      BY <1>1, <1>2, RateTypes
    <2>2. QED
      BY <2>1 DEF Forgotten
  <1>3. ASSUME NEW i \in 1..n, time - log[i] < ResetInterval PROVE TwiceFew(n - i + 2)
    <2>1. Few(n - i + 1) /\ n - i + 1 \in Nat /\ (n - i + 1) + 1 = n - i + 2
      BY <1>1, <1>2, <1>3
    <2>2. TwiceFew((n - i + 1) + 1)
      BY <2>1, FewSum, FewExamples
    <2>3. QED
      BY <2>1, <2>2
  <1>4. Fits(log, time)
    BY <1>3 DEF Fits
  <1> HIDE DEF more
  <1>5. Young(rt, more)
    <2>1. rt.last - rt.first <= ResetInterval
      BY RateTypes
    <2>2. n < Len(more) /\ Len(more) - n <= rt.count /\ more[n + 1] <= rt.first
      BY <1>1
    <2>3. \A i \in 1..n : rt.first - more[i] < ResetInterval => Few(n - i + 1)
      BY <1>1, <1>2
    <2>4. QED
      BY <1>1, <2>1, <2>2, <2>3, FewExamples DEF Young
  <1>6. QED
    BY <1>4, <1>5 DEF Judged, more

(* What is counted in a record: rt before, then once more, at this time.   *)
Recounted(rt, counted, time) ==
    /\ counted.count = rt.count + 1 /\ counted.first = rt.first
    /\ counted.last = time /\ counted.penalty = rt.penalty

(* The requests from the i-th on, when those after the m-th are counted.   *)
LEMMA CountedFrom ==
    ASSUME NEW n \in Nat, NEW m \in Nat, m < n, NEW k \in Nat, n - m <= k, NEW i \in 1..n
    PROVE  /\ i > m => n - i + 2 \in Nat /\ n - i + 2 <= k + 1
           /\ i <= m => /\ n - m + 1 \in Nat /\ n - m + 1 <= k + 1 /\ m - i + 1 \in Nat
                        /\ (n - m + 1) + (m - i + 1) = n - i + 2 /\ i \in 1..m
  OBVIOUS

(* One request more in a young record that stays.                          *)
LEMMA YoungFits ==
    ASSUME NEW log \in Seq(Nat), NEW time \in Nat, Ordered(log),
           \A i \in 1..Len(log) : log[i] <= time,
           NEW rt \in Tracker, NEW counted \in Tracker, Young(rt, log), rt.first <= time,
           Recounted(rt, counted, time), ~OverRate(counted), ~Old(counted)
    PROVE  Fits(log, time) /\ Judged(counted, Append(log, time))
  <1> DEFINE more == Append(log, time)
             n == Len(log)
  <1>1. /\ n \in Nat /\ Len(more) = n + 1 /\ more[n + 1] = time
        /\ \A i \in 1..n : more[i] = log[i] /\ log[i] \in Nat
    BY Appended
  <1>2. /\ rt.count \in Nat /\ rt.first \in Nat /\ counted.count = rt.count + 1
        /\ counted.first = rt.first /\ counted.last = time /\ counted.penalty = rt.penalty
    BY RateAssumption DEF Recounted, Tracker, RateAssumption
  <1>3. counted.last - counted.first <= ResetInterval
    BY <1>2, RateTypes DEF Old
  <1>4. Few(counted.count)
    BY <1>3, FewCounted
  <1>5. PICK m \in Nat : /\ m < n /\ n - m <= rt.count /\ log[m + 1] <= rt.first
                         /\ \A i \in 1..m : rt.first - log[i] < ResetInterval => Few(m - i + 1)
    BY DEF Young
  <1>6. n \in Nat /\ m < n /\ n - m <= rt.count /\ rt.count \in Nat
    BY <1>1, <1>2, <1>5
  <1>7. ASSUME NEW i \in 1..n, time - log[i] < ResetInterval PROVE TwiceFew(n - i + 2)
    <2>1. /\ i > m => n - i + 2 \in Nat /\ n - i + 2 <= rt.count + 1
          /\ i <= m => /\ n - m + 1 \in Nat /\ n - m + 1 <= rt.count + 1 /\ m - i + 1 \in Nat
                       /\ (n - m + 1) + (m - i + 1) = n - i + 2 /\ i \in 1..m
      <3> HIDE DEF n
      <3>1. i \in 1..n
        BY DEF n
      <3> DEFINE k == rt.count
      <3>2. n \in Nat /\ m < n /\ n - m <= k /\ k \in Nat
        BY <1>6
      <3> HIDE DEF k
      <3>3. /\ i > m => n - i + 2 \in Nat /\ n - i + 2 <= k + 1
            /\ i <= m => /\ n - m + 1 \in Nat /\ n - m + 1 <= k + 1 /\ m - i + 1 \in Nat
                         /\ (n - m + 1) + (m - i + 1) = n - i + 2 /\ i \in 1..m
        BY <3>1, <3>2, CountedFrom
      <3>4. QED
        BY <3>3 DEF k
    <2>2. CASE i > m
      <3>1. n - i + 2 \in Nat /\ n - i + 2 <= counted.count
        BY <1>2, <2>2, <2>1
      <3>2. Few(n - i + 2) /\ Few(0)
        <4>1. Few(n - i + 2)
          BY <1>2, <1>4, <3>1, FewLess
        <4>2. Few(0)
          BY FewExamples, FewLess
        <4>3. QED
          BY <4>1, <4>2
      <3>3. TwiceFew((n - i + 2) + 0)
        BY <3>1, <3>2, FewSum
      <3>4. QED
        BY <3>1, <3>3
    <2>3. CASE i <= m
      <3>1. rt.first - log[i] < ResetInterval /\ i \in 1..m
        <4>1. i \in 1..m /\ time - log[i] < ResetInterval /\ log[i] \in Nat
          BY <1>1, <1>7, <2>3, <2>1
        <4>2. rt.first <= time /\ rt.first \in Nat /\ ResetInterval \in Nat
          BY <1>2, RateTypes
        <4> DEFINE first == rt.first
                   then == log[i]
        <4>3. first <= time /\ first \in Nat /\ then \in Nat /\ time - then < ResetInterval
          BY <4>1, <4>2
        <4> HIDE DEF first, then
        <4>4. first - then < ResetInterval
          BY <4>2, <4>3
        <4>5. QED
          BY <4>1, <4>4 DEF first, then
      <3>2. Few(m - i + 1)
        BY <1>5, <3>1
      <3>3. n - m + 1 \in Nat /\ n - m + 1 <= counted.count /\ m - i + 1 \in Nat
        BY <1>2, <2>3, <2>1
      <3>4. Few(n - m + 1)
        BY <1>2, <1>4, <3>3, FewLess
      <3>5. TwiceFew((n - m + 1) + (m - i + 1))
        BY <3>2, <3>3, <3>4, FewSum
      <3>6. (n - m + 1) + (m - i + 1) = n - i + 2
        BY <2>3, <2>1
      <3>7. QED
        BY <3>5, <3>6
    <2>4. QED
      BY <1>6, <2>2, <2>3
  <1>8. Fits(log, time)
    BY <1>7 DEF Fits
  <1> HIDE DEF more
  <1>9. Young(counted, more)
    <2>1. m < Len(more) /\ Len(more) - m <= counted.count /\ more[m + 1] <= counted.first
      <3>1. m + 1 \in 1..n /\ m < n + 1
        BY <1>6
      <3>2. (n + 1) - m <= rt.count + 1
        BY <1>6
      <3>3. more[m + 1] = log[m + 1]
        BY <1>1, <3>1
      <3>4. log[m + 1] <= rt.first
        BY <1>5
      <3> HIDE DEF n
      <3>5. QED
        BY <1>1, <1>2, <3>1, <3>2, <3>3, <3>4
    <2>2. \A i \in 1..m : more[i] = log[i]
      BY <1>1, <1>5
    <2>3. \A i \in 1..m : counted.first - more[i] < ResetInterval => Few(m - i + 1)
      BY <1>2, <1>5, <2>2
    <2>4. counted.penalty = 0
      BY <1>2 DEF Young
    <2>5. QED
      BY <1>3, <1>4, <2>1, <2>3, <2>4 DEF Young
  <1>10. QED
    BY <1>8, <1>9 DEF Judged, more

(* The last request of a young record, which is forgotten with it.         *)
LEMMA YoungForgotten ==
    ASSUME NEW log \in Seq(Nat), NEW time \in Nat, Ordered(log),
           \A i \in 1..Len(log) : log[i] <= time,
           NEW rt \in Tracker, NEW counted \in Tracker, Young(rt, log),
           Recounted(rt, counted, time), Old(counted)
    PROVE  Fits(log, time) /\ Forgotten(Append(log, time))
  <1> DEFINE more == Append(log, time)
             n == Len(log)
  <1>1. /\ n \in Nat /\ Len(more) = n + 1 /\ more[n + 1] = time
        /\ \A i \in 1..n : more[i] = log[i] /\ log[i] \in Nat
    BY Appended
  <1>2. rt.count \in Nat /\ rt.first \in Nat /\ time - rt.first > ResetInterval
    BY RateAssumption DEF Recounted, Tracker, RateAssumption, Old
  <1>3. PICK m \in Nat : m < n /\ n - m <= rt.count /\ log[m + 1] <= rt.first
    BY DEF Young
  <1>4. Few(rt.count)
    BY DEF Young
  <1>5. ASSUME NEW i \in 1..n, time - log[i] < ResetInterval
        PROVE  n - i + 2 <= rt.count
    <2>1. i > m + 1
      <3>1. SUFFICES ASSUME i <= m + 1 PROVE FALSE
        BY <1>1, <1>3
      <3>2. m + 1 \in 1..n
        BY <1>1, <1>3
      <3>3. log[i] <= log[m + 1]
        BY <3>1, <3>2 DEF Ordered
      <3> DEFINE then == log[i]
                 there == log[m + 1]
                 first == rt.first
      <3>4. then \in Nat /\ there \in Nat /\ then <= there
        BY <1>1, <3>2, <3>3
      <3>5. first \in Nat /\ time - first > ResetInterval /\ there <= first
        BY <1>2, <1>3
      <3>6. time - then < ResetInterval /\ ResetInterval \in Nat
        BY <1>5, RateTypes
      <3> HIDE DEF then, there, first
      <3>7. QED
        BY <3>4, <3>5, <3>6
    <2>2. QED
      BY <1>1, <1>2, <1>3, <2>1
  <1>6. ASSUME NEW i \in 1..n, time - log[i] < ResetInterval
        PROVE  Few(n - i + 2) /\ TwiceFew(n - i + 2)
    <2>1. n - i + 2 \in Nat /\ n - i + 2 <= rt.count
      BY <1>1, <1>5, <1>6
    <2>2. Few(n - i + 2)
      BY <1>2, <1>4, <2>1, FewLess
    <2>3. Few(0)
      BY FewExamples, FewLess
    <2>4. TwiceFew((n - i + 2) + 0)
      BY <2>1, <2>2, <2>3, FewSum
    <2>5. QED
      BY <2>1, <2>2, <2>4
  <1>7. Fits(log, time)
    BY <1>6 DEF Fits
  <1> HIDE DEF more
  <1>8. ASSUME NEW i \in 1..Len(more), more[Len(more)] - more[i] < ResetInterval
        PROVE  Few(Len(more) - i + 1)
    <2>1. CASE i \in 1..n
      <3>1. Few(n - i + 2) /\ Len(more) - i + 1 = n - i + 2
        BY <1>1, <1>6, <1>8, <2>1
      <3>2. QED
        BY <3>1
    <2>2. CASE i = n + 1
      <3>1. Len(more) - i + 1 = 1
        BY <1>1, <2>2
      <3>2. QED
        BY <3>1, FewExamples
    <2>3. QED
      BY <1>1, <2>1, <2>2
  <1>9. QED
    BY <1>7, <1>8 DEF Forgotten, more

(* The request that ends a penalty.                                        *)
LEMMA BoxedFits ==
    ASSUME NEW log \in Seq(Nat), NEW time \in Nat,
           \A i \in 1..Len(log) : log[i] <= time,
           NEW rt \in Tracker, Boxed(rt, log), rt.penalty < time,
           NEW left, left.penalty = 0, left.first = rt.first, left.last = time
    PROVE  Fits(log, time) /\ Judged(left, Append(log, time))
  <1> DEFINE more == Append(log, time)
             n == Len(log)
  <1>1. /\ n \in Nat /\ Len(more) = n + 1 /\ more[n + 1] = time
        /\ \A i \in 1..n : more[i] = log[i] /\ log[i] \in Nat
    BY Appended
  <1>2. rt.penalty \in Nat /\ rt.first \in Nat /\ ResetInterval <= PenaltyTime
    BY RateAssumption, IntervalAssumption DEF Tracker, RateAssumption, IntervalAssumption
  <1>3. \A i \in 1..n : time - log[i] >= ResetInterval
    BY <1>1, <1>2, RateTypes DEF Boxed
  <1>4. Fits(log, time)
    BY <1>1, <1>3, RateTypes DEF Fits
  <1> HIDE DEF more
  <1>5. LetOut(left, more)
    BY <1>1, <1>2, <1>3, RateTypes DEF LetOut, Boxed
  <1>6. QED
    BY <1>4, <1>5 DEF Judged, more

(* The next one: its record is forgotten.                                  *)
LEMMA LetOutForgotten ==
    ASSUME NEW log \in Seq(Nat), NEW time \in Nat, Ordered(log),
           \A i \in 1..Len(log) : log[i] <= time,
           NEW rt \in Tracker, NEW counted \in Tracker, LetOut(rt, log), rt.last <= time,
           Recounted(rt, counted, time)
    PROVE  Old(counted) /\ Fits(log, time) /\ Forgotten(Append(log, time))
  <1> DEFINE more == Append(log, time)
             n == Len(log)
  <1>1. /\ n \in Nat /\ Len(more) = n + 1 /\ more[n + 1] = time
        /\ \A i \in 1..n : more[i] = log[i] /\ log[i] \in Nat
    BY Appended
  <1>2. Old(counted)
    <2>1. /\ rt.last \in Nat /\ rt.first \in Nat /\ counted.last = time
          /\ counted.first = rt.first /\ rt.last - rt.first > ResetInterval
      BY RateAssumption DEF Tracker, RateAssumption, Recounted, LetOut
    <2>2. QED
      BY <2>1, RateTypes DEF Old
  <1>3. \A i \in 1..n : time - log[i] < ResetInterval => i = n
    BY <1>1, RateTypes DEF LetOut
  <1>4. Few(2) /\ Few(1) /\ TwiceFew(2)
    <2>1. TwiceFew(1 + 1)
      BY FewExamples, FewSum
    <2>2. QED
      BY <2>1, FewExamples
  <1>5. Fits(log, time)
    BY <1>1, <1>3, <1>4 DEF Fits
  <1> HIDE DEF more
  <1>6. ASSUME NEW i \in 1..Len(more), more[Len(more)] - more[i] < ResetInterval
        PROVE  Few(Len(more) - i + 1)
    <2>1. i = n \/ i = n + 1
      BY <1>1, <1>3, <1>6
    <2>2. Len(more) - i + 1 \in {1, 2}
      BY <1>1, <2>1
    <2>3. QED
      BY <1>4, <2>2
  <1>7. QED
    BY <1>2, <1>5, <1>6 DEF Forgotten, more

(* -------- the steps --------------------------------------------------------- *)

(* What RateCheckImpl leaves of a record and its log: refused, the request *)
(* is not logged; let through, it fits, and the record that is left, if    *)
(* any, goes with the longer log.                                          *)
LogOutcome(t, left, answer) ==
    LET log  == letIn[addr[t]]
        time == currentTime[t]
    IN  /\ left # None => left.addr = addr[t] /\ left.first = table[pRT[t]].first
                          /\ left.last = time
        /\ ~answer => left # None /\ Judged(left, log)
        /\ answer => /\ Fits(log, time)
                     /\ IF left = None THEN Forgotten(Append(log, time))
                                       ELSE Judged(left, Append(log, time))

LEMMA UpdateLog ==
    ASSUME IInv, LogInv, NEW t \in Threads, Update(t)
    PROVE  \E left \in Tracker \cup {None}, answer \in BOOLEAN :
              Store(t, left) /\ Return(t, answer) /\ LogOutcome(t, left, answer)
  <1> DEFINE rt == table[pRT[t]]
             counted == Counted(t)
             time == currentTime[t]
             log == letIn[addr[t]]
             boxed == [counted EXCEPT !.penalty = time + PenaltyTime]
             out == [counted EXCEPT !.penalty = 0]
  <1>1. /\ pc[t] = "update" /\ pRT[t] \in Nodes /\ NodesOf(addr[t]) = {pRT[t]}
        /\ rt \in Tracker /\ rt.addr = addr[t] /\ counted \in Tracker
        /\ counted.addr = addr[t] /\ counted.penalty = rt.penalty /\ time \in 1..MaxTime
    BY UpdateStores
  <1>2. addr[t] \in Addrs
    BY <1>1 DEF IInv, Locals
  <1>3. /\ log \in Seq(Nat) /\ Ordered(log) /\ WithinTwice(log) /\ Judged(rt, log)
        /\ \A i \in 1..Len(log) : log[i] <= time
        /\ rt.first <= time /\ rt.last <= time
    <2>1. AllBefore(time)
      BY <1>1 DEF LogInv
    <2>2. rt # None
      BY <1>1, NoneIsNoTracker DEF NoneIsNoTracker
    <2>3. QED
      BY <1>1, <1>2, <2>1, <2>2 DEF LogInv, AllBefore
  <1>4. Recounted(rt, counted, time) /\ counted.first = rt.first /\ counted.last = time
    BY <1>1 DEF Recounted, Counted, Tracker
  <1>5. time \in Nat /\ time > 0 /\ rt.first \in Nat /\ rt.penalty \in Nat
    BY <1>1, RateAssumption DEF Tracker, RateAssumption
  <1>6. /\ boxed \in Tracker /\ boxed.addr = addr[t] /\ boxed.first = rt.first
        /\ boxed.last = time /\ boxed.penalty = time + PenaltyTime
    BY <1>1, <1>4, RateAssumption DEF Tracker, RateAssumption
  <1>7. /\ out \in Tracker /\ out.addr = addr[t] /\ out.first = rt.first
        /\ out.last = time /\ out.penalty = 0
    BY <1>1, <1>4, RateAssumption DEF Tracker, RateAssumption
  <1>8. None \notin Tracker
    BY NoneIsNoTracker DEF NoneIsNoTracker
  <1>9. Update(t) <=> /\ pc[t] = "update" /\ pRT[t] # None
                      /\ Penalised(t, counted) \/ Unpenalised(t, counted)
    BY DEF Update
  <1> HIDE DEF rt, counted, time, log, boxed, out
  <1>10. CASE Store(t, boxed) /\ Return(t, FALSE)
    <2>1. Boxed(boxed, log)
      BY <1>3, <1>5, <1>6, Appended, RateTypes DEF Boxed
    <2>2. LogOutcome(t, boxed, FALSE)
      BY <1>6, <1>8, <2>1 DEF LogOutcome, Judged, rt, time, log
    <2>3. QED
      BY <1>6, <1>10, <2>2
  <1>11. CASE /\ counted.penalty # 0 /\ StillInPenalty(counted, time)
              /\ Store(t, counted) /\ Return(t, FALSE)
    <2>1. Boxed(counted, log)
      BY <1>3, <1>4, <1>11 DEF Judged, Boxed, LetOut, Young, Recounted
    <2>2. LogOutcome(t, counted, FALSE)
      BY <1>1, <1>4, <1>8, <2>1 DEF LogOutcome, Judged, rt, time, log
    <2>3. QED
      BY <1>1, <1>11, <2>2
  <1>12. CASE /\ counted.penalty # 0 /\ ~StillInPenalty(counted, time)
              /\ Store(t, out) /\ Return(t, TRUE)
    <2>1. Boxed(rt, log) /\ rt.penalty < time
      BY <1>1, <1>3, <1>5, <1>12 DEF Judged, LetOut, Young, StillInPenalty
    <2>2. Fits(log, time) /\ Judged(out, Append(log, time))
      BY <1>1, <1>3, <1>5, <1>7, <2>1, BoxedFits
    <2>3. LogOutcome(t, out, TRUE)
      BY <1>7, <1>8, <2>2 DEF LogOutcome, rt, time, log
    <2>4. QED
      BY <1>7, <1>12, <2>3
  <1>13. CASE /\ counted.penalty = 0 /\ ~OverRate(counted)
              /\ IF Old(counted) THEN Store(t, None) ELSE Store(t, counted)
              /\ Return(t, TRUE)
    <2>1. LetOut(rt, log) \/ Young(rt, log)
      BY <1>1, <1>3, <1>13 DEF Judged, Boxed
    <2>2. CASE Old(counted)
      <3>1. Fits(log, time) /\ Forgotten(Append(log, time))
        <4>1. CASE LetOut(rt, log)
          BY <1>1, <1>3, <1>4, <1>5, <4>1, LetOutForgotten
        <4>2. CASE Young(rt, log)
          BY <1>1, <1>3, <1>4, <1>5, <2>2, <4>2, YoungForgotten
        <4>3. QED
          BY <2>1, <4>1, <4>2
      <3>2. LogOutcome(t, None, TRUE)
        BY <3>1 DEF LogOutcome, time, log
      <3>3. QED
        BY <1>13, <2>2, <3>2
    <2>3. CASE ~Old(counted)
      <3>1. Young(rt, log)
        BY <1>1, <1>3, <1>4, <1>5, <2>1, <2>3, LetOutForgotten
      <3>2. Fits(log, time) /\ Judged(counted, Append(log, time))
        BY <1>1, <1>3, <1>4, <1>5, <1>13, <2>3, <3>1, YoungFits
      <3>3. LogOutcome(t, counted, TRUE)
        BY <1>1, <1>4, <1>8, <3>2 DEF LogOutcome, rt, time, log
      <3>4. QED
        BY <1>1, <1>13, <2>3, <3>3
    <2>4. QED
      BY <2>2, <2>3
  <1>14. QED
    BY <1>9, <1>10, <1>11, <1>12, <1>13 DEF Penalised, Unpenalised, boxed, out, time

(* One record and the log of its address change, the others stay.          *)
LEMMA LogChanged ==
    ASSUME IInv, LogInv, \A s \in Threads : pc'[s] = "idle", now' = now,
           NEW a \in Addrs, NEW n \in Nodes, NEW time \in Nat, time <= now,
           NEW left \in Tracker \cup {None}, NEW log \in Seq(Nat),
           NodesOf(a) \subseteq {n}, table[n] = None \/ NodesOf(a) = {n},
           table' = [table EXCEPT ![n] = left],
           letIn' = [letIn EXCEPT ![a] = log],
           left # None => left.addr = a /\ left.first <= time /\ left.last <= time,
           Ordered(log), WithinTwice(log), \A i \in 1..Len(log) : log[i] <= time,
           IF left = None THEN Forgotten(log) ELSE Judged(left, log)
    PROVE  LogInv'
  <1>1. /\ table \in [Nodes -> Tracker \cup {None}] /\ now \in Nat /\ letIn \in [Addrs -> Seq(Nat)]
        /\ None \notin Tracker
    BY RateAssumption, NoneIsNoTracker DEF IInv, TypeOK, LogInv, RateAssumption, NoneIsNoTracker
  <1>2. /\ table'[n] = left
        /\ \A m \in Nodes : m # n => table'[m] = table[m]
    BY <1>1
  <1>3. /\ letIn' \in [Addrs -> Seq(Nat)] /\ letIn'[a] = log
        /\ \A b \in Addrs : b # a => letIn'[b] = letIn[b]
    BY <1>1
  <1>4. NodesOf(a)' = IF left = None THEN {} ELSE {n}
    BY <1>2 DEF NodesOf, Nodes
  <1>5. ASSUME NEW b \in Addrs, b # a
        PROVE  /\ NodesOf(b)' = NodesOf(b)
               /\ \A m \in NodesOf(b) : table'[m] = table[m]
    <2>1. n \notin NodesOf(b) /\ n \notin NodesOf(b)'
      BY <1>2, <1>5 DEF NodesOf, Nodes
    <2>2. QED
      BY <1>2, <2>1 DEF NodesOf, Nodes
  <1>6. ASSUME NEW b \in Addrs
        PROVE  /\ Ordered(letIn'[b]) /\ WithinTwice(letIn'[b])
               /\ NodesOf(b)' = {} => Forgotten(letIn'[b])
               /\ \A m \in NodesOf(b)' : Judged(table'[m], letIn'[b])
    <2>1. CASE b = a
      <3>1. letIn'[b] = log /\ NodesOf(b)' = IF left = None THEN {} ELSE {n}
        BY <1>3, <1>4, <2>1
      <3>2. \A m \in NodesOf(b)' : left # None /\ table'[m] = left
        BY <1>2, <3>1
      <3>3. NodesOf(b)' = {} => left = None
        BY <3>1
      <3>4. QED
        BY <3>1, <3>2, <3>3
    <2>2. CASE b # a
      BY <1>3, <1>5, <2>2 DEF LogInv
    <2>3. QED
      BY <2>1, <2>2
  <1>7. AllBefore(now)'
    <2>1. ASSUME NEW b \in Addrs, NEW i \in 1..Len(letIn'[b]) PROVE letIn'[b][i] <= now
      <3>1. CASE b = a
        BY <1>1, <1>3, <2>1, <3>1, Appended
      <3>2. CASE b # a
        BY <1>3, <2>1, <3>2 DEF LogInv, AllBefore
      <3>3. QED
        BY <3>1, <3>2
    <2>2. ASSUME NEW m \in Nodes, table'[m] # None
          PROVE  table'[m].first <= now /\ table'[m].last <= now
      <3>1. CASE m = n
        BY <1>1, <1>2, <2>2, <3>1, RateAssumption DEF Tracker, RateAssumption
      <3>2. CASE m # n
        BY <1>2, <2>2, <3>2 DEF LogInv, AllBefore
      <3>3. QED
        BY <3>1, <3>2
    <2>3. QED
      BY <2>1, <2>2 DEF AllBefore, Nodes
  <1>8. QED
    BY <1>3, <1>6, <1>7 DEF LogInv

LEMMA VerdictGiven ==
    ASSUME TypeOK, NEW t \in Threads, NEW answer \in BOOLEAN, Return(t, answer)
    PROVE  verdict'[t] = answer
  <1>1. verdict \in [Threads -> BOOLEAN \cup {None}] /\ verdict' = [verdict EXCEPT ![t] = answer]
    BY DEF TypeOK, Return
  <1>2. QED
    BY <1>1, Zenon

LEMMA LogUpdate ==
    ASSUME IInv, LogInv, KeepLog, NEW t \in Threads, Update(t), Record(t)
    PROVE  LogInv'
  <1> DEFINE a == addr[t]
             time == currentTime[t]
  <1>1. PICK left \in Tracker \cup {None}, answer \in BOOLEAN :
               Store(t, left) /\ Return(t, answer) /\ LogOutcome(t, left, answer)
    BY UpdateLog
  <1>2. /\ pc[t] = "update" /\ pRT[t] \in Nodes /\ NodesOf(a) = {pRT[t]}
        /\ time \in 1..MaxTime /\ table[pRT[t]] \in Tracker
    BY UpdateStores
  <1>3. a \in Addrs /\ time \in Nat /\ time <= now /\ AllBefore(time)
    BY <1>2, RateAssumption DEF IInv, Locals, LogInv, RateAssumption
  <1>4. ~Dumps(t) /\ verdict'[t] = answer
    BY <1>1, <1>2, VerdictGiven, RateAssumption DEF Dumps, RateAssumption, Nodes, IInv
  <1>5. (\A s \in Threads : pc'[s] = "idle") /\ now' = now
    BY <1>1, <1>2, NobodyInside DEF Return
  <1>6. /\ letIn \in [Addrs -> Seq(Nat)] /\ letIn[a] \in Seq(Nat)
        /\ Ordered(letIn[a]) /\ WithinTwice(letIn[a]) /\ None \notin Tracker
        /\ \A i \in 1..Len(letIn[a]) : letIn[a][i] <= time
    BY <1>3, NoneIsNoTracker DEF LogInv, AllBefore, NoneIsNoTracker
  <1>7. left # None => left.addr = a /\ left.first <= time /\ left.last <= time
    <2>1. table[pRT[t]].first <= time
      BY <1>2, <1>3, <1>6 DEF AllBefore
    <2>2. QED
      BY <1>1, <1>3, <2>1 DEF LogOutcome
  <1>8. table' = [table EXCEPT ![pRT[t]] = left]
    BY <1>1 DEF Store
  <1>9. CASE ~answer
    <2>1. letIn' = [letIn EXCEPT ![a] = letIn[a]]
      BY <1>4, <1>6, <1>9 DEF Record
    <2>2. left # None /\ Judged(left, letIn[a])
      BY <1>1, <1>9 DEF LogOutcome
    <2>3. QED
      BY <1>2, <1>3, <1>5, <1>6, <1>7, <1>8, <2>1, <2>2, LogChanged
  <1>10. CASE answer
    <2> DEFINE log == Append(letIn[a], time)
    <2>1. letIn' = [letIn EXCEPT ![a] = log]
      BY <1>4, <1>10 DEF Record
    <2>2. /\ Fits(letIn[a], time)
          /\ IF left = None THEN Forgotten(log) ELSE Judged(left, log)
      BY <1>1, <1>10 DEF LogOutcome
    <2>3. log \in Seq(Nat) /\ Ordered(log) /\ WithinTwice(log)
      BY <1>3, <1>6, <2>2, FitsAppended
    <2>4. \A i \in 1..Len(log) : log[i] <= time
      BY <1>3, <1>6, Appended
    <2> HIDE DEF log
    <2>5. QED
      BY <1>2, <1>3, <1>5, <1>6, <1>7, <1>8, <2>1, <2>2, <2>3, <2>4, LogChanged
  <1>11. QED
    BY <1>9, <1>10

LEMMA LogInsertNew ==
    ASSUME IInv, LogInv, KeepLog, NEW t \in Threads, InsertNew(t), Record(t)
    PROVE  LogInv'
  <1> DEFINE a == addr[t]
             time == currentTime[t]
             new == NewTracker(t)
  <1>1. pc[t] = "update" /\ pRT[t] = None /\ Return(t, TRUE)
    BY DEF InsertNew
  <1>2. /\ NodesOf(a) = {} /\ a \in Addrs /\ time \in 1..MaxTime /\ time \in Nat
        /\ time <= now /\ AllBefore(time)
    <2>1. NodesOf(a) = {}
      BY <1>1 DEF IInv, PointerIsCurrent
    <2>2. a \in Addrs /\ time \in 1..MaxTime
      BY <1>1 DEF IInv, Locals
    <2>3. time <= now /\ AllBefore(time)
      BY <1>1 DEF LogInv
    <2>4. QED
      BY <2>1, <2>2, <2>3, RateAssumption DEF RateAssumption
  <1>3. verdict'[t] = TRUE
    BY <1>1, VerdictGiven DEF IInv
  <1>4. (\A s \in Threads : pc'[s] = "idle") /\ now' = now
    BY <1>1, NobodyInside DEF Return
  <1>5. /\ new.addr = a /\ new.penalty = 0 /\ new.count = 1
        /\ new.first = time /\ new.last = time
    BY DEF NewTracker
  <1>6. new \in Tracker /\ None \notin Tracker
    <2>1. 1 \in 1..MaxCount /\ 0 \in 0..(MaxTime + PenaltyTime)
      BY RateAssumption DEF RateAssumption
    <2>2. QED
      BY <1>2, <2>1, NoneIsNoTracker DEF NewTracker, Tracker, NoneIsNoTracker
  <1>7. /\ letIn \in [Addrs -> Seq(Nat)] /\ table \in [Nodes -> Tracker \cup {None}]
        /\ now \in Nat
    BY RateAssumption DEF LogInv, IInv, TypeOK, RateAssumption
  <1> HIDE DEF new
  <1>8. CASE FreeNodes # {}
    <2> DEFINE log == Append(letIn[a], time)
    <2>1. PICK n \in FreeNodes : table' = [table EXCEPT ![n] = new]
      BY <1>8 DEF InsertNew, new
    <2>2. letIn' = [letIn EXCEPT ![a] = log]
      BY <1>3, <1>8 DEF Record, Dumps
    <2>3. /\ letIn[a] \in Seq(Nat) /\ Ordered(letIn[a]) /\ WithinTwice(letIn[a])
          /\ Forgotten(letIn[a]) /\ \A i \in 1..Len(letIn[a]) : letIn[a][i] <= time
      BY <1>2 DEF LogInv, AllBefore
    <2>4. Fits(letIn[a], time) /\ Judged(new, log)
      BY <1>2, <1>5, <2>3, NewFits
    <2>5. log \in Seq(Nat) /\ Ordered(log) /\ WithinTwice(log)
      BY <1>2, <2>3, <2>4, FitsAppended
    <2>6. \A i \in 1..Len(log) : log[i] <= time
      BY <1>2, <2>3, Appended
    <2>7. n \in Nodes /\ table[n] = None
      BY DEF FreeNodes
    <2> HIDE DEF log
    <2>8. new # None /\ new.first <= time /\ new.last <= time
      BY <1>2, <1>5, <1>6
    <2>9. QED
      BY <1>2, <1>4, <1>5, <1>6, <2>1, <2>2, <2>4, <2>5, <2>6, <2>7, <2>8, LogChanged
  <1>9. CASE FreeNodes = {}
    <2>1. PICK n \in Nodes : table' = [[m \in Nodes |-> None] EXCEPT ![n] = new]
      BY <1>9 DEF InsertNew, new
    <2>2. letIn' = [b \in Addrs |-> IF b = a THEN <<time>> ELSE <<>>]
      BY <1>1, <1>9 DEF Record, Dumps
    <2>3. table'[n] = new /\ \A m \in Nodes : m # n => table'[m] = None
      BY <2>1
    <2> DEFINE log == Append(<<>>, time)
    <2>4. log = <<time>> /\ log \in Seq(Nat)
      BY <1>2
    <2>5. Ordered(<<>>) /\ WithinTwice(<<>>) /\ Forgotten(<<>>)
      BY DEF Ordered, WithinTwice, Forgotten
    <2>6. Fits(<<>>, time) /\ Judged(new, log)
      <3>1. <<>> \in Seq(Nat) /\ \A i \in 1..Len(<<>>) : <<>>[i] <= time
        OBVIOUS
      <3>2. QED
        BY <1>2, <1>5, <2>5, <3>1, NewFits
    <2>7. Ordered(log) /\ WithinTwice(log)
      <3>1. <<>> \in Seq(Nat)
        OBVIOUS
      <3>2. QED
        BY <1>2, <2>5, <2>6, <3>1, FitsAppended
    <2>8. /\ letIn' \in [Addrs -> Seq(Nat)]
          /\ \A b \in Addrs : letIn'[b] = IF b = a THEN log ELSE <<>>
      BY <2>2, <2>4
    <2> HIDE DEF log
    <2>9. ASSUME NEW b \in Addrs
          PROVE  /\ Ordered(letIn'[b]) /\ WithinTwice(letIn'[b])
                 /\ NodesOf(b)' = {} => Forgotten(letIn'[b])
                 /\ \A m \in NodesOf(b)' : Judged(table'[m], letIn'[b])
      <3>1. NodesOf(b)' = IF b = a THEN {n} ELSE {}
        BY <1>5, <1>6, <2>3 DEF NodesOf, Nodes
      <3>2. QED
        BY <2>3, <2>5, <2>6, <2>7, <2>8, <3>1
    <2>10. AllBefore(now)'
      <3>1. ASSUME NEW b \in Addrs, NEW i \in 1..Len(letIn'[b]) PROVE letIn'[b][i] <= now
        <4>1. b = a /\ letIn'[b] = <<time>>
          BY <2>4, <2>8, <3>1
        <4>2. QED
          BY <1>2, <3>1, <4>1
      <3>2. ASSUME NEW m \in Nodes, table'[m] # None
            PROVE  table'[m].first <= now /\ table'[m].last <= now
        BY <1>2, <1>5, <2>3, <3>2
      <3>3. QED
        BY <1>4, <3>1, <3>2 DEF AllBefore, Nodes
    <2>11. QED
      BY <1>4, <2>8, <2>9, <2>10 DEF LogInv
  <1>10. QED
    BY <1>8, <1>9

LEMMA LogInit == HInit => LogInv
  <1> SUFFICES ASSUME HInit PROVE LogInv
    OBVIOUS
  <1>1. letIn = [a \in Addrs |-> <<>>] /\ letIn \in [Addrs -> Seq(Nat)]
    BY DEF HInit
  <1>2. Ordered(<<>>) /\ WithinTwice(<<>>) /\ Forgotten(<<>>)
    BY DEF Ordered, WithinTwice, Forgotten
  <1>3. \A a \in Addrs : NodesOf(a) = {}
    BY DEF HInit, Init, NodesOf, Nodes
  <1>4. AllBefore(now)
    BY <1>1 DEF AllBefore, HInit, Init
  <1>5. QED
    BY <1>1, <1>2, <1>3, <1>4 DEF LogInv, HInit, Init

(* A step that leaves table and log alone, while time goes on.             *)
LEMMA LogUnchanged ==
    ASSUME IInv, LogInv, UNCHANGED <<table, letIn>>, now' \in Nat, now <= now',
           \A t \in Threads : pc'[t] = "update" =>
               \/ pc[t] = "update" /\ currentTime'[t] = currentTime[t]
               \/ currentTime'[t] = now
    PROVE  LogInv'
  <1>1. /\ letIn' \in [Addrs -> Seq(Nat)]
        /\ \A a \in Addrs :
              /\ Ordered(letIn'[a]) /\ WithinTwice(letIn'[a])
              /\ NodesOf(a)' = {} => Forgotten(letIn'[a])
              /\ \A n \in NodesOf(a)' : Judged(table'[n], letIn'[a])
    BY DEF LogInv, NodesOf, Nodes
  <1>2. \A time \in Nat : AllBefore(time)' <=> AllBefore(time)
    BY DEF AllBefore, Nodes
  <1>3. now \in Nat /\ \A time \in Nat : time <= now => time <= now'
    BY RateAssumption DEF IInv, TypeOK, RateAssumption
  <1>4. AllBefore(now)'
    <2>1. ASSUME NEW a \in Addrs, NEW i \in 1..Len(letIn[a])
          PROVE  letIn[a][i] \in Nat /\ letIn[a][i] <= now
      BY <2>1 DEF LogInv, AllBefore
    <2>2. ASSUME NEW n \in Nodes, table[n] # None
          PROVE  /\ table[n].first \in Nat /\ table[n].first <= now
                 /\ table[n].last \in Nat /\ table[n].last <= now
      BY <2>2, RateAssumption DEF LogInv, AllBefore, IInv, TypeOK, Tracker, RateAssumption
    <2>3. QED
      BY <1>3, <2>1, <2>2 DEF AllBefore, Nodes
  <1>5. ASSUME NEW t \in Threads, pc'[t] = "update"
        PROVE  currentTime'[t] <= now' /\ AllBefore(currentTime[t])'
    <2>1. PICK time \in Nat : currentTime'[t] = time /\ time <= now /\ AllBefore(time)
      BY <1>3, <1>5, RateAssumption DEF LogInv, IInv, TypeOK, RateAssumption
    <2>2. AllBefore(time)'
      BY <1>2, <2>1
    <2>3. QED
      BY <1>3, <2>1, <2>2
  <1>6. QED
    BY <1>1, <1>4, <1>5 DEF LogInv

LEMMA LogStep ==
    ASSUME IInv, LogInv, KeepLog, ~ClockMayStepBack, [HNext]_hvars
    PROVE  LogInv'
  <1>1. now \in Nat
    BY RateAssumption DEF IInv, TypeOK, RateAssumption
  <1>2. CASE UNCHANGED hvars
    BY <1>1, <1>2, LogUnchanged DEF hvars, vars
  <1>3. ASSUME NEW t \in Threads, NEW a \in Addrs, RateCheck(t, a), UNCHANGED letIn
        PROVE  LogInv'
    BY <1>1, <1>3, LogUnchanged DEF RateCheck, IInv, TypeOK
  <1>4. ASSUME NEW t \in Threads, Lookup(t), UNCHANGED letIn PROVE LogInv'
    BY <1>1, <1>4, LogUnchanged DEF Lookup, IInv, TypeOK
  <1>5. ASSUME NEW t \in Threads, InsertNew(t), Record(t) PROVE LogInv'
    BY <1>5, LogInsertNew
  <1>6. ASSUME NEW t \in Threads, Update(t), Record(t) PROVE LogInv'
    BY <1>6, LogUpdate
  <1>7. CASE Tick /\ UNCHANGED letIn
    BY <1>1, <1>7, LogUnchanged DEF Tick
  <1>8. QED
    BY <1>2, <1>3, <1>4, <1>5, <1>6, <1>7 DEF HNext

(* A limiter whose clock is not set back lets less than twice the rate     *)
(* through in any interval of ResetInterval seconds in which RateCheckImpl *)
(* does not dump the table, for any number of threads, addresses and nodes *)
(* and whenever the requests come.                                         *)
THEOREM RateTheorem ==
    ASSUME ~ClockMayStepBack
    PROVE  HSpec => []LessThanTwiceTheRate
  <1> DEFINE NotKept == letIn = [a \in Addrs |-> <<>>]
  <1>1. CASE KeepLog
    <2>1. IInv /\ LogInv /\ [HNext]_hvars => LogInv'
      BY <1>1, LogStep
    <2>2. LogInv => LessThanTwiceTheRate
      <3>1. SUFFICES ASSUME LogInv, NEW a \in Addrs
                     PROVE  WithinTwice(letIn[a]) /\ DOMAIN letIn[a] = 1..Len(letIn[a])
        BY DEF LessThanTwiceTheRate, WithinTwice, TwiceFew
      <3>2. QED
        BY <3>1 DEF LogInv
    <2>3. QED
      BY <2>1, <2>2, LogInit, Invariant, PTL DEF HSpec
  <1>2. CASE ~KeepLog
    <2>1. HInit => NotKept
      BY DEF HInit
    <2>2. NotKept /\ [HNext]_hvars => NotKept'
      BY <1>2 DEF HNext, Record, hvars
    <2>3. NotKept => LessThanTwiceTheRate
      BY DEF LessThanTwiceTheRate
    <2> HIDE DEF NotKept
    <2>4. QED
      BY <2>1, <2>2, <2>3, PTL DEF HSpec
  <1>3. QED
    BY <1>1, <1>2
=============================================================================
