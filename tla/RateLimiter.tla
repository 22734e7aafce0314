---------------------------- MODULE RateLimiter ----------------------------
(***************************************************************************)
(* The rate limiter the threads of a server share                          *)
(* (networkutils/ratelimiter.cpp): RateCheck, called for every datagram    *)
(* (stunsocketthread.cpp) and every accepted connection (tcpserver.cpp).   *)
(*                                                                         *)
(* A RateTracker lives in a node of the hash table.  RateCheckImpl holds a *)
(* pointer to that node from its lookup to its return, and any thread may  *)
(* reset the table: the pointer is only safe because the mutex is held     *)
(* meanwhile.  Lookup and update are steps of their own here, so that what *)
(* the mutex is for can be seen.                                           *)
(***************************************************************************)
EXTENDS Integers, FiniteSets

CONSTANTS
    Threads, Addrs,
    None,           \* NULL, or no thread
    Capacity,       \* nodes of the table
    MinCount,       \* MIN_COUNT_FOR_CONSIDERATION
    MaxRate,        \* MAX_RATE
    Hour,           \* the 3600 seconds a rate is normalised to
    ResetInterval,  \* RESET_INTERVAL_SECONDS
    PenaltyTime,    \* PENALTY_TIME_SECONDS
    ClockMayStepBack, \* TRUE if time(2) may be set back while the server runs
    MaxTime,        \* bound on the clock
    MaxCount        \* bound on the requests counted in one record

ASSUME RateAssumption ==
    /\ IsFiniteSet(Threads)
    /\ None \notin Threads \cup Addrs \cup 1..Capacity
    /\ {Capacity, MaxRate, Hour, ResetInterval, PenaltyTime} \subseteq Nat \ {0}
    /\ MinCount \in Nat /\ MinCount > 1
    /\ MaxTime \in Nat \ {0} /\ MaxCount \in Nat \ {0}
    /\ ClockMayStepBack \in BOOLEAN

Tracker == [addr : Addrs, count : 1..MaxCount, first : 1..MaxTime, last : 1..MaxTime,
            penalty : 0..(MaxTime + PenaltyTime)]

ASSUME NoneIsNoTracker == None \notin Tracker

VARIABLES
    now,            \* time(2)
    table,          \* the RateTracker in each node, None in a free one
    mutex,          \* the thread that holds _mutex
    pc, addr,       \* per thread: the next step of RateCheck, its argument,
    currentTime, pRT,   \* its locals,
    verdict         \* and what its last call returned

vars == <<now, table, mutex, pc, addr, currentTime, pRT, verdict>>

Nodes == 1..Capacity

Init ==
    /\ now = 1
    /\ table = [n \in Nodes |-> None]
    /\ mutex = None
    /\ pc = [t \in Threads |-> "idle"]
    /\ addr = [t \in Threads |-> None]
    /\ currentTime = [t \in Threads |-> 0]
    /\ pRT = [t \in Threads |-> None]
    /\ verdict = [t \in Threads |-> None]

(* -------- operators ----------------------------------------------------- *)

NodesOf(a) == {n \in Nodes : table[n] # None /\ table[n].addr = a}
FreeNodes  == {n \in Nodes : table[n] = None}

get_rate_NoMinimum(rt) ==
    LET seconds == IF rt.last > rt.first THEN rt.last - rt.first ELSE 1
    IN  (rt.count * Hour) \div seconds

get_rate(rt) ==
    LET seconds == IF rt.last > rt.first THEN rt.last - rt.first ELSE 1
    IN  IF rt.count < MinCount THEN 0 ELSE (rt.count * Hour) \div seconds

(* -------- the steps of RateCheck ---------------------------------------- *)

(* UDP and TCP servers create their limiter with isUsingLock exactly when  *)
(* they start more than one thread.                                        *)
isUsingLock_Never == FALSE

isUsingLock == Cardinality(Threads) > 1

Lock(t) == IF isUsingLock THEN mutex = None /\ mutex' = t ELSE UNCHANGED mutex

RateCheck(t, a) ==
    /\ pc[t] = "idle"
    /\ \A n \in NodesOf(a) : table[n].count < MaxCount
    /\ Lock(t)
    /\ pc' = [pc EXCEPT ![t] = "lookup"]
    /\ addr' = [addr EXCEPT ![t] = a]
    /\ verdict' = [verdict EXCEPT ![t] = None]
    /\ UNCHANGED <<now, table, currentTime, pRT>>

Lookup(t) ==
    /\ pc[t] = "lookup"
    /\ currentTime' = [currentTime EXCEPT ![t] = now]
    /\ \/ NodesOf(addr[t]) = {} /\ pRT' = [pRT EXCEPT ![t] = None]
       \/ \E n \in NodesOf(addr[t]) : pRT' = [pRT EXCEPT ![t] = n]
    /\ pc' = [pc EXCEPT ![t] = "update"]
    /\ UNCHANGED <<now, table, mutex, addr, verdict>>

(* Unlock and return; the locals go out of scope.                          *)
Return(t, answer) ==
    /\ mutex' = IF mutex = t THEN None ELSE mutex
    /\ pc' = [pc EXCEPT ![t] = "idle"]
    /\ verdict' = [verdict EXCEPT ![t] = answer]
    /\ addr' = [addr EXCEPT ![t] = None]
    /\ currentTime' = [currentTime EXCEPT ![t] = 0]
    /\ pRT' = [pRT EXCEPT ![t] = None]
    /\ UNCHANGED now

NewTracker(t) ==
    [addr |-> addr[t], count |-> 1, first |-> currentTime[t], last |-> currentTime[t],
     penalty |-> 0]

(* A full table is dumped to make room for the newcomer.                   *)
InsertNew(t) ==
    /\ pc[t] = "update"
    /\ pRT[t] = None
    /\ \/ \E n \in FreeNodes : table' = [table EXCEPT ![n] = NewTracker(t)]
       \/ /\ FreeNodes = {}
          /\ \E n \in Nodes :
                table' = [[m \in Nodes |-> None] EXCEPT ![n] = NewTracker(t)]
    /\ Return(t, TRUE)

Counted(t) ==
    [table[pRT[t]] EXCEPT !.count = @ + 1, !.last = currentTime[t]]

StillInPenalty_Early(rt, time) == rt.penalty > time

StillInPenalty(rt, time) == rt.penalty >= time

Old_Swapped(rt) == rt.first - rt.last < ResetInterval

(* The record has been kept for longer than the interval that is judged.   *)
Old(rt) == rt.last - rt.first > ResetInterval

OverRate(rt) == get_rate(rt) >= MaxRate

Store(t, rt) == table' = [table EXCEPT ![pRT[t]] = rt]

(* In the penalty box: refused while it lasts, refused again for another   *)
(* PenaltyTime if the rate is still too high, or let out.                  *)
Penalised(t, rt) ==
    /\ rt.penalty # 0
    /\ \/ /\ StillInPenalty(rt, currentTime[t])
          /\ Store(t, rt)
          /\ Return(t, FALSE)
       \/ /\ ~StillInPenalty(rt, currentTime[t])
          /\ ~OverRate(rt)
          /\ Store(t, [rt EXCEPT !.penalty = 0])
          /\ Return(t, TRUE)
       \/ /\ ~StillInPenalty(rt, currentTime[t])
          /\ OverRate(rt)
          /\ Store(t, [rt EXCEPT !.penalty = currentTime[t] + PenaltyTime])
          /\ Return(t, FALSE)

(* Not in the penalty box: sent there, forgotten, or just counted.         *)
Unpenalised(t, rt) ==
    /\ rt.penalty = 0
    /\ \/ /\ OverRate(rt)
          /\ Store(t, [rt EXCEPT !.penalty = currentTime[t] + PenaltyTime])
          /\ Return(t, FALSE)
       \/ /\ ~OverRate(rt)
          /\ IF Old(rt) THEN Store(t, None) ELSE Store(t, rt)
          /\ Return(t, TRUE)

Update(t) ==
    /\ pc[t] = "update"
    /\ pRT[t] # None
    /\ Penalised(t, Counted(t)) \/ Unpenalised(t, Counted(t))

Tick ==
    /\ \/ now < MaxTime /\ now' = now + 1
       \/ ClockMayStepBack /\ now > 1 /\ now' = now - 1
    /\ UNCHANGED <<table, mutex, pc, addr, currentTime, pRT, verdict>>

Next ==
    \/ \E t \in Threads :
          \/ \E a \in Addrs : RateCheck(t, a)
          \/ Lookup(t)
          \/ InsertNew(t)
          \/ Update(t)
    \/ Tick

Spec == Init /\ [][Next]_vars

(* -------- properties ---------------------------------------------------- *)

(* Every variable has its type: counters and times stay within the bounds. *)
TypeOK ==
    /\ now \in 1..MaxTime
    /\ table \in [Nodes -> Tracker \cup {None}]
    /\ mutex \in Threads \cup {None}
    /\ pc \in [Threads -> {"idle", "lookup", "update"}]
    /\ addr \in [Threads -> Addrs \cup {None}]
    /\ currentTime \in [Threads -> 0..MaxTime]
    /\ pRT \in [Threads -> Nodes \cup {None}]
    /\ verdict \in [Threads -> BOOLEAN \cup {None}]

(* Between its lookup and its return a thread's pRT points at the record   *)
(* of its own address, and a lookup that found nothing is still right: no  *)
(* other thread resets the table, reuses the node or inserts the address   *)
(* in between, so no address is charged for another's requests and none    *)
(* has two records.                                                        *)
PointerIsCurrent ==
    \A t \in Threads : pc[t] = "update" =>
        NodesOf(addr[t]) = IF pRT[t] = None THEN {} ELSE {pRT[t]}
=============================================================================
