---------------------------- MODULE RateHistory ----------------------------
(***************************************************************************)
(* The rate limiter with the history its promises are about: what every    *)
(* address asked and was answered.  The history variables are written by   *)
(* the step that returns a verdict and read by no step.                    *)
(***************************************************************************)
EXTENDS RateLimiter, Sequences

CONSTANTS
    Gap,            \* a polite address leaves this many seconds between requests
    KeepLog         \* TRUE to keep the times of the requests let through

(* At one request every Gap seconds the rate of a record is too low to be  *)
(* judged, or below MaxRate from the first time it is judged.              *)
ASSUME GapAssumption ==
    /\ Gap \in Nat
    /\ MinCount * Hour < MaxRate * ((MinCount - 1) * Gap)

(* Too few requests to be judged are fewer than the rate allows in the     *)
(* interval, in which no penalty ends.                                     *)
ASSUME IntervalAssumption ==
    /\ (MinCount - 1) * Hour < MaxRate * ResetInterval
    /\ 2 * Hour < MaxRate * ResetInterval
    /\ ResetInterval <= PenaltyTime

VARIABLES
    refusedUntil,   \* per address: the end of the penalty its refusal
                    \* announced, 0 once it is let in or the table is dumped
    lastRequest,    \* per address: when it last asked; 0 if never
    polite,         \* the addresses that have always left Gap between requests
    letIn           \* per address: when it was let through, since the last
                    \* dump of the table

hvars == <<vars, refusedUntil, lastRequest, polite, letIn>>

HInit ==
    /\ Init
    /\ refusedUntil = [a \in Addrs |-> 0]
    /\ lastRequest = [a \in Addrs |-> 0]
    /\ polite = Addrs
    /\ letIn = [a \in Addrs |-> <<>>]

Dumps(t) == pRT[t] = None /\ FreeNodes = {}

(* The history of the step in which thread t answers its caller.           *)
Record(t) ==
    LET a == addr[t]
        time == currentTime[t]
    IN  /\ refusedUntil' =
              IF Dumps(t) THEN [b \in Addrs |-> 0]
              ELSE IF verdict'[t] THEN [refusedUntil EXCEPT ![a] = 0]
              ELSE IF refusedUntil[a] < time
              THEN [refusedUntil EXCEPT ![a] = time + PenaltyTime]
              ELSE refusedUntil
        /\ lastRequest' = [lastRequest EXCEPT ![a] = time]
        /\ polite' = IF lastRequest[a] # 0 /\ time - lastRequest[a] < Gap
                     THEN polite \ {a} ELSE polite
        /\ letIn' = IF ~KeepLog THEN letIn
                    ELSE IF Dumps(t) THEN [b \in Addrs |-> IF b = a THEN <<time>> ELSE <<>>]
                    ELSE IF verdict'[t] THEN [letIn EXCEPT ![a] = Append(@, time)]
                    ELSE letIn

HNext ==
    \/ \E t \in Threads :
          \/ /\ (\E a \in Addrs : RateCheck(t, a)) \/ Lookup(t)
             /\ UNCHANGED <<refusedUntil, lastRequest, polite, letIn>>
          \/ InsertNew(t) /\ Record(t)
          \/ Update(t) /\ Record(t)
    \/ Tick /\ UNCHANGED <<refusedUntil, lastRequest, polite, letIn>>

HSpec == HInit /\ [][HNext]_hvars

(* -------- properties ---------------------------------------------------- *)

(* "One hour penalty": an address sent to the penalty box is refused until *)
(* the penalty it was given is over, whatever it and the others do and     *)
(* however the clock is set, unless the table had to be dumped.            *)
PenaltyIsServed ==
    [][\A t \in Threads :
          pc[t] = "update" /\ pc'[t] = "idle" /\ verdict'[t]
             => refusedUntil[addr[t]] < currentTime[t]]_hvars

(* An address that always leaves Gap seconds between two requests is never *)
(* refused, however much the others flood the server and whenever their    *)
(* floods make RateCheckImpl dump the table.                               *)
PoliteIsNeverRefused ==
    [][\A t \in Threads :
          pc[t] = "update" /\ pc'[t] = "idle" /\ ~verdict'[t]
             => addr[t] \notin polite']_hvars

(* A record is forgotten after ResetInterval, so a burst at the end of one *)
(* record and a burst at the start of the next can follow each other: what *)
(* RateCheckImpl guarantees is less than twice the rate in any interval,   *)
(* unless the table had to be dumped in it.                                *)
LessThanTwiceTheRate ==
    \A a \in Addrs : \A i, j \in DOMAIN letIn[a] :
        i <= j /\ letIn[a][j] - letIn[a][i] < ResetInterval
           => (j - i + 1) * Hour < 2 * MaxRate * ResetInterval
=============================================================================
