-------------------------- MODULE StunServerProofs --------------------------
(***************************************************************************)
(* Proofs about the server program for any options, configurations,        *)
(* adapters and clients, and any size of the receive buffers.              *)
(***************************************************************************)
EXTENDS StunServer, SequenceTheorems, TLAPS

Places == {"off", "test", "select", "recv", "check", "done"}

MainPlaces ==
    {"next", "udpinit", "udpstart", "tcpinit", "tcpstart", "stop", "flag", "post",
     "join", "tcpstop", "release", "done"}

Types ==
    /\ threads \in 0..4
    /\ k \in 1..5 /\ (mpc # "tcpstart" => k \in Threads)
    /\ itor \in Nat \ {0}
    /\ udpServers \in BOOLEAN
    /\ mpc \in MainPlaces
    /\ argsVector \in ArgLists \cup {<<>>}
    /\ tpc \in [Threads -> Places]
    /\ socks \in [Threads -> Seq(RoleSet)]
    /\ fThreadIsValid \in [Threads -> BOOLEAN]
    /\ DOMAIN addrRemote = Threads /\ DOMAIN charged = Threads /\ DOMAIN got = Threads

(* A thread that runs is one of the server's and has not been joined.      *)
RunningIsValid == \A t \in Threads : Runs(t) => fThreadIsValid[t] /\ t <= threads

NoneRuns == \A t \in Threads : ~Runs(t)

(* Where the main thread has no UDP server no thread runs.                 *)
Quiet ==
    \/ mpc \in {"udpinit", "tcpstop", "release", "done"}
    \/ mpc \in {"next", "tcpinit", "tcpstart", "stop"} /\ ~udpServers
    => NoneRuns

(* The one UDP server the options ask for has had its turn.                *)
UdpTaken ==
    \/ argsVector = <<>>
    \/ \E j \in 1..Len(argsVector) : j < itor /\ ~IsTCP(argsVector[j])

OnlyOnce == udpServers \/ mpc \in {"udpinit", "udpstart"} => UdpTaken

SocketsOf(t) == {socks[t][i] : i \in DOMAIN socks[t]}

Starting ==
    mpc = "udpstart" =>
        \A t \in Threads : /\ SocketsOf(t) \subseteq open
                           /\ socks[t] # <<>> => t <= threads

Joining == mpc = "join" => \A t \in Threads : t < k => ~Runs(t)

(* What AnswerIsPaid says, whatever the exit flag is.                      *)
Paid ==
    \A t \in Threads : tpc[t] = "check" /\ got[t].kind = "request" =>
        /\ addrRemote[t] = got[t].from
        /\ limiter => charged[t] = got[t].from

Control ==
    /\ RunningIsValid /\ Quiet /\ OnlyOnce /\ Starting /\ Joining
    /\ SocketsOutliveThreads

IInv == Types /\ Control /\ Paid

-----------------------------------------------------------------------------

LEMMA RolesAreHad ==
    ASSUME NEW c
    PROVE  /\ RolesOf(c) \in Seq({r \in RoleSet : Has(c, r)})
           /\ Len(RolesOf(c)) \in 0..4
  <1> DEFINE H == {r \in RoleSet : Has(c, r)}
  <1>1. ASSUME NEW r \in RoleSet PROVE Listed(c, r) \in Seq(H) /\ Len(Listed(c, r)) \in 0..1
    <2>1. CASE Has(c, r)
      <3>1. r \in H
        BY <2>1
      <3>2. Listed(c, r) = <<r>>
        BY <2>1 DEF Listed
      <3> HIDE DEF H
      <3>3. QED
        BY <3>1, <3>2
    <2>2. CASE ~Has(c, r)
      <3>1. Listed(c, r) = <<>>
        BY <2>2 DEF Listed
      <3> HIDE DEF H
      <3>2. QED
        BY <3>1
    <2>3. QED
      BY <2>1, <2>2
  <1>2. /\ Listed(c, "PP") \in Seq(H) /\ Len(Listed(c, "PP")) \in 0..1
        /\ Listed(c, "PA") \in Seq(H) /\ Len(Listed(c, "PA")) \in 0..1
        /\ Listed(c, "AP") \in Seq(H) /\ Len(Listed(c, "AP")) \in 0..1
        /\ Listed(c, "AA") \in Seq(H) /\ Len(Listed(c, "AA")) \in 0..1
    BY <1>1 DEF RoleSet
  <1> HIDE DEF H
  <1>3. /\ Listed(c, "PP") \o Listed(c, "PA") \in Seq(H)
        /\ Len(Listed(c, "PP") \o Listed(c, "PA")) \in 0..2
    BY <1>2, ConcatProperties
  <1>4. PICK two \in Seq(H) : /\ two = Listed(c, "PP") \o Listed(c, "PA")
                             /\ Len(two) \in 0..2
    BY <1>3
  <1>5. two \o Listed(c, "AP") \in Seq(H) /\ Len(two \o Listed(c, "AP")) \in 0..3
    BY <1>2, <1>4, ConcatProperties, SMTT(30)
  <1>6. PICK three \in Seq(H) : three = two \o Listed(c, "AP") /\ Len(three) \in 0..3
    BY <1>5
  <1>7. three \o Listed(c, "AA") \in Seq(H) /\ Len(three \o Listed(c, "AA")) \in 0..4
    <2>1. Listed(c, "AA") \in Seq(H) /\ Len(Listed(c, "AA")) \in 0..1
      BY <1>2
    <2>2. /\ three \o Listed(c, "AA") \in Seq(H)
          /\ Len(three \o Listed(c, "AA")) = Len(three) + Len(Listed(c, "AA"))
      BY <2>1, ConcatProperties
    <2>3. \A m \in 0..3, n \in 0..1 : m + n \in 0..4
      OBVIOUS
    <2>4. Len(three) + Len(Listed(c, "AA")) \in 0..4
      BY <1>6, <2>1, <2>3, Zenon
    <2>5. QED
      BY <2>2, <2>4, Zenon
  <1>8. QED
    BY <1>4, <1>6, <1>7 DEF RolesOf, H

(* The threads a successful Initialize makes have sockets it has opened.   *)
LEMMA SocksAreOpen ==
    ASSUME NEW c, NEW t \in Threads
    PROVE  /\ SocksOf(c, t) \in Seq({r \in RoleSet : Has(c, r)})
           /\ SocksOf(c, t) # <<>> =>
                 t <= IF c.fMultiThreadedMode THEN Len(RolesOf(c)) ELSE 1
  <1> DEFINE H == {r \in RoleSet : Has(c, r)}
  <1>1. RolesOf(c) \in Seq(H) /\ Len(RolesOf(c)) \in 0..4
    BY RolesAreHad
  <1> HIDE DEF H
  <1>2. t <= Len(RolesOf(c)) => <<RolesOf(c)[t]>> \in Seq(H)
    BY <1>1 DEF Threads
  <1>3. SocksOf(c, t) \in Seq(H)
    BY <1>1, <1>2 DEF SocksOf
  <1>4. SocksOf(c, t) # <<>> => t <= IF c.fMultiThreadedMode THEN Len(RolesOf(c)) ELSE 1
    BY DEF SocksOf, Threads
  <1>5. QED
    BY <1>3, <1>4 DEF H

LEMMA InitInvariant == Init => IInv
  <1> SUFFICES ASSUME Init PROVE IInv
    OBVIOUS
  <1> USE DEF Init, InitThreads
  <1>1. NoneRuns
    BY DEF NoneRuns, Runs, Threads
  <1>2. mpc \in {"next", "udpinit", "tcpinit"} /\ ~udpServers
    BY DEF Create
  <1>3. Types
    <2>1. argsVector \in ArgLists \cup {<<>>} /\ itor \in Nat \ {0}
      OBVIOUS
    <2>2. threads \in 0..4 /\ k \in 1..5 /\ k \in Threads /\ mpc \in MainPlaces
      BY <1>2 DEF Threads, MainPlaces
    <2>3. tpc \in [Threads -> Places] /\ socks \in [Threads -> Seq(RoleSet)]
      BY DEF Places
    <2>4. fThreadIsValid \in [Threads -> BOOLEAN] /\ udpServers \in BOOLEAN
      OBVIOUS
    <2>5. DOMAIN addrRemote = Threads /\ DOMAIN charged = Threads /\ DOMAIN got = Threads
      OBVIOUS
    <2>6. QED
      BY <2>1, <2>2, <2>3, <2>4, <2>5 DEF Types
  <1>4. Control
    <2>1. RunningIsValid /\ Quiet /\ Starting /\ Joining /\ SocketsOutliveThreads
      BY <1>1, <1>2 DEF NoneRuns, RunningIsValid, Quiet, Starting, Joining,
                        SocketsOutliveThreads
    <2>2. OnlyOnce
      BY <1>2 DEF OnlyOnce, UdpTaken
    <2>3. QED
      BY <2>1, <2>2 DEF Control
  <1>5. Paid
    BY DEF Paid, Threads
  <1>6. QED
    BY <1>3, <1>4, <1>5 DEF IInv

-----------------------------------------------------------------------------

(* -------- the threads ---------------------------------------------------- *)

(* A step of a running thread leaves the server and the other threads      *)
(* alone, and never brings a thread back.                                  *)
LEMMA RunKeeps ==
    ASSUME Types, NEW t \in Threads, Run(t)
    PROVE  /\ UNCHANGED <<server, control>>
           /\ Runs(t)
           /\ tpc' \in [Threads -> Places]
           /\ DOMAIN addrRemote' = Threads /\ DOMAIN charged' = Threads
           /\ DOMAIN got' = Threads
           /\ \A s \in Threads : s # t =>
                 /\ tpc'[s] = tpc[s] /\ addrRemote'[s] = addrRemote[s]
                 /\ charged'[s] = charged[s] /\ got'[s] = got[s]
  <1> USE DEF Types, Runs, Places, Goto, EndOfRun, pass
  <1>1. CASE LoopTest(t)
    BY <1>1 DEF LoopTest
  <1>2. CASE WaitForSocketData(t)
    BY <1>2 DEF WaitForSocketData
  <1>3. CASE Receive(t)
    <2>1. CASE UNCHANGED <<tpc, pass>>
      BY <1>3, <2>1 DEF Receive
    <2>2. CASE ~UNCHANGED <<tpc, pass>>
      <3>1. tpc[t] = "recv" /\ UNCHANGED <<server, control>>
        BY <1>3 DEF Receive
      <3>2. DOMAIN addrRemote' = Threads /\ \A s \in Threads : s # t => addrRemote'[s] = addrRemote[s]
        BY <1>3, <2>2 DEF Receive
      <3>3. DOMAIN charged' = Threads /\ \A s \in Threads : s # t => charged'[s] = charged[s]
        BY <1>3, <2>2 DEF Receive
      <3>4. PICK g, p : got' = [got EXCEPT ![t] = g] /\ Goto(t, p) /\ p \in {"check", "test"}
        BY <1>3, <2>2 DEF Receive
      <3>5. QED
        BY <3>1, <3>2, <3>3, <3>4
    <2>3. QED
      BY <2>1, <2>2
  <1>4. CASE ProcessRequestAndSendResponse(t)
    BY <1>4 DEF ProcessRequestAndSendResponse
  <1>5. QED
    BY <1>1, <1>2, <1>3, <1>4 DEF Run

(* Only Receive leaves a datagram to be answered, and it has set the       *)
(* address and charged it.                                                 *)
LEMMA RunPays ==
    ASSUME Types, NEW t \in Threads, Run(t)
    PROVE  tpc'[t] = "check" /\ got'[t].kind = "request" =>
              /\ addrRemote'[t] = got'[t].from
              /\ limiter => charged'[t] = got'[t].from
  <1> USE DEF Types, Goto, EndOfRun, pass
  <1>1. CASE LoopTest(t)
    BY <1>1 DEF LoopTest
  <1>2. CASE WaitForSocketData(t)
    BY <1>2 DEF WaitForSocketData
  <1>3. CASE ProcessRequestAndSendResponse(t)
    BY <1>3 DEF ProcessRequestAndSendResponse
  <1>4. CASE Receive(t)
    <2>1. CASE UNCHANGED <<tpc, pass>>
      BY <1>4, <2>1 DEF Receive
    <2>2. ASSUME NEW d, NEW p,
                 addrRemote' = [addrRemote EXCEPT ![t] =
                        IF d.kind \in {"request", "junk"} THEN d.from ELSE @],
                 charged' = [charged EXCEPT ![t] = IF limiter THEN ChargedTo(t, d) ELSE @],
                 got' = [got EXCEPT ![t] = p], p = d \/ p = Nothing,
                 got'[t].kind = "request"
          PROVE  /\ addrRemote'[t] = got'[t].from
                 /\ limiter => charged'[t] = got'[t].from
      <3>1. got'[t] = d /\ d.kind = "request"
        BY <2>2 DEF Nothing, Datagram
      <3>2. QED
        BY <2>2, <3>1 DEF ChargedTo
    <2>3. QED
      BY <1>4, <2>1, <2>2 DEF Receive
  <1>5. QED
    BY <1>1, <1>2, <1>3, <1>4 DEF Run

LEMMA StepRun ==
    ASSUME IInv, NEW t \in Threads, Run(t), UNCHANGED <<main, mpc, k>>
    PROVE  IInv'
  <1>1. Types'
    BY RunKeeps DEF IInv, Types, main, server, control
  <1>2. UNCHANGED <<server, control, main, mpc, k>> /\ \A s \in Threads : Runs(s)' => Runs(s)
    BY RunKeeps DEF IInv, Runs
  <1>3. Control'
    <2> USE <1>2 DEF IInv, Control, server, control, main
    <2>1. RunningIsValid' /\ Quiet' /\ Joining'
      BY DEF RunningIsValid, Quiet, Joining, NoneRuns
    <2>2. OnlyOnce' /\ Starting'
      BY DEF OnlyOnce, UdpTaken, Starting, SocketsOf
    <2>3. SocketsOutliveThreads'
      BY DEF SocketsOutliveThreads
    <2>4. QED
      BY <2>1, <2>2, <2>3
  <1>4. Paid'
    BY <1>2, RunKeeps, RunPays DEF IInv, Paid, server
  <1>5. QED
    BY <1>1, <1>3, <1>4 DEF IInv

(* -------- the main thread ------------------------------------------------ *)

(* The main thread moves on without touching the UDP server.               *)
LEMMA MoveOn ==
    ASSUME IInv, UNCHANGED uvars,
           k' \in 1..5, mpc' # "tcpstart" => k' \in Threads,
           itor' \in Nat \ {0}, mpc' \in MainPlaces, UNCHANGED <<argsVector, udpServers>>,
           mpc' \notin {"udpstart", "join"}, Quiet', OnlyOnce'
    PROVE  IInv'
  <1> USE DEF IInv, uvars, server, control, pass
  <1>1. Types'
    BY DEF Types
  <1>2. Control'
    BY DEF Control, RunningIsValid, Starting, Joining, SocketsOutliveThreads, Runs
  <1>3. Paid'
    BY DEF Paid
  <1>4. QED
    BY <1>1, <1>2, <1>3

(* The places the main thread goes to when it has no UDP server on hand.   *)
LEMMA StillQuiet ==
    ASSUME IInv, UNCHANGED uvars, UNCHANGED <<argsVector, udpServers>>,
           itor' = itor,
           \/ mpc \in {"next", "tcpinit", "tcpstart", "stop"} /\ ~udpServers
           \/ mpc \in {"udpinit", "tcpstop", "release", "done"}
           \/ udpServers /\ mpc' \in {"next", "tcpinit", "tcpstart", "stop", "flag"},
           mpc' # "udpinit", mpc' # "udpstart"
    PROVE  Quiet' /\ OnlyOnce'
  <1>1. Quiet'
    BY DEF IInv, Control, Quiet, NoneRuns, Runs, uvars
  <1>2. OnlyOnce'
    BY DEF IInv, Control, OnlyOnce, UdpTaken
  <1>3. QED
    BY <1>1, <1>2

LEMMA StepNextConfiguration ==
    ASSUME IInv, NextConfiguration
    PROVE  IInv'
  <1>1. /\ mpc = "next" /\ itor <= Len(argsVector)
        /\ UNCHANGED uvars /\ UNCHANGED <<argsVector, udpServers>>
        /\ itor \in Nat \ {0} /\ k' = 1
    BY DEF NextConfiguration, IInv, Types, At, Go
  <1>2. argsVector \in ArgLists /\ itor \in 1..Len(argsVector)
    BY <1>1, ServerAssumption DEF IInv, Types, ServerAssumption
  <1>3. CASE mpc' = "stop" /\ itor' = itor
    <2>1. Quiet' /\ OnlyOnce'
      <3>1. udpServers \in BOOLEAN
        BY DEF IInv, Types
      <3>2. QED
        BY <1>1, <1>3, <3>1, StillQuiet
    <2>2. QED
      BY <1>1, <1>3, <2>1, MoveOn DEF MainPlaces, Threads
  <1>4. CASE mpc' = "tcpinit" /\ itor' = itor + 1
    <2>1. Quiet'
      BY <1>1, <1>4 DEF IInv, Control, Quiet, NoneRuns, Runs, uvars
    <2>2. OnlyOnce'
      BY <1>1, <1>2, <1>4 DEF IInv, Control, OnlyOnce, UdpTaken
    <2>3. QED
      BY <1>1, <1>4, <2>1, <2>2, MoveOn DEF MainPlaces, Threads
  <1>5. CASE mpc' = "udpinit" /\ itor' = itor + 1 /\ ~IsTCP(argsVector[itor])
    <2>1. ~udpServers
      <3> SUFFICES ASSUME udpServers PROVE FALSE
        OBVIOUS
      <3>1. PICK j \in 1..Len(argsVector) : j < itor /\ ~IsTCP(argsVector[j])
        BY <1>1, <1>2 DEF IInv, Control, OnlyOnce, UdpTaken
      <3>2. \A i, m \in 1..Len(argsVector) :
               ~IsTCP(argsVector[i]) /\ ~IsTCP(argsVector[m]) => i = m
        BY <1>2, ServerAssumption DEF ServerAssumption
      <3>3. itor = j
        BY <1>2, <1>5, <3>1, <3>2
      <3>4. QED
        BY <1>1, <3>1, <3>3
    <2>2. Quiet'
      BY <1>1, <2>1 DEF IInv, Control, Quiet, NoneRuns, Runs, uvars
    <2>3. OnlyOnce'
      BY <1>1, <1>2, <1>5 DEF OnlyOnce, UdpTaken
    <2>4. QED
      BY <1>1, <1>5, <2>2, <2>3, MoveOn DEF MainPlaces, Threads
  <1>6. QED
    BY <1>3, <1>4, <1>5 DEF NextConfiguration, Go, Create, BuildServerConfiguration

LEMMA StepUdpInitialize ==
    ASSUME IInv, UdpInitialize
    PROVE  IInv'
  <1>1. mpc = "udpinit" /\ NoneRuns
    BY DEF UdpInitialize, At, IInv, Control, Quiet
  <1>2. CASE /\ InitializeFails /\ Fail /\ Go("stop", 1)
    <2>1. Quiet' /\ OnlyOnce'
      <3>1. NoneRuns'
        BY <1>1, <1>2 DEF InitializeFails, uvars, NoneRuns, Runs
      <3>2. OnlyOnce'
        BY <1>1, <1>2 DEF Fail, Go, IInv, Control, OnlyOnce, UdpTaken
      <3>3. QED
        BY <3>1, <3>2 DEF Quiet
    <2>2. QED
      BY <1>2, <2>1, MoveOn DEF InitializeFails, Fail, Go, MainPlaces, Threads, IInv, Types
  <1>3. CASE /\ InitializeSucceeds(config) /\ Go("udpstart", 1)
             /\ UNCHANGED <<argsVector, itor, config, hr, udpServers>>
    <2>1. /\ open' = {r \in RoleSet : Has(config, r)}
          /\ threads' = IF config.fMultiThreadedMode THEN Len(RolesOf(config)) ELSE 1
          /\ socks' = [t \in Threads |-> SocksOf(config, t)]
          /\ UNCHANGED <<fThreadIsValid, tpc, pass>>
      BY <1>3 DEF InitializeSucceeds
    <2>2. \A t \in Threads :
             /\ SocksOf(config, t) \in Seq(RoleSet)
             /\ \A i \in DOMAIN SocksOf(config, t) : SocksOf(config, t)[i] \in open'
             /\ SocksOf(config, t) # <<>> => t <= threads'
      <3> SUFFICES ASSUME NEW t \in Threads
                   PROVE  /\ SocksOf(config, t) \in Seq(RoleSet)
                          /\ \A i \in DOMAIN SocksOf(config, t) : SocksOf(config, t)[i] \in open'
                          /\ SocksOf(config, t) # <<>> => t <= threads'
        OBVIOUS
      <3>1. SocksOf(config, t) \in Seq(open')
        BY <2>1, SocksAreOpen
      <3>2. \A i \in DOMAIN SocksOf(config, t) : SocksOf(config, t)[i] \in open'
        BY <3>1
      <3>3. open' \subseteq RoleSet
        BY <2>1
      <3>4. SocksOf(config, t) \in Seq(RoleSet)
        BY <3>1, <3>3
      <3>5. QED
        BY <2>1, <3>2, <3>4, SocksAreOpen
    <2>3. threads' \in 0..4
      BY <2>1, RolesAreHad, SMTT(30)
    <2>4. Types'
      BY <1>3, <2>1, <2>2, <2>3 DEF IInv, Types, Go, MainPlaces, Threads, pass
    <2>5. NoneRuns'
      BY <1>1, <2>1 DEF NoneRuns, Runs
    <2>6. Control'
      <3>1. RunningIsValid' /\ Quiet' /\ Joining' /\ SocketsOutliveThreads'
        BY <2>5 DEF NoneRuns, RunningIsValid, Quiet, Joining, SocketsOutliveThreads
      <3>2. OnlyOnce'
        BY <1>1, <1>3 DEF IInv, Control, OnlyOnce, UdpTaken
      <3>3. Starting'
        BY <2>1, <2>2 DEF Starting, SocketsOf
      <3>4. QED
        BY <3>1, <3>2, <3>3 DEF Control
    <2>7. Paid'
      BY <2>5 DEF NoneRuns, Runs, Paid
    <2>8. QED
      BY <2>4, <2>6, <2>7 DEF IInv
  <1>4. QED
    BY <1>2, <1>3 DEF UdpInitialize

LEMMA StepUdpStart ==
    ASSUME IInv, UdpStart
    PROVE  IInv'
  <1>1. /\ mpc = "udpstart" /\ k \in Threads /\ threads \in 0..4
        /\ itor \in Nat \ {0} /\ UdpTaken
    BY DEF UdpStart, At, IInv, Types, Control, OnlyOnce
  <1>2. CASE Fail /\ Go(AfterStartFailure, 1) /\ UNCHANGED uvars
    <2>1. mpc' = "flag" /\ k' = 1 /\ UNCHANGED <<argsVector, itor, udpServers>>
      BY <1>2 DEF Fail, Go, AfterStartFailure
    <2>2. Quiet' /\ OnlyOnce'
      BY <1>1, <2>1 DEF Quiet, OnlyOnce, UdpTaken
    <2>3. QED
      BY <1>1, <1>2, <2>1, <2>2, MoveOn DEF MainPlaces, Threads
  <1>3. CASE /\ StartThread(k)
             /\ IF k = threads THEN Go("next", 1) ELSE Go("udpstart", k + 1)
             /\ udpServers' = (k = threads)
             /\ UNCHANGED <<argsVector, itor, config, hr>>
    <2>1. /\ socks[k] # <<>>
          /\ fThreadIsValid' = [fThreadIsValid EXCEPT ![k] = TRUE]
          /\ tpc' = [tpc EXCEPT ![k] = "test"]
          /\ UNCHANGED <<open, threads, limiter, socks, pass>>
      BY <1>3 DEF StartThread, server
    <2>2. k <= threads /\ SocketsOf(k) \subseteq open
      BY <1>1, <2>1 DEF IInv, Control, Starting
    <2>3. \/ mpc' = "next" /\ k' = 1 /\ udpServers'
          \/ mpc' = "udpstart" /\ k' = k + 1 /\ k + 1 \in Threads
      <3>1. CASE k = threads
        BY <1>3, <3>1 DEF Go
      <3>2. CASE k # threads
        <4>1. k + 1 \in Threads
          BY <1>1, <2>2, <3>2 DEF Threads
        <4>2. mpc' = "udpstart" /\ k' = k + 1
          BY <1>3, <3>2 DEF Go
        <4>3. QED
          BY <4>1, <4>2
      <3>3. QED
        BY <3>1, <3>2
    <2>4. Types'
      <3>1. /\ mpc' \in MainPlaces /\ k' \in 1..5 /\ k' \in Threads
            /\ udpServers' \in BOOLEAN
        BY <1>3, <2>3 DEF MainPlaces, Threads
      <3>2. tpc' \in [Threads -> Places] /\ fThreadIsValid' \in [Threads -> BOOLEAN]
        BY <2>1 DEF IInv, Types, Places
      <3>3. QED
        BY <1>3, <2>1, <3>1, <3>2 DEF IInv, Types, pass
    <2>5. Control'
      <3>1. RunningIsValid'
        BY <2>1, <2>2 DEF IInv, Types, Control, RunningIsValid, Runs
      <3>2. Quiet' /\ Joining'
        BY <2>3 DEF Quiet, Joining
      <3>3. OnlyOnce'
        BY <1>1, <1>3 DEF OnlyOnce, UdpTaken
      <3>4. Starting'
        BY <1>1, <2>1 DEF IInv, Control, Starting, SocketsOf
      <3>5. SocketsOutliveThreads'
        BY <2>1, <2>2 DEF IInv, Types, Control, SocketsOutliveThreads, SocketsOf, Runs
      <3>6. QED
        BY <3>1, <3>2, <3>3, <3>4, <3>5 DEF Control
    <2>6. Paid'
      BY <2>1 DEF IInv, Types, Paid, pass
    <2>7. QED
      BY <2>4, <2>5, <2>6 DEF IInv
  <1>4. QED
    BY <1>2, <1>3 DEF UdpStart

LEMMA StepTcpInitialize ==
    ASSUME IInv, TcpInitialize
    PROVE  IInv'
  <1>1. /\ mpc = "tcpinit" /\ UNCHANGED uvars /\ UNCHANGED <<argsVector, itor, udpServers>>
        /\ mpc' \in {"tcpstart", "stop"} /\ k' = 1
    BY DEF TcpInitialize, At, Go, Fail
  <1>2. udpServers \in BOOLEAN /\ itor \in Nat \ {0}
    BY DEF IInv, Types
  <1>3. Quiet' /\ OnlyOnce'
    BY <1>1, <1>2, StillQuiet
  <1>4. QED
    BY <1>1, <1>2, <1>3, MoveOn DEF MainPlaces, Threads

LEMMA StepTcpStart ==
    ASSUME IInv, TcpStart
    PROVE  IInv'
  <1>1. udpServers \in BOOLEAN /\ itor \in Nat \ {0} /\ k \in 1..5
    BY DEF IInv, Types
  <1>2. /\ mpc = "tcpstart" /\ UNCHANGED uvars /\ UNCHANGED <<argsVector, itor, udpServers>>
        /\ mpc' \in {"tcpstart", "stop", "next"}
        /\ mpc' # "tcpstart" => k' = 1
        /\ k' \in 1..5
    BY <1>1 DEF TcpStart, At, Go, Fail, main
  <1>3. Quiet' /\ OnlyOnce'
    BY <1>1, <1>2, StillQuiet
  <1>4. QED
    BY <1>1, <1>2, <1>3, MoveOn DEF MainPlaces, Threads

(* What remains of the steps that leave the UDP server alone.              *)
LEMMA StepWaitOrStop ==
    ASSUME IInv, ExitSignal \/ StopServers \/ TcpStop
    PROVE  IInv'
  <1>1. udpServers \in BOOLEAN /\ itor \in Nat \ {0}
    BY DEF IInv, Types
  <1>2. /\ UNCHANGED uvars /\ UNCHANGED <<argsVector, itor, udpServers>> /\ k' = 1
        /\ \/ mpc = "next" /\ mpc' = "stop"
           \/ mpc = "stop" /\ mpc' = (IF udpServers THEN "flag" ELSE "tcpstop")
           \/ mpc = "tcpstop" /\ mpc' \in {"release", "done"}
    BY DEF ExitSignal, StopServers, TcpStop, At, Go, main
  <1>3. Quiet' /\ OnlyOnce'
    <2>1. /\ \/ mpc \in {"next", "tcpinit", "tcpstart", "stop"} /\ ~udpServers
             \/ mpc \in {"udpinit", "tcpstop", "release", "done"}
             \/ udpServers /\ mpc' \in {"next", "tcpinit", "tcpstart", "stop", "flag"}
          /\ mpc' # "udpinit" /\ mpc' # "udpstart"
      BY <1>1, <1>2
    <2>2. UNCHANGED uvars /\ UNCHANGED <<argsVector, udpServers>> /\ itor' = itor
      BY <1>2
    <2>3. QED
      BY <2>1, <2>2, StillQuiet
  <1>4. mpc' \in {"stop", "flag", "tcpstop", "release", "done"}
    BY <1>2
  <1>5. QED
    BY <1>1, <1>2, <1>3, <1>4, MoveOn DEF MainPlaces, Threads

(* Stop, thread by thread: the flag, the wake-up, the join.                *)
LEMMA StepUdpStop ==
    ASSUME IInv, UdpStop
    PROVE  IInv'
  <1>1. /\ threads \in 0..4 /\ itor \in Nat \ {0} /\ udpServers \in BOOLEAN
        /\ UNCHANGED <<argsVector, itor, udpServers>>
    BY DEF UdpStop, main, IInv, Types
  <1>2. k \in Threads
    BY DEF UdpStop, At, IInv, Types
  <1>3. CASE mpc \in {"flag", "post"}
    <2>1. /\ UNCHANGED <<server, socks, fThreadIsValid, tpc, pass>>
      BY <1>3 DEF UdpStop, At, SetExitFlag, PostWakeups
    <2>2. /\ k' \in Threads
          /\ mpc' \in {"flag", "post"} \/ (mpc' = "join" /\ k' = 1)
      <3>1. CASE k < threads
        <4>1. mpc' = mpc /\ k' = k + 1
          BY <3>1 DEF UdpStop, Go
        <4>2. k + 1 \in Threads
          BY <1>1, <1>2, <3>1 DEF Threads
        <4>3. QED
          BY <1>3, <4>1, <4>2
      <3>2. CASE ~(k < threads)
        BY <1>3, <3>2 DEF UdpStop, At, Go, Threads
      <3>3. QED
        BY <3>1, <3>2
    <2>3. Types'
      BY <1>1, <2>1, <2>2 DEF IInv, Types, MainPlaces, Threads, server, pass
    <2>4. Control'
      <3>1. RunningIsValid' /\ SocketsOutliveThreads'
        BY <2>1 DEF IInv, Control, RunningIsValid, SocketsOutliveThreads, Runs, server
      <3>2. Quiet' /\ OnlyOnce' /\ Starting'
        BY <1>1, <2>2, <1>3 DEF IInv, Control, Quiet, OnlyOnce, UdpTaken, Starting
      <3>3. Joining'
        BY <2>2 DEF Joining, Threads
      <3>4. QED
        BY <3>1, <3>2, <3>3 DEF Control
    <2>5. Paid'
      BY <2>1 DEF IInv, Paid, server, pass
    <2>6. QED
      BY <2>3, <2>4, <2>5 DEF IInv
  <1>4. CASE mpc = "join"
    <2>1. WaitForStopAndClose(k)
      BY <1>4 DEF UdpStop, At
    <2>2. /\ fThreadIsValid' = [fThreadIsValid EXCEPT ![k] = FALSE]
          /\ socks' = [socks EXCEPT ![k] = <<>>]
          /\ UNCHANGED <<server, tpc, pass>>
      BY <2>1 DEF WaitForStopAndClose
    <2>3. \A t \in Threads : t <= k => ~Runs(t)
      <3>1. ~Runs(k)
        BY <1>2, <2>1 DEF WaitForStopAndClose, CanJoin, Runs, IInv, Control, RunningIsValid
      <3>2. \A t \in Threads : t < k => ~Runs(t)
        BY <1>4 DEF IInv, Control, Joining
      <3>3. \A t \in Threads : t <= k => t < k \/ t = k
        BY <1>2 DEF Threads
      <3>4. QED
        BY <3>1, <3>2, <3>3
    <2>4. \A t \in Threads : Runs(t)' => Runs(t) /\ t # k
      <3>1. \A t \in Threads : Runs(t)' => Runs(t)
        BY <2>2 DEF Runs
      <3>2. k <= k
        BY <1>2 DEF Threads
      <3>3. QED
        BY <1>2, <2>3, <3>1, <3>2
    <2>5. \/ mpc' = "join" /\ k' = k + 1 /\ k' \in Threads
          \/ mpc' \in {"tcpstop", "release"} /\ k' = 1 /\ NoneRuns'
      <3>1. CASE k < threads
        BY <1>1, <1>2, <1>4, <3>1 DEF UdpStop, Go, Threads
      <3>2. CASE ~(k < threads)
        <4>1. NoneRuns
          BY <1>1, <1>2, <2>3, <3>2 DEF NoneRuns, Threads, IInv, Control, RunningIsValid
        <4>2. mpc' \in {"tcpstop", "release"} /\ k' = 1
          BY <1>4, <3>2 DEF UdpStop, At, Go, AfterJoins
        <4>3. QED
          BY <2>4, <4>1, <4>2 DEF NoneRuns
      <3>3. QED
        BY <3>1, <3>2
    <2>6. Types'
      <3>1. fThreadIsValid' \in [Threads -> BOOLEAN] /\ socks' \in [Threads -> Seq(RoleSet)]
        <4>1. <<>> \in Seq(RoleSet)
          OBVIOUS
        <4>2. QED
          BY <1>2, <2>2, <4>1 DEF IInv, Types
      <3>2. k' \in Threads /\ mpc' \in MainPlaces /\ mpc' # "tcpstart"
        BY <2>5 DEF MainPlaces, Threads
      <3>3. k' \in 1..5
        BY <3>2 DEF Threads
      <3>4. QED
        BY <1>1, <2>2, <3>1, <3>2, <3>3 DEF IInv, Types, server, pass
    <2>7. Control'
      <3>1. RunningIsValid' /\ SocketsOutliveThreads'
        BY <2>2, <2>4 DEF IInv, Types, Control, RunningIsValid, SocketsOutliveThreads, server
      <3>2. Quiet' /\ OnlyOnce' /\ Starting'
        BY <1>1, <2>5, <1>4 DEF IInv, Control, Quiet, OnlyOnce, UdpTaken, Starting
      <3>3. Joining'
        <4>1. CASE mpc' = "join" /\ k' = k + 1
          <5>1. \A t \in Threads : t < k' => t <= k
            BY <1>2, <4>1 DEF Threads
          <5>2. QED
            BY <2>3, <2>4, <5>1 DEF Joining
        <4>2. CASE mpc' # "join"
          BY <4>2 DEF Joining
        <4>3. QED
          BY <2>5, <4>1, <4>2
      <3>4. QED
        BY <3>1, <3>2, <3>3 DEF Control
    <2>8. Paid'
      BY <2>2 DEF IInv, Paid, server, pass
    <2>9. QED
      BY <2>6, <2>7, <2>8 DEF IInv
  <1>5. QED
    BY <1>3, <1>4 DEF UdpStop, At

(* Shutdown closes the sockets, and no thread is left to miss them.        *)
LEMMA StepUdpRelease ==
    ASSUME IInv, UdpRelease
    PROVE  IInv'
  <1>1. /\ mpc = "release" /\ NoneRuns
        /\ mpc' \in {"done", "tcpstop"} /\ k' = 1
        /\ UNCHANGED <<argsVector, itor, udpServers>>
        /\ threads' = 0 /\ UNCHANGED <<socks, fThreadIsValid, tpc, pass>>
    BY DEF UdpRelease, At, Go, main, Shutdown, control, IInv, Control, Quiet
  <1>2. NoneRuns'
    BY <1>1 DEF NoneRuns, Runs
  <1>3. Types'
    BY <1>1 DEF IInv, Types, MainPlaces, Threads, pass
  <1>4. Control'
    <2>1. RunningIsValid' /\ Quiet' /\ Joining' /\ SocketsOutliveThreads'
      BY <1>2 DEF NoneRuns, RunningIsValid, Quiet, Joining, SocketsOutliveThreads
    <2>2. OnlyOnce' /\ Starting'
      BY <1>1 DEF IInv, Control, OnlyOnce, UdpTaken, Starting
    <2>3. QED
      BY <2>1, <2>2 DEF Control
  <1>5. Paid'
    BY <1>2 DEF NoneRuns, Runs, Paid
  <1>6. QED
    BY <1>3, <1>4, <1>5 DEF IInv

-----------------------------------------------------------------------------

(* A datagram that arrives, or nothing at all.                             *)
LEMMA StepOutside ==
    ASSUME IInv, UNCHANGED <<server, control, tpc, pass, main, mpc, k>>
    PROVE  IInv'
  <1> USE DEF IInv, server, control, pass, main
  <1>1. Types'
    BY DEF Types
  <1>2. Control'
    BY DEF Control, RunningIsValid, Quiet, NoneRuns, OnlyOnce, UdpTaken, Starting,
           SocketsOf, Joining, SocketsOutliveThreads, Runs
  <1>3. Paid'
    BY DEF Paid
  <1>4. QED
    BY <1>1, <1>2, <1>3

LEMMA StepInvariant == IInv /\ [Next]_vars => IInv'
  <1> SUFFICES ASSUME IInv, [Next]_vars PROVE IInv'
    OBVIOUS
  <1>1. CASE MainThread
    BY <1>1, StepNextConfiguration, StepUdpInitialize, StepUdpStart, StepTcpInitialize,
       StepTcpStart, StepWaitOrStop, StepUdpStop, StepUdpRelease DEF MainThread
  <1>2. CASE ExitSignal
    BY <1>2, StepWaitOrStop
  <1>3. ASSUME NEW t \in Threads, Run(t), UNCHANGED <<main, mpc, k>> PROVE IInv'
    BY <1>3, StepRun
  <1>4. ASSUME NEW r, NEW kind, NEW from, Arrive(r, kind, from) PROVE IInv'
    BY <1>4, StepOutside DEF Arrive
  <1>5. CASE UNCHANGED vars
    BY <1>5, StepOutside DEF vars, uvars
  <1>6. QED
    BY <1>1, <1>2, <1>3, <1>4, <1>5 DEF Next

LEMMA Invariant == Spec => []IInv
  <1>1. QED
    BY InitInvariant, StepInvariant, PTL DEF Spec

-----------------------------------------------------------------------------

(* No thread of the UDP server is ever left running with a socket that is  *)
(* closed or taken from it: Start undoes its own failure by a whole Stop,  *)
(* WaitForStopAndClose joins before it clears _socks, and Shutdown comes   *)
(* after the joins, for any options and wherever a step has failed.        *)
THEOREM SocketsTheorem == Spec => []SocketsOutliveThreads
  <1>1. IInv => SocketsOutliveThreads
    BY DEF IInv, Control
  <1>2. QED
    BY <1>1, Invariant, PTL

(* The answer of CStunSocketThread goes to the sender of the datagram that *)
(* was received in this pass, and the limiter was asked about that sender, *)
(* whatever _msgIn.addrRemote still held from the passes before.           *)
THEOREM PaidTheorem == Spec => []AnswerIsPaid
  <1>1. IInv => AnswerIsPaid
    BY DEF IInv, Paid, AnswerIsPaid, IsAnswered
  <1>2. QED
    BY <1>1, Invariant, PTL

-----------------------------------------------------------------------------
(* What the main thread has achieved while it starts the servers.          *)

StartPlaces == {"next", "udpinit", "udpstart", "tcpinit", "tcpstart"}

(* No thread has been told to exit, and those that were started run.       *)
Healthy ==
    /\ hr = "S_OK"
    /\ \A t \in Threads : ~fNeedToExit[t] /\ (fThreadIsValid[t] => Runs(t))

(* Options have been accepted, and so the configuration is a sound one.    *)
Configured ==
    argsVector # <<>> /\ (mpc # "next" \/ itor > 1) => ConfigIsSound(config)

(* The servers before the current one have been started.                   *)
Started ==
    \A i \in 1..Len(argsVector) : i < itor =>
        IF IsTCP(argsVector[i]) THEN mpc = "tcpinit" \/ tcpThreads # NoTcpThreads
        ELSE mpc \in {"udpinit", "udpstart"} \/ udpServers

(* Every open socket is some thread's, and the threads are started in      *)
(* their order.                                                            *)
Covered ==
    /\ \A r \in open : \E t \in Threads : t <= threads /\ r \in SocketsOf(t)
    /\ \A t \in Threads : t <= threads =>
          \/ fThreadIsValid[t]
          \/ mpc = "udpinit"
          \/ mpc = "udpstart" /\ t >= k
          \/ mpc \in {"next", "tcpinit", "tcpstart"} /\ ~udpServers

(* TCP threads are started in the order of their roles.                    *)
TcpInOrder ==
    /\ mpc = "tcpstart" => \A i \in 1..4 : i < k => tcpThreads[AllRoles[i]] # "ready"
    /\ mpc \in {"next", "udpinit", "udpstart"} => \A r \in RoleSet : tcpThreads[r] # "ready"

Serving ==
    /\ tcpThreads \in [RoleSet -> {"none", "ready", "running"}]
    /\ mpc \in StartPlaces => Healthy /\ Configured /\ Started /\ Covered /\ TcpInOrder

LEMMA InitServing == Init => Serving
  <1> SUFFICES ASSUME Init PROVE Serving
    OBVIOUS
  <1>1. /\ hr = "S_OK" /\ itor = 1 /\ ~udpServers /\ open = {} /\ threads = 0
        /\ tcpThreads = [r \in RoleSet |-> "none"]
        /\ \A t \in Threads : ~fNeedToExit[t] /\ ~fThreadIsValid[t]
        /\ mpc = "next" \/ argsVector = <<>>
        /\ mpc \in {"next", "udpinit", "tcpinit"}
    BY DEF Init, InitThreads, NoTcpThreads, Create
  <1>2. Healthy /\ Configured
    BY <1>1 DEF Healthy, Configured
  <1>3. Started
    BY <1>1 DEF Started
  <1>4. Covered /\ TcpInOrder
    BY <1>1 DEF Covered, TcpInOrder, Threads
  <1>5. QED
    BY <1>1, <1>2, <1>3, <1>4 DEF Serving

(* A thread that has not been told to exit goes on.                        *)
LEMMA RunGoesOn ==
    ASSUME Types, NEW t \in Threads, Run(t), ~fNeedToExit[t]
    PROVE  Runs(t)'
  <1> USE DEF Types, Runs, Goto
  <1>1. CASE LoopTest(t)
    BY <1>1 DEF LoopTest
  <1>2. CASE WaitForSocketData(t)
    BY <1>2 DEF WaitForSocketData
  <1>3. CASE Receive(t)
    <2>1. CASE UNCHANGED <<tpc, pass>>
      BY <1>3, <2>1 DEF Receive
    <2>2. CASE ~UNCHANGED <<tpc, pass>>
      <3>1. PICK p : Goto(t, p) /\ p \in {"check", "test"}
        BY <1>3, <2>2 DEF Receive
      <3>2. QED
        BY <3>1
    <2>3. QED
      BY <2>1, <2>2
  <1>4. CASE ProcessRequestAndSendResponse(t)
    BY <1>4 DEF ProcessRequestAndSendResponse
  <1>5. QED
    BY <1>1, <1>2, <1>3, <1>4 DEF Run

(* What Serving says depends on these variables alone.                     *)
LEMMA RunServing ==
    ASSUME IInv, Serving, NEW t \in Threads, Run(t), UNCHANGED <<main, mpc, k>>
    PROVE  Serving'
  <1>1. UNCHANGED <<server, control, main, mpc, k>>
    BY RunKeeps DEF IInv
  <1>2. Types
    BY DEF IInv
  <1>3. ASSUME mpc \in StartPlaces PROVE Healthy'
    <2>1. Healthy
      BY <1>3 DEF Serving
    <2>2. \A s \in Threads : Runs(s) => Runs(s)'
      <3>1. Runs(t)'
        BY <1>2, <2>1, RunGoesOn DEF Healthy
      <3>2. \A s \in Threads : s # t => tpc'[s] = tpc[s]
        BY <1>2, RunKeeps
      <3>3. QED
        BY <3>1, <3>2 DEF Runs
    <2>3. QED
      BY <1>1, <2>1, <2>2 DEF Healthy, control, main
  <1>4. Configured => Configured'
    BY <1>1 DEF Configured, ConfigIsSound, AdvertisedTwice, main
  <1>5. Started => Started'
    BY <1>1 DEF Started, main
  <1>6. Covered => Covered'
    BY <1>1 DEF Covered, SocketsOf, server, control, main
  <1>7. TcpInOrder => TcpInOrder'
    BY <1>1 DEF TcpInOrder, main
  <1>8. QED
    BY <1>1, <1>3, <1>4, <1>5, <1>6, <1>7 DEF Serving, main

LEMMA OutsideServing ==
    ASSUME Serving, UNCHANGED <<server, control, tpc, pass, main, mpc, k>>
    PROVE  Serving'
  <1>1. UNCHANGED <<server, control, tpc, main, mpc, k>>
    OBVIOUS
  <1>2. Healthy => Healthy'
    BY DEF Healthy, Runs, control, main
  <1>3. Configured => Configured'
    BY DEF Configured, ConfigIsSound, AdvertisedTwice, main
  <1>4. Started => Started'
    BY DEF Started, main
  <1>5. Covered => Covered'
    BY DEF Covered, SocketsOf, server, control, main
  <1>6. TcpInOrder => TcpInOrder'
    BY DEF TcpInOrder, main
  <1>7. QED
    BY <1>2, <1>3, <1>4, <1>5, <1>6 DEF Serving, main

(* Where the main thread is not starting anything there is nothing to show. *)
LEMMA LeavesStarting ==
    ASSUME Serving, mpc' \notin StartPlaces,
           tcpThreads' \in [RoleSet -> {"none", "ready", "running"}]
    PROVE  Serving'
  BY DEF Serving

(* Addresses differ where their parts do.                                  *)
LEMMA AddressParts ==
    ASSUME NEW ip, NEW port, NEW jp, NEW qort
    PROVE  Address(ip, port) = Address(jp, qort) => ip = jp /\ port = qort
  <1>1. \A i, o : Address(i, o).ip = i /\ Address(i, o).port = o
    BY DEF Address
  <1>2. QED
    BY <1>1

LEMMA PortMakesAddress ==
    ASSUME NEW ip, NEW port, port # 0
    PROVE  Address(ip, port) # NoAddr
  BY AddressParts, Zenon DEF NoAddr

Given(option) == option # ""

(* The four sockets of full mode differ, and so do their announcements,    *)
(* unless an address is advertised for both interfaces.                    *)
LEMMA FullIsSound ==
    ASSUME NEW c, NEW p, NEW q, p # 0, p # q, NEW i, NEW j, i # j,
           c.listen["PP"] = Address(i, p), c.listen["PA"] = Address(i, q),
           c.listen["AP"] = Address(j, p), c.listen["AA"] = Address(j, q)
    PROVE  ConfigIsSound(c)
  <1>1. Has(c, "PP")
    <2>1. Address(i, p) # NoAddr
      BY PortMakesAddress
    <2>2. QED
      BY <2>1 DEF Has
  <1>2. \A r, s \in RoleSet : r # s => c.listen[r] # c.listen[s]
    BY AddressParts DEF RoleSet
  <1>3. ASSUME NEW r \in RoleSet, NEW s \in RoleSet, r # s,
               TransportAddress(c, r) = TransportAddress(c, s)
        PROVE  AdvertisedTwice(c)
    <2>1. \A a, o : Address(a, o).ip = a /\ Address(a, o).port = o
      BY DEF Address
    <2>2. \A t \in RoleSet : TransportAddress(c, t).port = c.listen[t].port
      BY <2>1 DEF TransportAddress, AdvertisedPort
    <2> DEFINE Said(ip, default) == IF Given(ip) THEN ip ELSE default
    <2>3. ASSUME NEW t \in {"PP", "PA"}
          PROVE  c.listen[t].ip = i /\ TransportAddress(c, t).ip = Said(c.primaryAdvertised, i)
      <3>1. c.listen[t].ip = i
        BY <2>1
      <3>2. TransportAddress(c, t) =
               IF Given(c.primaryAdvertised)
               THEN Address(c.primaryAdvertised, AdvertisedPort(c, t))
               ELSE c.listen[t]
        BY Zenon DEF TransportAddress, Given
      <3>3. QED
        BY <2>1, <3>1, <3>2
    <2>4. ASSUME NEW t \in {"AP", "AA"}
          PROVE  c.listen[t].ip = j /\ TransportAddress(c, t).ip = Said(c.alternateAdvertised, j)
      <3>1. c.listen[t].ip = j
        BY <2>1
      <3>2. TransportAddress(c, t) =
               IF Given(c.alternateAdvertised)
               THEN Address(c.alternateAdvertised, AdvertisedPort(c, t))
               ELSE c.listen[t]
        BY Zenon DEF TransportAddress, Given
      <3>3. QED
        BY <2>1, <3>1, <3>2
    <2>5. {r, s} \in {{"PP", "AP"}, {"PA", "AA"}}
      BY <1>3, <2>1, <2>2 DEF RoleSet
    <2>6. \/ r \in {"PP", "PA"} /\ s \in {"AP", "AA"}
          \/ s \in {"PP", "PA"} /\ r \in {"AP", "AA"}
      BY <2>5 DEF RoleSet
    <2>7. Said(c.primaryAdvertised, i) = Said(c.alternateAdvertised, j)
      BY <1>3, <2>3, <2>4, <2>6
    <2>8. AdvertisedTwice(c) <=>
             \/ /\ Given(c.primaryAdvertised)
                /\ c.primaryAdvertised \in {c.alternateAdvertised, c.listen["AP"].ip}
             \/ /\ Given(c.alternateAdvertised)
                /\ c.alternateAdvertised = c.listen["PP"].ip
      BY Zenon DEF AdvertisedTwice, Given
    <2>9. QED
      BY <2>3, <2>4, <2>7, <2>8
  <1>4. QED
    BY <1>1, <1>2, <1>3 DEF ConfigIsSound, RoleSet

LEMMA AcceptedIsSound ==
    ASSUME NEW args, Accepts(args)
    PROVE  ConfigIsSound(BuildServerConfiguration(args))
  <1> DEFINE c == BuildServerConfiguration(args)
  <1>1. PrimaryPort(args) # 0 /\ PrimaryPort(args) # AltPort(args)
    <2>1. \A n : \A max \in Nat : ValidateNumber(n, max) => n # 0
      BY DEF ValidateNumber
    <2>2. PortsAreValid(args)
      BY DEF Accepts
    <2>3. QED
      BY <2>1, <2>2 DEF PortsAreValid
  <1>2. c.listen = IF IsFull(args) THEN FullSockets(args) ELSE BasicSockets(args)
    BY DEF BuildServerConfiguration
  <1> HIDE DEF c
  <1>3. CASE IsFull(args)
    <2>1. PrimaryIP(args) # AltIP(args)
      BY <1>3 DEF Accepts, InterfacesAreValid
    <2>2. /\ c.listen["PP"] = Address(PrimaryIP(args), PrimaryPort(args))
          /\ c.listen["PA"] = Address(PrimaryIP(args), AltPort(args))
          /\ c.listen["AP"] = Address(AltIP(args), PrimaryPort(args))
          /\ c.listen["AA"] = Address(AltIP(args), AltPort(args))
      BY <1>2, <1>3 DEF FullSockets
    <2>3. ConfigIsSound(c)
      BY <1>1, <2>1, <2>2, FullIsSound
    <2>4. QED
      BY <2>3 DEF c
  <1>4. CASE ~IsFull(args)
    <2>1. PICK ip : c.listen["PP"] = Address(ip, PrimaryPort(args))
      BY <1>2, <1>4 DEF BasicSockets, RoleSet
    <2>2. \A r \in RoleSet : r # "PP" => c.listen[r] = NoAddr
      BY <1>2, <1>4 DEF BasicSockets
    <2>3. \A r \in RoleSet : Has(c, r) => r = "PP"
      BY <2>2 DEF Has
    <2>4. Has(c, "PP")
      <3>1. Address(ip, PrimaryPort(args)) # NoAddr
        BY <1>1, PortMakesAddress
      <3>2. QED
        BY <2>1, <3>1 DEF Has
    <2>5. ConfigIsSound(c)
      BY <2>3, <2>4 DEF ConfigIsSound, RoleSet
    <2>6. QED
      BY <2>5 DEF c
  <1>5. QED
    BY <1>3, <1>4

Among(x, list) == \E n \in 1..Len(list) : list[n] = x

LEMMA ConcatAmong ==
    ASSUME NEW S, NEW a \in Seq(S), NEW b \in Seq(S), NEW x, Among(x, a) \/ Among(x, b)
    PROVE  a \o b \in Seq(S) /\ Among(x, a \o b)
  <1>1. /\ a \o b \in Seq(S) /\ Len(a \o b) = Len(a) + Len(b)
        /\ \A n \in 1..(Len(a) + Len(b)) :
              (a \o b)[n] = IF n <= Len(a) THEN a[n] ELSE b[n - Len(a)]
        /\ Len(a) \in Nat /\ Len(b) \in Nat
    BY ConcatProperties
  <1>2. CASE Among(x, a)
    <2>1. PICK n \in 1..Len(a) : a[n] = x
      BY <1>2 DEF Among
    <2>2. n \in 1..Len(a \o b) /\ (a \o b)[n] = x
      BY <1>1, <2>1
    <2>3. QED
      BY <1>1, <2>2 DEF Among
  <1>3. CASE Among(x, b)
    <2>1. PICK n \in 1..Len(b) : b[n] = x
      BY <1>3 DEF Among
    <2>2. Len(a) + n \in 1..Len(a \o b) /\ (a \o b)[Len(a) + n] = x
      BY <1>1, <2>1
    <2>3. QED
      BY <1>1, <2>2 DEF Among
  <1>4. QED
    BY <1>2, <1>3

(* Every socket that is configured has its place in the list of roles.     *)
LEMMA RolesAreAll ==
    ASSUME NEW c, NEW r \in RoleSet, Has(c, r)
    PROVE  Among(r, RolesOf(c))
  <1>1. \A s \in RoleSet : Listed(c, s) \in Seq(RoleSet)
    BY DEF Listed
  <1>2. Listed(c, r) = <<r>>
    BY DEF Listed
  <1>3. Among(r, Listed(c, r))
    BY <1>2 DEF Among
  <1>4. PICK two : two = Listed(c, "PP") \o Listed(c, "PA")
    OBVIOUS
  <1>5. two \in Seq(RoleSet) /\ (r \in {"PP", "PA"} => Among(r, two))
    <2>1. two \in Seq(RoleSet)
      BY <1>1, <1>4 DEF RoleSet
    <2>2. ASSUME r \in {"PP", "PA"} PROVE Among(r, two)
      BY <1>1, <1>3, <1>4, <2>2, ConcatAmong DEF RoleSet
    <2>3. QED
      BY <2>1, <2>2
  <1>6. PICK three : three = two \o Listed(c, "AP")
    OBVIOUS
  <1>7. three \in Seq(RoleSet) /\ (r \in {"PP", "PA", "AP"} => Among(r, three))
    <2>1. three \in Seq(RoleSet)
      BY <1>1, <1>5, <1>6 DEF RoleSet
    <2>2. ASSUME r \in {"PP", "PA", "AP"} PROVE Among(r, three)
      BY <1>1, <1>3, <1>5, <1>6, <2>2, ConcatAmong DEF RoleSet
    <2>3. QED
      BY <2>1, <2>2
  <1>8. Among(r, three \o Listed(c, "AA"))
    BY <1>1, <1>3, <1>7, ConcatAmong DEF RoleSet
  <1>9. QED
    BY <1>4, <1>6, <1>8 DEF RolesOf

LEMMA NextConfigurationServing ==
    ASSUME IInv, Serving, NextConfiguration
    PROVE  Serving'
  <1>1. /\ mpc = "next" /\ itor <= Len(argsVector)
        /\ UNCHANGED uvars /\ UNCHANGED <<argsVector, udpServers, tcpThreads>>
        /\ itor \in Nat \ {0}
    BY DEF NextConfiguration, IInv, Types, At
  <1>2. argsVector \in ArgLists /\ Len(argsVector) \in Nat
    BY <1>1, ServerAssumption DEF IInv, Types, ServerAssumption
  <1>3. Healthy /\ Started /\ Covered /\ TcpInOrder
    BY <1>1 DEF Serving, StartPlaces
  <1>4. CASE mpc' = "stop"
    BY <1>1, <1>4, LeavesStarting DEF Serving, StartPlaces
  <1>5. CASE /\ Accepts(argsVector[itor])
             /\ config' = BuildServerConfiguration(argsVector[itor])
             /\ itor' = itor + 1
             /\ mpc' = IF IsTCP(argsVector[itor]) THEN "tcpinit" ELSE "udpinit"
             /\ hr' = hr
    <2>1. Healthy'
      BY <1>1, <1>3, <1>5 DEF Healthy, Runs, uvars, control
    <2>2. Configured'
      <3>1. ConfigIsSound(config')
        BY <1>5, AcceptedIsSound
      <3>2. QED
        BY <3>1 DEF Configured
    <2>3. Started'
      <3>1. \A i \in 1..Len(argsVector) : i < itor' => i < itor \/ i = itor
        BY <1>1, <1>2, <1>5
      <3>2. QED
        BY <1>1, <1>3, <1>5, <3>1 DEF Started
    <2>4. Covered'
      BY <1>1, <1>3, <1>5 DEF Covered, SocketsOf, uvars, server, control
    <2>5. TcpInOrder'
      BY <1>1, <1>3, <1>5 DEF TcpInOrder
    <2>6. QED
      BY <1>1, <2>1, <2>2, <2>3, <2>4, <2>5 DEF Serving
  <1>6. QED
    <2>1. \A args : BuildServerConfiguration(args).fTCP = IsTCP(args)
      BY DEF BuildServerConfiguration
    <2>2. QED
      BY <1>4, <1>5, <2>1 DEF NextConfiguration, Go, Create

LEMMA UdpInitializeServing ==
    ASSUME IInv, Serving, UdpInitialize
    PROVE  Serving'
  <1>1. mpc = "udpinit" /\ NoneRuns /\ tcpThreads' = tcpThreads
    BY DEF UdpInitialize, At, IInv, Control, Quiet
  <1>2. Healthy /\ Configured /\ Started /\ TcpInOrder
    BY <1>1 DEF Serving, StartPlaces
  <1>3. CASE mpc' = "stop"
    BY <1>1, <1>3, LeavesStarting DEF Serving, StartPlaces
  <1>4. CASE /\ InitializeSucceeds(config) /\ Go("udpstart", 1)
             /\ UNCHANGED <<argsVector, itor, config, hr, udpServers>>
    <2>1. /\ open' = {r \in RoleSet : Has(config, r)}
          /\ threads' = IF config.fMultiThreadedMode THEN Len(RolesOf(config)) ELSE 1
          /\ socks' = [t \in Threads |-> SocksOf(config, t)]
          /\ UNCHANGED <<fNeedToExit, fThreadIsValid, tpc>>
          /\ mpc' = "udpstart" /\ k' = 1
      BY <1>4 DEF InitializeSucceeds, Go
    <2>2. Healthy'
      BY <1>2, <1>4, <2>1 DEF Healthy, Runs
    <2>3. Configured'
      BY <1>1, <1>2, <1>4 DEF Configured
    <2>4. Started'
      BY <1>1, <1>2, <1>4, <2>1 DEF Started
    <2>5. Covered'
      <3>1. ASSUME NEW r \in open'
            PROVE  \E t \in Threads : t <= threads' /\ r \in SocketsOf(t)'
        <4>1. Len(RolesOf(config)) \in 0..4
          BY RolesAreHad
        <4>2. PICK n \in 1..Len(RolesOf(config)) : RolesOf(config)[n] = r
          BY <2>1, <3>1, RolesAreAll DEF Among
        <4>3. CASE config.fMultiThreadedMode
          <5>1. n \in Threads /\ n <= threads'
            BY <2>1, <4>1, <4>2, <4>3 DEF Threads
          <5>2. socks'[n] = <<r>>
            BY <2>1, <4>1, <4>2, <4>3, <5>1 DEF SocksOf
          <5>3. QED
            BY <5>1, <5>2 DEF SocketsOf
        <4>4. CASE ~config.fMultiThreadedMode
          <5>1. 1 \in Threads /\ 1 <= threads'
            BY <2>1, <4>4 DEF Threads
          <5>2. socks'[1] = RolesOf(config)
            BY <2>1, <4>4, <5>1 DEF SocksOf
          <5>3. n \in DOMAIN RolesOf(config)
            BY <4>2, RolesAreHad
          <5>4. QED
            BY <4>2, <5>1, <5>2, <5>3 DEF SocketsOf
        <4>5. QED
          BY <4>3, <4>4
      <3>2. \A t \in Threads : t >= k'
        BY <2>1 DEF Threads
      <3>3. QED
        BY <2>1, <3>1, <3>2 DEF Covered
    <2>6. TcpInOrder'
      BY <1>1, <1>2, <2>1 DEF TcpInOrder
    <2>7. QED
      BY <1>1, <2>2, <2>3, <2>4, <2>5, <2>6 DEF Serving
  <1>5. QED
    BY <1>3, <1>4 DEF UdpInitialize, Go

LEMMA UdpStartServing ==
    ASSUME IInv, Serving, UdpStart
    PROVE  Serving'
  <1>1. /\ mpc = "udpstart" /\ k \in Threads /\ threads \in 0..4 /\ tcpThreads' = tcpThreads
        /\ tpc \in [Threads -> Places] /\ fThreadIsValid \in [Threads -> BOOLEAN]
    BY DEF UdpStart, At, IInv, Types
  <1>2. Healthy /\ Configured /\ Started /\ Covered /\ TcpInOrder
    BY <1>1 DEF Serving, StartPlaces
  <1>3. CASE mpc' = "flag"
    BY <1>1, <1>3, LeavesStarting DEF Serving, StartPlaces
  <1>4. CASE /\ StartThread(k)
             /\ IF k = threads THEN Go("next", 1) ELSE Go("udpstart", k + 1)
             /\ udpServers' = (k = threads)
             /\ UNCHANGED <<argsVector, itor, config, hr>>
    <2>1. /\ fThreadIsValid' = [fThreadIsValid EXCEPT ![k] = TRUE]
          /\ tpc' = [tpc EXCEPT ![k] = "test"]
          /\ UNCHANGED <<open, threads, socks, fNeedToExit>>
      BY <1>4 DEF StartThread, server
    <2>2. \/ mpc' = "next" /\ k = threads /\ udpServers'
          \/ mpc' = "udpstart" /\ k # threads /\ k' = k + 1
      BY <1>4 DEF Go
    <2>3. Healthy'
      BY <1>1, <1>2, <1>4, <2>1 DEF Healthy, Runs
    <2>4. Configured'
      BY <1>1, <1>2, <1>4 DEF Configured
    <2>5. Started'
      BY <1>1, <1>2, <1>4, <2>2 DEF Started
    <2>6. Covered'
      <3>1. \A r \in open' : \E t \in Threads : t <= threads' /\ r \in SocketsOf(t)'
        BY <1>2, <2>1 DEF Covered, SocketsOf
      <3>2. ASSUME NEW t \in Threads, t <= threads, ~fThreadIsValid'[t]
            PROVE  mpc' = "udpstart" /\ t >= k'
        <4>1. t # k /\ ~fThreadIsValid[t]
          BY <1>1, <2>1, <3>2
        <4>2. t >= k
          BY <1>1, <1>2, <3>2, <4>1 DEF Covered
        <4>3. k # threads /\ t >= k + 1
          BY <1>1, <3>2, <4>1, <4>2 DEF Threads
        <4>4. QED
          BY <2>2, <4>3
      <3>3. QED
        BY <2>1, <3>1, <3>2 DEF Covered
    <2>7. TcpInOrder'
      BY <1>1, <1>2, <2>2 DEF TcpInOrder
    <2>8. QED
      BY <1>1, <2>3, <2>4, <2>5, <2>6, <2>7 DEF Serving
  <1>5. QED
    BY <1>3, <1>4 DEF UdpStart, Go, AfterStartFailure

LEMMA TcpInitializeServing ==
    ASSUME IInv, Serving, TcpInitialize
    PROVE  Serving'
  <1>1. mpc = "tcpinit" /\ UNCHANGED uvars
    BY DEF TcpInitialize, At
  <1>2. Healthy /\ Configured /\ Started /\ Covered
    BY <1>1 DEF Serving, StartPlaces
  <1>3. CASE mpc' = "stop" /\ tcpThreads' = NoTcpThreads
    BY <1>3, LeavesStarting DEF StartPlaces, NoTcpThreads
  <1>4. CASE /\ tcpThreads' = [r \in RoleSet |-> IF r \in TcpThreadsOf THEN "ready" ELSE "none"]
             /\ Go("tcpstart", 1)
             /\ UNCHANGED <<argsVector, itor, config, hr, udpServers>>
    <2>1. mpc' = "tcpstart" /\ k' = 1
      BY <1>4 DEF Go
    <2>2. Healthy'
      BY <1>1, <1>2, <1>4 DEF Healthy, Runs, uvars, control
    <2>3. Configured'
      BY <1>1, <1>2, <1>4 DEF Configured
    <2>4. Started'
      <3>1. ASSUME argsVector # <<>> PROVE tcpThreads' # NoTcpThreads
        <4>1. "PP" \in RoleSet /\ Has(config, "PP")
          BY <1>1, <1>2, <3>1 DEF Configured, ConfigIsSound
        <4>2. tcpThreads'["PP"] = "ready"
          BY <1>4, <4>1 DEF TcpThreadsOf
        <4>3. NoTcpThreads["PP"] = "none"
          BY <4>1 DEF NoTcpThreads
        <4>4. QED
          BY <4>2, <4>3
      <3>2. ASSUME NEW i \in 1..Len(argsVector) PROVE argsVector # <<>>
        OBVIOUS
      <3>3. QED
        BY <1>1, <1>2, <1>4, <3>1, <3>2 DEF Started
    <2>5. Covered'
      BY <1>1, <1>2, <1>4, <2>1 DEF Covered, SocketsOf, uvars, server, control
    <2>6. TcpInOrder'
      BY <2>1 DEF TcpInOrder
    <2>7. QED
      BY <1>4, <2>2, <2>3, <2>4, <2>5, <2>6 DEF Serving
  <1>5. QED
    BY <1>3, <1>4 DEF TcpInitialize, Go

LEMMA TcpStartServing ==
    ASSUME IInv, Serving, TcpStart
    PROVE  Serving'
  <1>1. mpc = "tcpstart" /\ UNCHANGED uvars /\ k \in 1..5
    BY DEF TcpStart, At, IInv, Types
  <1>2. /\ Healthy /\ Configured /\ Started /\ Covered /\ TcpInOrder
        /\ tcpThreads \in [RoleSet -> {"none", "ready", "running"}]
    BY <1>1 DEF Serving, StartPlaces
  <1>3. CASE mpc' = "stop" /\ tcpThreads' = NoTcpThreads
    BY <1>3, LeavesStarting DEF StartPlaces, NoTcpThreads
  <1>4. CASE /\ UNCHANGED <<argsVector, itor, config, hr, udpServers>>
             /\ mpc' \in {"next", "tcpstart"}
             /\ tcpThreads' \in [RoleSet -> {"none", "ready", "running"}]
             /\ tcpThreads # NoTcpThreads => tcpThreads' # NoTcpThreads
             /\ TcpInOrder'
    <2>1. Healthy'
      BY <1>1, <1>2, <1>4 DEF Healthy, Runs, uvars, control
    <2>2. Configured'
      BY <1>1, <1>2, <1>4 DEF Configured
    <2>3. Started'
      BY <1>1, <1>2, <1>4 DEF Started
    <2>4. Covered'
      BY <1>1, <1>2, <1>4 DEF Covered, SocketsOf, uvars, server, control
    <2>5. QED
      BY <1>4, <2>1, <2>2, <2>3, <2>4 DEF Serving
  <1>5. CASE /\ k <= 4
             /\ tcpThreads' = [tcpThreads EXCEPT ![AllRoles[k]] =
                                   IF @ = "ready" THEN "running" ELSE @]
             /\ Go("tcpstart", k + 1)
             /\ UNCHANGED <<argsVector, itor, config, hr, udpServers>>
    <2>1. mpc' = "tcpstart" /\ k' = k + 1 /\ k \in 1..4
      BY <1>1, <1>5 DEF Go
    <2>2. \A i \in 1..4 : AllRoles[i] \in RoleSet
      BY DEF AllRoles, RoleSet
    <2>3. tcpThreads' \in [RoleSet -> {"none", "ready", "running"}]
      BY <1>2, <1>5
    <2>4. ASSUME tcpThreads' = NoTcpThreads PROVE tcpThreads = NoTcpThreads
      <3>1. \A r \in RoleSet : tcpThreads'[r] = "none"
        BY <2>4 DEF NoTcpThreads
      <3>2. \A r \in RoleSet : tcpThreads[r] = "none"
        BY <1>2, <1>5, <3>1
      <3>3. QED
        BY <1>2, <3>2 DEF NoTcpThreads
    <2>5. TcpInOrder'
      <3>1. ASSUME NEW i \in 1..4, i < k' PROVE tcpThreads'[AllRoles[i]] # "ready"
        <4>1. i < k \/ i = k
          BY <2>1, <3>1
        <4>2. i < k => tcpThreads[AllRoles[i]] # "ready"
          BY <1>1, <1>2 DEF TcpInOrder
        <4>3. AllRoles[i] \in RoleSet /\ AllRoles[k] \in RoleSet
          BY <2>1, <2>2
        <4>4. QED
          BY <1>2, <1>5, <4>1, <4>2, <4>3
      <3>2. QED
        BY <2>1, <3>1 DEF TcpInOrder
    <2>6. QED
      BY <1>4, <1>5, <2>1, <2>3, <2>4, <2>5
  <1>6. CASE k = 5 /\ Go("next", 1) /\ UNCHANGED main
    <2>1. \A r \in RoleSet : \E i \in 1..4 : AllRoles[i] = r
      BY DEF AllRoles, RoleSet
    <2>2. \A i \in 1..4 : tcpThreads[AllRoles[i]] # "ready"
      BY <1>1, <1>2, <1>6 DEF TcpInOrder
    <2>3. TcpInOrder'
      BY <1>6, <2>1, <2>2 DEF TcpInOrder, Go, main
    <2>4. QED
      BY <1>2, <1>4, <1>6, <2>3 DEF Go, main
  <1>7. QED
    BY <1>3, <1>5, <1>6 DEF TcpStart, Go

(* Stopping never goes back to starting.                                   *)
LEMMA StoppingServing ==
    ASSUME IInv, Serving, ExitSignal \/ StopServers \/ UdpStop \/ TcpStop \/ UdpRelease
    PROVE  Serving'
  <1>1. mpc' \notin StartPlaces
    <2>1. CASE ExitSignal \/ StopServers \/ TcpStop \/ UdpRelease
      BY <2>1 DEF ExitSignal, StopServers, TcpStop, UdpRelease, Go, StartPlaces
    <2>2. CASE UdpStop
      <3>1. mpc \in {"flag", "post", "join"}
        BY <2>2 DEF UdpStop, At
      <3>2. mpc' \in {mpc, "post", "join", AfterJoins}
        BY <2>2, <3>1 DEF UdpStop, At, Go
      <3>3. QED
        BY <3>1, <3>2 DEF AfterJoins, StartPlaces
    <2>3. QED
      BY <2>1, <2>2
  <1>2. tcpThreads' \in {tcpThreads, NoTcpThreads}
    BY DEF ExitSignal, StopServers, UdpStop, TcpStop, UdpRelease, main
  <1>3. tcpThreads' \in [RoleSet -> {"none", "ready", "running"}]
    BY <1>2 DEF Serving, NoTcpThreads
  <1>4. QED
    BY <1>1, <1>3, LeavesStarting

LEMMA StepServing == IInv /\ Serving /\ [Next]_vars => Serving'
  <1> SUFFICES ASSUME IInv, Serving, [Next]_vars PROVE Serving'
    OBVIOUS
  <1>1. CASE MainThread \/ ExitSignal
    BY <1>1, NextConfigurationServing, UdpInitializeServing, UdpStartServing,
       TcpInitializeServing, TcpStartServing, StoppingServing DEF MainThread
  <1>2. ASSUME NEW t \in Threads, Run(t), UNCHANGED <<main, mpc, k>> PROVE Serving'
    BY <1>2, RunServing
  <1>3. ASSUME NEW r, NEW kind, NEW from, Arrive(r, kind, from) PROVE Serving'
    BY <1>3, OutsideServing DEF Arrive
  <1>4. CASE UNCHANGED vars
    BY <1>4, OutsideServing DEF vars, uvars
  <1>5. QED
    BY <1>1, <1>2, <1>3, <1>4 DEF Next

(* When main waits for the signal, no start has failed, every server the   *)
(* options asked for has been started from a configuration that makes      *)
(* sense, and every socket is read by a thread that stays: whichever step  *)
(* fails, main stops what it started and never waits.                      *)
THEOREM ServingTheorem == Spec => []WaitingMeansServing
  <1>1. ASSUME IInv, Serving PROVE WaitingMeansServing
    <2> SUFFICES ASSUME mpc = "next", itor > Len(argsVector)
                 PROVE  /\ hr = "S_OK"
                        /\ argsVector # <<>> => ConfigIsSound(config)
                        /\ \A i \in DOMAIN argsVector :
                              IF IsTCP(argsVector[i]) THEN tcpThreads # NoTcpThreads ELSE udpServers
                        /\ udpServers => EverySocketIsServed
                        /\ \A r \in RoleSet : tcpThreads[r] # "ready"
      BY DEF WaitingMeansServing, At
    <2>1. Healthy /\ Configured /\ Started /\ Covered /\ TcpInOrder
      BY <1>1 DEF Serving, StartPlaces
    <2>2. /\ DOMAIN argsVector = 1..Len(argsVector) /\ Len(argsVector) \in Nat
          /\ argsVector # <<>> => Len(argsVector) > 0
          /\ itor \in Nat
      <3>1. argsVector \in ArgLists \cup {<<>>} /\ itor \in Nat
        BY <1>1 DEF IInv, Types
      <3>2. CASE argsVector = <<>>
        BY <3>1, <3>2
      <3>3. CASE argsVector \in ArgLists
        <4>1. PICK S : argsVector \in Seq(S)
          BY <3>3, ServerAssumption DEF ServerAssumption
        <4>2. QED
          BY <3>1, <4>1
      <3>4. QED
        BY <3>1, <3>2, <3>3
    <2>3. hr = "S_OK" /\ \A r \in RoleSet : tcpThreads[r] # "ready"
      BY <2>1 DEF Healthy, TcpInOrder
    <2>4. argsVector # <<>> => ConfigIsSound(config)
      <3>1. argsVector # <<>> => itor > 1
        BY <2>2
      <3>2. QED
        BY <2>1, <3>1 DEF Configured
    <2>5. ASSUME NEW i \in DOMAIN argsVector
          PROVE  IF IsTCP(argsVector[i]) THEN tcpThreads # NoTcpThreads ELSE udpServers
      <3>1. i \in 1..Len(argsVector) /\ i < itor
        BY <2>2, <2>5
      <3>2. QED
        BY <2>1, <3>1 DEF Started
    <2>6. udpServers => EverySocketIsServed
      BY <2>1 DEF Covered, Healthy, EverySocketIsServed, SocketsOf
    <2>7. QED
      BY <2>3, <2>4, <2>5, <2>6
  <1>2. Spec => []Serving
    BY InitServing, StepServing, Invariant, PTL DEF Spec
  <1>3. QED
    BY <1>1, <1>2, Invariant, PTL

=============================================================================
