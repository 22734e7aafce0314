----------------------------- MODULE StunServer -----------------------------
(***************************************************************************)
(* The server program: main of server/main.cpp builds one server after the *)
(* other from the options or from a configuration file, gives up at the    *)
(* first that fails, waits for SIGINT or SIGTERM when all are running, and *)
(* stops them.  Its one UDP server is the one of module UdpServer; of its  *)
(* one TCP server (CTCPServer, server/tcpserver.cpp) only the life of its  *)
(* threads is kept, as what they do is in module TcpThread.                *)
(***************************************************************************)
EXTENDS UdpServer, FiniteSets

CONSTANTS
    ArgLists,       \* command lines (one entry) and configuration files
    OwnConfigs      \* configurations a program other than main starts a
                    \* server with: they can ask for multi-threaded mode

(* A list of options is a sequence and asks for at most one UDP server.     *)
ASSUME ServerAssumption ==
    \A list \in ArgLists :
        /\ list \in Seq({list[i] : i \in DOMAIN list})
        /\ \A i, j \in 1..Len(list) : ~IsTCP(list[i]) /\ ~IsTCP(list[j]) => i = j

VARIABLES
    argsVector, itor,   \* the options of every server, the next to start
    config,             \* the configuration being started
    mpc, k,             \* where the main thread stands, and with which thread
    hr,                 \* "S_OK" or "failed"
    udpServers,         \* the UDP server is listed: it has been started
    tcpThreads          \* the _threads of the TCP server

main == <<argsVector, itor, config, hr, udpServers, tcpThreads>>
vars == <<uvars, main, mpc, k>>

NoConfig == [fTCP |-> FALSE, fMultiThreadedMode |-> FALSE, nMaxConnections |-> 0,
             listen |-> [r \in RoleSet |-> NoAddr],
             primaryAdvertised |-> "", alternateAdvertised |-> "",
             fEnableDosProtection |-> FALSE]

NoTcpThreads == [r \in RoleSet |-> "none"]

Create(c) == IF c.fTCP THEN "tcpinit" ELSE "udpinit"

Init ==
    /\ InitThreads
    /\ \/ argsVector \in ArgLists /\ config = NoConfig /\ mpc = "next"
       \/ argsVector = <<>> /\ config \in OwnConfigs /\ mpc = Create(config)
    /\ itor = 1 /\ k = 1
    /\ hr = "S_OK"
    /\ udpServers = FALSE
    /\ tcpThreads = NoTcpThreads

At(place)  == mpc = place
Go(place, n) == mpc' = place /\ k' = n

(* -------- starting ------------------------------------------------------ *)

NextConfiguration ==
    /\ At("next") /\ itor <= Len(argsVector)
    /\ LET args == argsVector[itor]
       IN \/ /\ Accepts(args)
             /\ config' = BuildServerConfiguration(args)
             /\ itor' = itor + 1
             /\ Go(Create(config'), 1)
             /\ UNCHANGED hr
          \/ /\ ~Accepts(args)
             /\ hr' = "failed"
             /\ Go("stop", 1)
             /\ UNCHANGED <<config, itor>>
    /\ UNCHANGED <<uvars, argsVector, udpServers, tcpThreads>>

Fail == hr' = "failed" /\ UNCHANGED <<argsVector, itor, config, udpServers>>

UdpInitialize ==
    /\ At("udpinit")
    /\ UNCHANGED tcpThreads
    /\ \/ /\ InitializeSucceeds(config)
          /\ Go("udpstart", 1)
          /\ UNCHANGED <<argsVector, itor, config, hr, udpServers>>
       \/ InitializeFails /\ Fail /\ Go("stop", 1)

AfterStartFailure_NoStop == "release"

AfterStartFailure == "flag"

(* CStunServer::Start: when one thread cannot be created, Stop.            *)
UdpStart ==
    /\ At("udpstart")
    /\ UNCHANGED tcpThreads
    /\ \/ /\ StartThread(k)
          /\ IF k = threads THEN Go("next", 1) ELSE Go("udpstart", k + 1)
          /\ udpServers' = (k = threads)
          /\ UNCHANGED <<argsVector, itor, config, hr>>
       \/ Fail /\ Go(AfterStartFailure, 1) /\ UNCHANGED uvars

TcpThreadsOf == IF config.fMultiThreadedMode THEN {r \in RoleSet : Has(config, r)} ELSE {"PP"}

(* CTCPStunThread::Init refuses 100000 connections, and can fail besides.  *)
TcpInitialize ==
    /\ At("tcpinit")
    /\ UNCHANGED uvars
    /\ \/ /\ config.nMaxConnections < 100000
          /\ tcpThreads' = [r \in RoleSet |-> IF r \in TcpThreadsOf THEN "ready" ELSE "none"]
          /\ Go("tcpstart", 1)
          /\ UNCHANGED <<argsVector, itor, config, hr, udpServers>>
       \/ Fail /\ tcpThreads' = NoTcpThreads /\ Go("stop", 1)

(* The threads start in the order of their roles; if one does not, the     *)
(* server is released, and its destructor stops those that did.            *)
TcpStart ==
    /\ At("tcpstart")
    /\ UNCHANGED uvars
    /\ \/ /\ k <= 4
          /\ tcpThreads' = [tcpThreads EXCEPT ![AllRoles[k]] =
                                IF @ = "ready" THEN "running" ELSE @]
          /\ Go("tcpstart", k + 1)
          /\ UNCHANGED <<argsVector, itor, config, hr, udpServers>>
       \/ /\ k <= 4 /\ tcpThreads[AllRoles[k]] = "ready"
          /\ Fail /\ tcpThreads' = NoTcpThreads /\ Go("stop", 1)
       \/ k = 5 /\ Go("next", 1) /\ UNCHANGED main

(* -------- stopping ------------------------------------------------------ *)

(* WaitForAppExitSignal is called only if every server was started.        *)
ExitSignal ==
    /\ At("next") /\ itor > Len(argsVector)
    /\ Go("stop", 1)
    /\ UNCHANGED <<uvars, main>>

StopServers ==
    /\ At("stop")
    /\ Go(IF udpServers THEN "flag" ELSE "tcpstop", 1)
    /\ UNCHANGED <<uvars, main>>

AfterJoins == IF udpServers THEN "tcpstop" ELSE "release"

(* CStunServer::Stop: each of its three loops goes over all the threads.   *)
UdpStop ==
    /\ \/ At("flag") /\ SetExitFlag(k)
       \/ At("post") /\ PostWakeups(k)
       \/ At("join") /\ WaitForStopAndClose(k)
    /\ IF k < threads THEN Go(mpc, k + 1)
       ELSE Go(CASE At("flag") -> "post"
                 [] At("post") -> "join"
                 [] At("join") -> AfterJoins, 1)
    /\ UNCHANGED main

TcpStop ==
    /\ At("tcpstop")
    /\ tcpThreads' = NoTcpThreads
    /\ Go(IF udpServers THEN "release" ELSE "done", 1)
    /\ UNCHANGED <<uvars, argsVector, itor, config, hr, udpServers>>

(* The last reference goes: of a server that failed to start at once, of   *)
(* the others when main returns.  The destructor calls Shutdown.           *)
UdpRelease ==
    /\ At("release")
    /\ Shutdown
    /\ Go(IF udpServers THEN "done" ELSE "tcpstop", 1)
    /\ UNCHANGED main

MainThread ==
    \/ NextConfiguration
    \/ UdpInitialize \/ UdpStart
    \/ TcpInitialize \/ TcpStart
    \/ StopServers \/ UdpStop \/ TcpStop \/ UdpRelease

(* A datagram of a client arrives at an open socket that has room for it.  *)
Arrive(r, kind, from) ==
    /\ r \in open
    /\ Cardinality(InFlight) < MaxInFlight
    /\ Len(queue[r]) < QueueLimit
    /\ queue' = [queue EXCEPT ![r] = Append(@, Datagram(kind, from))]
    /\ UNCHANGED <<server, control, tpc, pass, main, mpc, k>>

Next ==
    \/ MainThread
    \/ ExitSignal
    \/ \E t \in Threads : Run(t) /\ UNCHANGED <<main, mpc, k>>
    \/ \E r \in RoleSet, kind \in Kinds, from \in Clients : Arrive(r, kind, from)

Spec == Init /\ [][Next]_vars

(* The system schedules every thread; nothing makes a signal or a client   *)
(* come.                                                                   *)
Fairness ==
    /\ WF_vars(MainThread)
    /\ \A t \in Threads : WF_vars(Run(t) /\ UNCHANGED <<main, mpc, k>>)

FairSpec == Spec /\ Fairness

(* -------- properties ---------------------------------------------------- *)

Runs(t) == tpc[t] \notin {"off", "done"}

(* A thread that runs has its sockets, and they are open, whichever step   *)
(* of starting or stopping the server has failed or is under way: Shutdown *)
(* closes them, and WaitForStopAndClose takes them from the thread, only   *)
(* once it has ended.                                                      *)
SocketsOutliveThreads ==
    \A t \in Threads : Runs(t) =>
        /\ socks[t] # <<>>
        /\ {socks[t][i] : i \in DOMAIN socks[t]} \subseteq open

(* What is advertised for one interface is announced of the other as well. *)
AdvertisedTwice(c) ==
    \/ /\ c.primaryAdvertised # ""
       /\ c.primaryAdvertised \in {c.alternateAdvertised, c.listen["AP"].ip}
    \/ /\ c.alternateAdvertised # ""
       /\ c.alternateAdvertised = c.listen["PP"].ip

(* The sockets of an accepted configuration can be bound side by side, and *)
(* what the server announces of them tells them apart, unless the options  *)
(* advertise one address for both interfaces.                              *)
ConfigIsSound(c) ==
    LET roles == {r \in RoleSet : Has(c, r)}
    IN /\ "PP" \in roles
       /\ \A r \in roles : \A s \in roles \ {r} :
             /\ c.listen[r] # c.listen[s]
             /\ TransportAddress(c, r) = TransportAddress(c, s) => AdvertisedTwice(c)

(* Every socket of the UDP server is read by a thread that stays.          *)
EverySocketIsServed ==
    \A r \in open : \E t \in Threads :
        Runs(t) /\ ~fNeedToExit[t] /\ \E n \in DOMAIN socks[t] : socks[t][n] = r

(* When main waits for the signal, every server it was asked for is there, *)
(* with a configuration that makes sense, every socket has its thread, and *)
(* no thread was told to exit: a server that failed ends the program.      *)
WaitingMeansServing ==
    At("next") /\ itor > Len(argsVector) =>
        /\ hr = "S_OK"
        /\ argsVector # <<>> => ConfigIsSound(config)
        /\ \A i \in DOMAIN argsVector :
              IF IsTCP(argsVector[i]) THEN tcpThreads # NoTcpThreads ELSE udpServers
        /\ udpServers => EverySocketIsServed
        /\ \A r \in RoleSet : tcpThreads[r] # "ready"

(* An answer goes to the sender of the datagram this pass received, and    *)
(* with a limiter it is this sender that was charged, although the address *)
(* is kept from pass to pass and an empty or failed receive leaves the one *)
(* of an earlier datagram in place.                                        *)
AnswerIsPaid ==
    \A t \in Threads : IsAnswered(t) =>
        /\ addrRemote[t] = got[t].from
        /\ limiter => charged[t] = got[t].from

NothingIsLeft ==
    /\ open = {} /\ threads = 0
    /\ \A t \in Threads : ~Runs(t) /\ ~fThreadIsValid[t]
    /\ tcpThreads = NoTcpThreads

(* The thread is in select or recvmsg, and every buffer it looks at there  *)
(* is full, of nothing it could receive.                                   *)
NoRoomToWake(t) ==
    /\ tpc[t] \in {"select", "recv"}
    /\ \A i \in (IF tpc[t] = "recv" THEN {pSocket[t]} ELSE DOMAIN socks[t]) :
          Len(queue[socks[t][i]]) = QueueLimit /\ Checked(queue[socks[t][i]]) = <<>>

(* Every stop, at the signal or because a server or one of its threads did *)
(* not start, comes to an end and leaves no thread and no socket behind:   *)
(* no wake-up is missed between the test of the flag and the blocking      *)
(* call, whatever the sockets have queued.  The exception is a thread that *)
(* is to be woken while it waits for sockets whose buffers are full of     *)
(* wrong checksums: the wake-up is lost, and what filled the buffers too.  *)
StopCompletes ==
    (At("stop") \/ At("flag")) ~>
        (At("done") /\ NothingIsLeft) \/ (At("post") /\ NoRoomToWake(k))

(* A socket with a datagram waiting that can be received is read again and *)
(* again as long as the server runs, however busy the others are.          *)
RotationServesAll ==
    \A r \in RoleSet :
        (<>[](At("next") /\ r \in open /\ Checked(queue[r]) # <<>>)) =>
            []<>(\E t \in Threads : tpc[t] = "recv" /\ Sock(t) = r)
=============================================================================
