----------------------------- MODULE UdpServer -----------------------------
(***************************************************************************)
(* CStunServer and its CStunSocketThreads (server/server.cpp,              *)
(* server/stunsocketthread.cpp): up to four sockets, served by one thread  *)
(* or by one thread each.  Every operation of the server that another      *)
(* thread can observe half done is an operation on one thread here; the    *)
(* module StunServer puts them into the order of the code.                 *)
(*                                                                         *)
(* A thread blocks in select or recvmsg, which nothing interrupts but a    *)
(* datagram.  So a stop sets the flag of the thread and then sends a       *)
(* datagram from every socket of the thread to itself.                     *)
(***************************************************************************)
EXTENDS ServerConfig

CONSTANTS
    Clients,
    Kinds,          \* what arrives: "request", "junk", "empty" (no payload)
                    \* or "bad" (its checksum is wrong)
    Self,           \* the sender of a wake-up datagram
    NoAddress,
    QueueLimit,     \* the receive buffer of a socket, in datagrams
    MaxInFlight     \* bound: the datagrams of clients queued at a time

Threads == 1..4

ASSUME UdpAssumption ==
    /\ QueueLimit \in Nat \ {0}
    /\ MaxInFlight \in Nat
    /\ Self \notin Clients /\ NoAddress \notin Clients

VARIABLES
    open,           \* the roles whose socket in _arrSockets is open
    threads,        \* _threads.size()
    limiter,        \* _spLimiter is set
    socks,          \* of every thread: the roles of _socks
    fNeedToExit,
    fThreadIsValid,
    tpc,            \* of every thread: where Run stands
    rotation, pSocket,
    addrRemote,     \* _msgIn.addrRemote, kept from one pass to the next
    charged,        \* the address RateCheck was last asked about
    got,            \* what recvfromex returned, until the end of the pass
    queue           \* of every socket: the datagrams it has received

server == <<open, threads, limiter>>
control == <<socks, fNeedToExit, fThreadIsValid>>
pass == <<rotation, pSocket, addrRemote, charged, got>>
uvars == <<server, control, tpc, pass, queue>>

Datagram(kind, from) == [kind |-> kind, from |-> from]
Nothing == Datagram("none", NoAddress)

InitThreads ==
    /\ open = {}
    /\ threads = 0
    /\ limiter = FALSE
    /\ socks = [t \in Threads |-> <<>>]
    /\ fNeedToExit = [t \in Threads |-> FALSE]
    /\ fThreadIsValid = [t \in Threads |-> FALSE]
    /\ tpc = [t \in Threads |-> "off"]
    /\ rotation = [t \in Threads |-> 0]
    /\ pSocket = [t \in Threads |-> 0]
    /\ addrRemote = [t \in Threads |-> NoAddress]
    /\ charged = [t \in Threads |-> NoAddress]
    /\ got = [t \in Threads |-> Nothing]
    /\ queue = [r \in RoleSet |-> <<>>]

(* -------- the server, called by the main thread ------------------------- *)

(* One thread for all the sockets, or the i-th thread for the i-th socket. *)
SocksOf(config, t) ==
    IF config.fMultiThreadedMode
    THEN IF t <= Len(RolesOf(config)) THEN <<RolesOf(config)[t]>> ELSE <<>>
    ELSE IF t = 1 THEN RolesOf(config) ELSE <<>>

InitializeSucceeds(config) ==
    /\ RolesOf(config) # <<>>
    /\ open' = {r \in RoleSet : Has(config, r)}
    /\ threads' = IF config.fMultiThreadedMode THEN Len(RolesOf(config)) ELSE 1
    /\ limiter' = config.fEnableDosProtection
    /\ socks' = [t \in Threads |-> SocksOf(config, t)]
    /\ UNCHANGED <<fNeedToExit, fThreadIsValid, tpc, pass, queue>>

(* A socket cannot be bound: Shutdown leaves nothing of what was set up.   *)
InitializeFails == UNCHANGED uvars

StartThread(t) ==
    /\ ~fThreadIsValid[t] /\ socks[t] # <<>>
    /\ fThreadIsValid' = [fThreadIsValid EXCEPT ![t] = TRUE]
    /\ tpc' = [tpc EXCEPT ![t] = "test"]
    /\ UNCHANGED <<server, socks, fNeedToExit, pass, queue>>

(* SignalForStop(false)                                                    *)
SetExitFlag(t) ==
    /\ fNeedToExit' = [fNeedToExit EXCEPT ![t] = TRUE]
    /\ UNCHANGED <<server, socks, fThreadIsValid, tpc, pass, queue>>

WokenBy_OnlyIfSeveral(t) ==
    {socks[t][i] : i \in {j \in DOMAIN socks[t] : Len(socks[t]) > 1}}

(* The sockets a wake-up is sent to.                                       *)
WokenBy(t) == {socks[t][i] : i \in DOMAIN socks[t]}

(* SignalForStop(true); a socket whose buffer is full loses the wake-up.   *)
PostWakeups(t) ==
    /\ fNeedToExit' = [fNeedToExit EXCEPT ![t] = TRUE]
    /\ queue' = [r \in RoleSet |->
            IF r \in WokenBy(t) /\ Len(queue[r]) < QueueLimit
            THEN Append(queue[r], Datagram("junk", Self)) ELSE queue[r]]
    /\ UNCHANGED <<server, socks, fThreadIsValid, tpc, pass>>

(* pthread_join returns when Run has.                                      *)
CanJoin(t) == fThreadIsValid[t] => tpc[t] = "done"

(* WaitForStopAndClose                                                     *)
WaitForStopAndClose(t) ==
    /\ CanJoin(t)
    /\ fThreadIsValid' = [fThreadIsValid EXCEPT ![t] = FALSE]
    /\ socks' = [socks EXCEPT ![t] = <<>>]
    /\ UNCHANGED <<server, fNeedToExit, tpc, pass, queue>>

(* Shutdown after Stop: the sockets are closed, the threads deleted.       *)
Shutdown ==
    /\ open' = {}
    /\ threads' = 0
    /\ limiter' = FALSE
    /\ queue' = [r \in RoleSet |-> <<>>]
    /\ UNCHANGED <<control, tpc, pass>>

(* -------- CStunSocketThread::Run ---------------------------------------- *)

fMultiSocketMode(t) == Len(socks[t]) > 1

Goto(t, place) == tpc' = [tpc EXCEPT ![t] = place]

(* Run returns: nothing reads again what it kept for the next pass.        *)
EndOfRun(t) ==
    /\ Goto(t, "done")
    /\ rotation' = [rotation EXCEPT ![t] = 0]
    /\ pSocket' = [pSocket EXCEPT ![t] = 0]
    /\ addrRemote' = [addrRemote EXCEPT ![t] = NoAddress]
    /\ charged' = [charged EXCEPT ![t] = NoAddress]
    /\ got' = [got EXCEPT ![t] = Nothing]

(* while (_fNeedToExit == false)                                           *)
LoopTest(t) ==
    /\ tpc[t] = "test"
    /\ \/ fNeedToExit[t] /\ EndOfRun(t)
       \/ /\ ~fNeedToExit[t] /\ fMultiSocketMode(t)
          /\ Goto(t, "select")
          /\ UNCHANGED pass
       \/ /\ ~fNeedToExit[t] /\ ~fMultiSocketMode(t)
          /\ Goto(t, "recv")
          /\ pSocket' = [pSocket EXCEPT ![t] = 1]
          /\ UNCHANGED <<rotation, addrRemote, charged, got>>
    /\ UNCHANGED <<server, control, queue>>

Advance_Stuck(t) == rotation[t]

(* rotation gives another socket priority in the next loop                 *)
Advance(t) == (rotation[t] + 1) % Len(socks[t])

(* The datagrams from the first one on whose checksum is right.            *)
Checked(datagrams) ==
    LET right == {i \in DOMAIN datagrams : datagrams[i].kind # "bad"}
    IN  IF right = {} THEN <<>>
        ELSE SubSeq(datagrams, CHOOSE i \in right : \A j \in right : i <= j, Len(datagrams))

(* select reports a socket that has any datagram, or looks at checksums    *)
(* first and drops what it finds wrong, as Linux does for blocking sockets.*)
Selectable(t) ==
    {queue, [r \in RoleSet |-> IF \E i \in DOMAIN socks[t] : socks[t][i] = r
                               THEN Checked(queue[r]) ELSE queue[r]]}

(* The first ready socket from the rotation on.                            *)
FirstReady(t, waiting) ==
    LET n == Len(socks[t])
        Place(i) == ((i + Advance(t)) % n) + 1
        Ready(i) == waiting[socks[t][Place(i)]] # <<>>
        First == CHOOSE i \in 0..(n - 1) : Ready(i) /\ \A j \in 0..(i - 1) : ~Ready(j)
    IN  Place(First)

WaitForSocketData(t) ==
    /\ tpc[t] = "select"
    /\ queue' \in Selectable(t)
    /\ LET ready == \E i \in DOMAIN socks[t] : queue'[socks[t][i]] # <<>>
       IN \/ ~ready /\ UNCHANGED <<tpc, pass>>
          \/ ready /\ fNeedToExit[t] /\ EndOfRun(t)
          \/ /\ ready /\ ~fNeedToExit[t]
             /\ pSocket' = [pSocket EXCEPT ![t] = FirstReady(t, queue')]
             /\ rotation' = [rotation EXCEPT ![t] = Advance(t)]
             /\ Goto(t, "recv")
             /\ UNCHANGED <<addrRemote, charged, got>>
    /\ UNCHANGED <<server, control>>

Sock(t) == socks[t][pSocket[t]]

ChargedTo_Previous(t, d) == addrRemote[t]

(* recvfromex fills in the address if it received at least one byte; the   *)
(* limiter is asked about what is there, whatever recvfromex returned.     *)
ChargedTo(t, d) == IF d.kind \in {"request", "junk"} THEN d.from ELSE addrRemote[t]

(* recvfromex and RateCheck.  recvmsg drops a datagram with a wrong        *)
(* checksum and goes on to the next, if there is one or it may wait for    *)
(* it; with MSG_DONTWAIT it can fail as well.                              *)
Receive(t) ==
    /\ tpc[t] = "recv"
    /\ queue[Sock(t)] # <<>>
    /\ LET d == Head(queue[Sock(t)])
           failed == d.kind = "bad"
       IN /\ queue' = [queue EXCEPT ![Sock(t)] = Tail(@)]
          /\ \/ /\ failed /\ (fMultiSocketMode(t) => Len(queue[Sock(t)]) > 1)
                /\ UNCHANGED <<tpc, pass>>
             \/ /\ failed => fMultiSocketMode(t)
                /\ addrRemote' = [addrRemote EXCEPT ![t] =
                        IF d.kind \in {"request", "junk"} THEN d.from ELSE @]
                /\ charged' = [charged EXCEPT ![t] =
                        IF limiter THEN ChargedTo(t, d) ELSE @]
                /\ \E allowed_to_pass \in (IF limiter THEN BOOLEAN ELSE {TRUE}) :
                      LET passes == ~failed /\ allowed_to_pass
                      IN /\ Goto(t, IF passes THEN "check" ELSE "test")
                         /\ got' = [got EXCEPT ![t] = IF passes THEN d ELSE Nothing]
                /\ UNCHANGED <<rotation, pSocket>>
    /\ UNCHANGED <<server, control>>

(* The reader finds a valid message: it is answered to _msgIn.addrRemote.  *)
IsAnswered(t) == tpc[t] = "check" /\ ~fNeedToExit[t] /\ got[t].kind = "request"

(* ProcessRequestAndSendResponse, unless the flag was set meanwhile.       *)
ProcessRequestAndSendResponse(t) ==
    /\ tpc[t] = "check"
    /\ \/ fNeedToExit[t] /\ EndOfRun(t)
       \/ /\ ~fNeedToExit[t]
          /\ Goto(t, "test")
          /\ got' = [got EXCEPT ![t] = Nothing]
          /\ UNCHANGED <<rotation, pSocket, addrRemote, charged>>
    /\ UNCHANGED <<server, control, queue>>

Run(t) ==
    \/ LoopTest(t)
    \/ WaitForSocketData(t)
    \/ Receive(t)
    \/ ProcessRequestAndSendResponse(t)

(* -------- the network --------------------------------------------------- *)

OfClients(r) == {i \in DOMAIN queue[r] : queue[r][i].from # Self}

InFlight == UNION {{r} \X OfClients(r) : r \in RoleSet}
=============================================================================
