----------------------------- MODULE TcpThread -----------------------------
(***************************************************************************)
(* One CTCPStunThread of the TCP STUN server (server/tcpserver.cpp), with  *)
(* the connection pool it draws from (server/stunconnection.cpp) and the   *)
(* epoll wrapper it waits on (CEpoll of networkutils/polling.cpp).         *)
(*                                                                         *)
(* Actors: the main thread (Init, Start, Stop), the server thread (Run,    *)
(* one action per system call of its loop), the kernel and the clients     *)
(* (connections queueing, bytes arriving, buffers draining, resets) and    *)
(* the clock.  Message bytes are counted, not represented: what the reader *)
(* finds in them is a choice made when a header or a body is complete.     *)
(***************************************************************************)
EXTENDS Naturals, FiniteSets

CONSTANTS
    Listeners,      \* the socket roles this thread listens on: a subset of 0..3
    Fds,            \* descriptors the kernel can hand out for client sockets
    Conns,          \* StunConnection objects the heap has room for
    None,           \* NULL, or descriptor -1
    Pipe,           \* the read end of the notification pipe
    MaxConnections, \* _maxConnections
    GrowRate,       \* c_growrate: objects the pool allocates at a time
    SweepTimeout,   \* c_sweepTimeoutSeconds, in clock ticks
    HeaderSize,     \* STUN_HEADER_SIZE, in units of bytes
    MsgLengths,     \* the message lengths a valid header may announce
    RespSize,       \* size of a response, in units of bytes
    PollFaults,     \* TRUE if epoll_ctl and fcntl may fail
    MaxBacklog, MaxIn, MaxRoom  \* bounds of the kernel's queues and buffers

ASSUME TcpAssumption ==
    /\ Listeners \subseteq 0..3 /\ Listeners # {}
    /\ Listeners \cap Fds = {}
    /\ Pipe \notin Listeners \cup Fds
    /\ None \notin Conns \cup Fds \cup Listeners
    /\ Conns \cap Listeners = {}
    /\ MaxConnections \in Nat \ {0}
    /\ GrowRate \in Nat \ {0}
    /\ SweepTimeout \in Nat \ {0}
    /\ HeaderSize \in Nat \ {0}
    /\ MsgLengths \subseteq Nat
    /\ RespSize \in Nat \ {0}
    /\ PollFaults \in BOOLEAN
    /\ MaxBacklog \in Nat /\ MaxIn \in Nat /\ MaxRoom \in Nat

VARIABLES
    mpc, fNeedToExit, pipeFull,       \* main thread, exit flag, bytes in the pipe
    pc, cur,                          \* server thread: next step, its subject
    newList, table,                   \* _pNewConnList, _hashConnections1 and 2
    pool, free,                       \* allocated connections, _freelist
    sock, cstate, reader, rx, msgLen, tx, idHashTable, age, \* per connection
    fListenSocketsOnEpoll, listenReg, \* flag, and what epoll really watches
    interest, events,                 \* event set per fd, undelivered _events
    backlog, open, inq, room, peer,   \* kernel: accept queues, sockets
    sinceSweep                        \* time(NULL) - _timeLastSweep, saturating

mainVars   == <<mpc, fNeedToExit, pipeFull>>
threadVars == <<pc, cur>>
listVars   == <<newList, table>>
poolVars   == <<pool, free, idHashTable, age>>
connVars   == <<sock, cstate, reader, rx, msgLen, tx>>
listenVars == <<fListenSocketsOnEpoll, listenReg>>
sockVars   == <<open, inq, room, peer, interest>>
vars == <<mainVars, threadVars, listVars, poolVars, connVars, listenVars,
          sockVars, events, backlog, sinceSweep>>

ReaderStates == {"HeaderNotRead", "HeaderValidated", "BodyValidated", "ParseError"}

-----------------------------------------------------------------------------
(* The connection lists.                                                   *)

oldList == 3 - newList
ConnsIn(i) == {table[i][fd] : fd \in Fds} \ {None}
Size(i) == Cardinality({fd \in Fds : table[i][fd] # None})
Tracked == ConnsIn(1) \cup ConnsIn(2)

\* Mutants: the old list is forgotten; off by one.
IsConnectionCountAtMax_NewOnly == Size(newList) >= MaxConnections
IsConnectionCountAtMax_OffByOne == Size(newList) + Size(oldList) >= MaxConnections - 1

IsConnectionCountAtMax == Size(newList) + Size(oldList) >= MaxConnections

\* Mutant: GetTimeoutSeconds always returns -1.
WaitIsBounded_Never == FALSE

\* GetTimeoutSeconds: the wait is bounded exactly when a connection exists.
WaitIsBounded == Size(newList) + Size(oldList) # 0

\* ProcessConnectionEvent's lookup: the new list first, then the old one.
LookupConnection(fd) ==
    IF table[newList][fd] # None THEN table[newList][fd] ELSE table[oldList][fd]

-----------------------------------------------------------------------------
(* CloseConnection, for each connection of S: off epoll, socket closed,    *)
(* out of the list its _idHashTable names, back on the free list.          *)

\* Mutant: removes from the new list whatever _idHashTable says.
RemoveFromTables_NewList(S) ==
    [table EXCEPT ![newList] =
       [fd \in Fds |-> IF \E o \in S : sock[o] = fd THEN None ELSE @[fd]]]

RemoveFromTables(S) ==
    [i \in {1, 2} |-> [fd \in Fds |->
       IF \E o \in S : sock[o] = fd /\ idHashTable[o] = i
       THEN None ELSE table[i][fd]]]

\* Mutant: the object is not given back.
ReleaseConnection_Forgotten(S) == free

ReleaseConnection(S) == free \cup S

CloseConnections(S) ==
    LET fds == {sock[o] : o \in S} IN
    /\ interest' = [fd \in Fds |-> IF fd \in fds THEN "none" ELSE interest[fd]]
    /\ open' = open \ fds
    /\ inq'  = [fd \in Fds |-> IF fd \in fds THEN 0 ELSE inq[fd]]
    /\ room' = [fd \in Fds |-> IF fd \in fds THEN MaxRoom ELSE room[fd]]
    /\ peer' = [fd \in Fds |-> IF fd \in fds THEN "open" ELSE peer[fd]]
    /\ table' = RemoveFromTables(S)
    /\ sock' = [o \in Conns |-> IF o \in S THEN None ELSE sock[o]]
    /\ free' = ReleaseConnection(S)

CloseConnection(o) == CloseConnections({o})

\* Reset: what is left of the object when it may be initialised again.
Reset ==
    /\ mpc' = "uninit" /\ fNeedToExit' = FALSE /\ pipeFull' = FALSE
    /\ fListenSocketsOnEpoll' = FALSE /\ listenReg' = {} /\ events' = {}
    /\ backlog' = [l \in Listeners |-> 0]
    /\ pool' = pool \ free /\ free' = {}
    /\ table' = [i \in {1, 2} |-> [fd \in Fds |-> None]]
    /\ newList' = 1 /\ sinceSweep' = 0
    /\ pc' = "none" /\ cur' = None

-----------------------------------------------------------------------------
(* The main thread.                                                        *)

Init ==
    /\ mpc = "uninit" /\ fNeedToExit = FALSE /\ pipeFull = FALSE
    /\ pc = "none" /\ cur = None
    /\ newList = 1 /\ table = [i \in {1, 2} |-> [fd \in Fds |-> None]]
    /\ pool = {} /\ free = {}
    /\ sock = [o \in Conns |-> None]
    /\ cstate = [o \in Conns |-> "Receiving"]
    /\ reader = [o \in Conns |-> "HeaderNotRead"]
    /\ rx = [o \in Conns |-> 0] /\ msgLen = [o \in Conns |-> 0]
    /\ tx = [o \in Conns |-> 0]
    /\ idHashTable = [o \in Conns |-> 0]
    /\ age = [o \in Conns |-> 0]
    /\ fListenSocketsOnEpoll = FALSE /\ listenReg = {}
    /\ interest = [fd \in Fds |-> "none"] /\ events = {}
    /\ backlog = [l \in Listeners |-> 0]
    /\ open = {} /\ inq = [fd \in Fds |-> 0]
    /\ room = [fd \in Fds |-> MaxRoom] /\ peer = [fd \in Fds |-> "open"]
    /\ sinceSweep = 0

\* CTCPStunThread::Init.  A failing step resets the object: no change here.
ThreadInit ==
    /\ mpc = "uninit"
    /\ mpc' = "inited"
    /\ listenReg' = Listeners /\ fListenSocketsOnEpoll' = TRUE
    /\ UNCHANGED <<fNeedToExit, pipeFull, threadVars, listVars, poolVars,
                   connVars, sockVars, events, backlog, sinceSweep>>

Start ==
    /\ mpc = "inited"
    /\ mpc' = "running" /\ fNeedToExit' = FALSE
    /\ pc' = "start"
    /\ UNCHANGED <<pipeFull, cur, listVars, poolVars, connVars,
                   listenVars, sockVars, events, backlog, sinceSweep>>

StopSetFlag ==
    /\ mpc = "running"
    /\ mpc' = "stopping" /\ fNeedToExit' = TRUE
    /\ UNCHANGED <<pipeFull, threadVars, listVars, poolVars, connVars,
                   listenVars, sockVars, events, backlog, sinceSweep>>

NotifyThreadViaPipe ==
    /\ mpc = "stopping"
    /\ mpc' = "joining" /\ pipeFull' = TRUE
    /\ UNCHANGED <<fNeedToExit, threadVars, listVars, poolVars, connVars,
                   listenVars, sockVars, events, backlog, sinceSweep>>

\* The rest of Stop: pthread_join if a thread was started, then Reset.
StopReset ==
    /\ mpc = "inited" \/ (mpc = "joining" /\ pc = "done")
    /\ Reset
    /\ UNCHANGED <<idHashTable, age, connVars, sockVars>>

MainNext == ThreadInit \/ Start \/ StopSetFlag \/ NotifyThreadViaPipe \/ StopReset

-----------------------------------------------------------------------------
(* The server thread: one pass of Run's loop is LoopTop, WaitForNextEvent, *)
(* at most one accept, any number of receives and sends on one connection, *)
(* and SweepDeadConnections.                                               *)

RunStart ==
    /\ pc = "start"
    /\ pc' = "top" /\ sinceSweep' = 0
    /\ UNCHANGED <<mainVars, cur, listVars, poolVars, connVars,
                   listenVars, sockVars, events, backlog>>

\* Run's loop condition.
LoopExit ==
    /\ pc = "top" /\ fNeedToExit
    /\ pc' = "cleanup"
    /\ UNCHANGED <<mainVars, cur, listVars, poolVars, connVars,
                   listenVars, sockVars, events, backlog, sinceSweep>>

\* SetListenSocketsOnEpoll: epoll_ctl refuses to add a socket it has or to
\* remove one it has not; the first refusal leaves the loop, and the flag.
SetListenSocketsOnEpoll(fEnable) ==
    LET refused(l) == (l \in listenReg) = fEnable
        apply(S)   == IF fEnable THEN listenReg \cup S ELSE listenReg \ S
    IN
    \/ /\ fEnable = fListenSocketsOnEpoll
       /\ UNCHANGED listenVars
    \/ /\ fEnable # fListenSocketsOnEpoll
       /\ \A l \in Listeners : ~refused(l)
       /\ listenReg' = apply(Listeners)
       /\ fListenSocketsOnEpoll' = fEnable
    \/ /\ fEnable # fListenSocketsOnEpoll
       /\ \E l \in Listeners :
            /\ refused(l) \/ PollFaults
            /\ \A k \in Listeners : k < l => ~refused(k)
            /\ listenReg' = apply({k \in Listeners : k < l})
       /\ UNCHANGED fListenSocketsOnEpoll

LoopTop ==
    /\ pc = "top" /\ ~fNeedToExit
    /\ SetListenSocketsOnEpoll(~IsConnectionCountAtMax)
    /\ pc' = "wait" /\ cur' = None
    /\ UNCHANGED <<mainVars, listVars, poolVars, connVars, sockVars, events,
                   backlog, sinceSweep>>

\* Mutant: the pipe was never added to the epoll set.
PipeEvents_NotAdded == {}

PipeEvents == IF pipeFull THEN {Pipe} ELSE {}

\* What epoll_wait reports, level triggered.
Ready ==
    {l \in listenReg : backlog[l] > 0}
      \cup {fd \in open : \/ interest[fd] = "read" /\ (inq[fd] > 0 \/ peer[fd] # "open")
                          \/ interest[fd] = "write" /\ room[fd] > 0
                          \/ interest[fd] # "none" /\ peer[fd] = "reset"}
      \cup PipeEvents

\* CEpoll::WaitForNextEvent: an undelivered event of the last epoll_wait, or
\* those of a new one.  They are delivered in the kernel's order: any order.
NextEvents == IF events # {} THEN events ELSE Ready

\* Mutant: the connection's state is not looked at.
HandlerFor_AlwaysRead(o) == "recv"

HandlerFor(o) == IF cstate[o] = "Receiving" THEN "recv" ELSE "send"

\* An event is dispatched without looking at its flags.
WaitForNextEvent(e) ==
    /\ pc = "wait" /\ e \in NextEvents
    /\ events' = NextEvents \ {e}
    /\ \/ /\ fNeedToExit \/ e = Pipe
          /\ pc' = "cleanup" /\ UNCHANGED cur
       \/ /\ ~fNeedToExit /\ e \in Listeners
          /\ pc' = "accept" /\ cur' = e
       \/ /\ ~fNeedToExit /\ e \in Fds
          /\ LET o == LookupConnection(e) IN
             \/ o = None /\ pc' = "sweep" /\ UNCHANGED cur
             \/ /\ o # None /\ cur' = o
                /\ pc' = HandlerFor(o)
    /\ UNCHANGED <<mainVars, listVars, poolVars, connVars, listenVars,
                   sockVars, backlog, sinceSweep>>

\* The wait ends with no event.
WaitTimeout ==
    /\ pc = "wait" /\ NextEvents = {} /\ WaitIsBounded
    /\ pc' = IF fNeedToExit THEN "cleanup" ELSE "sweep"
    /\ UNCHANGED <<mainVars, cur, listVars, poolVars, connVars,
                   listenVars, sockVars, events, backlog, sinceSweep>>

-----------------------------------------------------------------------------
(* AcceptConnection, with CConnectionPool::GetConnection and Grow.         *)

\* Grow: c_growrate new objects, or as many as the heap still holds.
Grow ==
    LET heap == Conns \ pool IN
    IF Cardinality(heap) <= GrowRate THEN {heap}
    ELSE {S \in SUBSET heap : Cardinality(S) = GrowRate}

\* The batches GetConnection may add to the free list before it takes from it.
GrowIfEmpty == IF free # {} THEN {{}} ELSE Grow

\* Mutant: _txCount is not reset.
PrepareForRequest_KeepsTx(o) ==
    /\ cstate' = [cstate EXCEPT ![o] = "Receiving"]
    /\ reader' = [reader EXCEPT ![o] = "HeaderNotRead"]
    /\ rx' = [rx EXCEPT ![o] = 0]
    /\ msgLen' = [msgLen EXCEPT ![o] = 0]
    /\ tx' = tx

\* GetConnection's preparation of the object, and ResetConnection's.
PrepareForRequest(o) ==
    /\ cstate' = [cstate EXCEPT ![o] = "Receiving"]
    /\ reader' = [reader EXCEPT ![o] = "HeaderNotRead"]
    /\ rx' = [rx EXCEPT ![o] = 0]
    /\ msgLen' = [msgLen EXCEPT ![o] = 0]
    /\ tx' = [tx EXCEPT ![o] = 0]

\* accept itself fails: the client gave up, or no descriptor is left.
AcceptFails ==
    /\ pc = "accept"
    /\ backlog[cur] = 0 \/ Fds \ open = {}
    /\ pc' = "sweep"
    /\ UNCHANGED <<mainVars, cur, listVars, poolVars, connVars,
                   listenVars, sockVars, events, backlog, sinceSweep>>

\* Mutant: accept's result is not checked.
TakeFromBacklog_Unchecked ==
    /\ pc = "accept" /\ Fds \ open # {}
    /\ backlog' = [backlog EXCEPT ![cur] = @ - 1]

TakeFromBacklog ==
    /\ pc = "accept" /\ backlog[cur] > 0 /\ Fds \ open # {}
    /\ backlog' = [backlog EXCEPT ![cur] = @ - 1]

\* The rate limiter refuses the address, or the pool has nothing to give:
\* the accepted socket is closed again at once.
AcceptRefused ==
    /\ TakeFromBacklog
    /\ pc' = "sweep"
    /\ UNCHANGED <<mainVars, cur, listVars, poolVars, connVars,
                   listenVars, sockVars, events, sinceSweep>>

\* GetConnection took o for the new socket fd.
GetConnection(o, fd) ==
    /\ fd \in Fds \ open
    /\ \E G \in GrowIfEmpty :
         /\ o \in free \cup G
         /\ pool' = pool \cup G
         /\ free' = (free \cup G) \ {o}
    /\ PrepareForRequest(o)
    /\ age' = [age EXCEPT ![o] = 0]

\* fcntl, epoll_ctl or the hash table refuses: CloseConnection undoes the
\* accept.  The object is back on the free list with no socket.
AcceptUndone ==
    /\ TakeFromBacklog
    /\ \E G \in GrowIfEmpty : \E o \in free \cup G :
         /\ pool' = pool \cup G
         /\ free' = free \cup G
         /\ PrepareForRequest(o)
         /\ age' = [age EXCEPT ![o] = 0]
         /\ \/ /\ PollFaults
               /\ idHashTable' = [idHashTable EXCEPT ![o] = 0]
            \/ /\ Size(newList) >= MaxConnections
               /\ idHashTable' = [idHashTable EXCEPT ![o] = newList]
    /\ pc' = "sweep"
    /\ UNCHANGED <<mainVars, cur, listVars, sock, listenVars, sockVars,
                   events, sinceSweep>>

\* The connection is tracked; Run goes on to receive from it.
AcceptConnection ==
    /\ TakeFromBacklog
    /\ Size(newList) < MaxConnections
    /\ \E fd \in Fds \ open, o \in Conns :
         /\ GetConnection(o, fd)
         /\ sock' = [sock EXCEPT ![o] = fd]
         /\ idHashTable' = [idHashTable EXCEPT ![o] = newList]
         /\ table' = [table EXCEPT ![newList][fd] = o]
         /\ open' = open \cup {fd}
         /\ interest' = [interest EXCEPT ![fd] = "read"]
         /\ inq' = [inq EXCEPT ![fd] = 0]
         /\ room' = [room EXCEPT ![fd] = MaxRoom]
         /\ peer' = [peer EXCEPT ![fd] = "open"]
         /\ cur' = o
    /\ pc' = "recv"
    /\ UNCHANGED <<mainVars, newList, listenVars, events, sinceSweep>>

-----------------------------------------------------------------------------
(* ReceiveBytesForConnection: one action per recv on the connection cur.   *)

HowManyBytesNeeded(o) ==
    (IF reader[o] = "HeaderNotRead" THEN HeaderSize ELSE HeaderSize + msgLen[o])
      - rx[o]

\* What CStunMessageReader::AddBytes may make of a stream of size n: the new
\* state and the message length, the content of the bytes being arbitrary.
AddBytes(o, n) ==
    CASE reader[o] = "HeaderNotRead" /\ n < HeaderSize ->
           {<<"HeaderNotRead", msgLen[o]>>}
      [] reader[o] = "HeaderNotRead" /\ n >= HeaderSize ->
           {<<IF m = 0 THEN "BodyValidated" ELSE "HeaderValidated", m>> : m \in MsgLengths}
             \cup {<<"ParseError", msgLen[o]>>}
      [] reader[o] = "HeaderValidated" /\ n < HeaderSize + msgLen[o] ->
           {<<"HeaderValidated", msgLen[o]>>}
      [] OTHER -> {"BodyValidated", "ParseError"} \X {msgLen[o]}

\* Mutant: the call is missing.
ChangeEventSet_Missing(o, set) == interest

\* CEpoll::ChangeEventSet on the socket of o.
ChangeEventSet(o, set) == [interest EXCEPT ![sock[o]] = set]

\* EAGAIN: nothing more to read for now.
RecvWouldBlock ==
    /\ pc = "recv" /\ inq[sock[cur]] = 0 /\ peer[sock[cur]] = "open"
    /\ pc' = "sweep"
    /\ UNCHANGED <<mainVars, cur, listVars, poolVars, connVars,
                   listenVars, sockVars, events, backlog, sinceSweep>>

\* End of stream, or an error: the connection is dead.
RecvDead ==
    /\ pc = "recv"
    /\ \/ peer[sock[cur]] = "shut" /\ inq[sock[cur]] = 0
       \/ peer[sock[cur]] = "reset"
    /\ CloseConnection(cur)
    /\ pc' = "sweep"
    /\ UNCHANGED <<mainVars, cur, newList, pool, idHashTable, age,
                   cstate, reader, rx, msgLen, tx, listenVars, events, backlog,
                   sinceSweep>>

\* recv returns n bytes and AddBytes leaves the reader in state s.
RecvBytes(n, s, m) ==
    LET o == cur IN
    /\ pc = "recv"
    /\ n \in 1..HowManyBytesNeeded(o) /\ n <= inq[sock[o]]
    /\ <<s, m>> \in AddBytes(o, rx[o] + n)
    /\ rx' = [rx EXCEPT ![o] = @ + n]
    /\ reader' = [reader EXCEPT ![o] = s]
    /\ msgLen' = [msgLen EXCEPT ![o] = m]

\* The message is still incomplete: the loop tries to read more.
RecvMore ==
    \E n \in 1..MaxIn, s \in {"HeaderNotRead", "HeaderValidated"},
       m \in MsgLengths \cup {0} :
      /\ RecvBytes(n, s, m)
      /\ inq' = [inq EXCEPT ![sock[cur]] = @ - n]
      /\ UNCHANGED <<mainVars, pc, cur, listVars, poolVars, sock, cstate, tx,
                     listenVars, open, room, peer, interest, events, backlog,
                     sinceSweep>>

\* A parse error, or a whole request that the rate limiter or the request
\* handler refuses, or whose event set cannot be changed: closed.
RecvRejected ==
    \E n \in 1..MaxIn, s \in {"BodyValidated", "ParseError"},
       m \in MsgLengths \cup {0} :
      /\ RecvBytes(n, s, m)
      /\ CloseConnection(cur)
      /\ \/ UNCHANGED cstate
         \/ /\ s = "BodyValidated" /\ PollFaults
            /\ cstate' = [cstate EXCEPT ![cur] = "Transmitting"]
      /\ pc' = "sweep"
      /\ UNCHANGED <<mainVars, cur, newList, pool, idHashTable, age, tx,
                     listenVars, events, backlog, sinceSweep>>

\* ProcessRequest built a response: on to WriteBytesForConnection.
RecvRequest ==
    \E n \in 1..MaxIn, m \in MsgLengths \cup {0} :
      /\ RecvBytes(n, "BodyValidated", m)
      /\ inq' = [inq EXCEPT ![sock[cur]] = @ - n]
      /\ cstate' = [cstate EXCEPT ![cur] = "Transmitting"]
      /\ interest' = ChangeEventSet(cur, "write")
      /\ pc' = "send"
      /\ UNCHANGED <<mainVars, cur, listVars, poolVars, sock, tx, listenVars,
                     open, room, peer, events, backlog, sinceSweep>>

-----------------------------------------------------------------------------
(* WriteBytesForConnection: one action per send on the connection cur.     *)

SendWouldBlock ==
    /\ pc = "send" /\ room[sock[cur]] = 0 /\ peer[sock[cur]] # "reset"
    /\ pc' = "sweep"
    /\ UNCHANGED <<mainVars, cur, listVars, poolVars, connVars,
                   listenVars, sockVars, events, backlog, sinceSweep>>

SendDead ==
    /\ pc = "send" /\ peer[sock[cur]] = "reset"
    /\ CloseConnection(cur)
    /\ pc' = "sweep"
    /\ UNCHANGED <<mainVars, cur, newList, pool, idHashTable, age,
                   cstate, reader, rx, msgLen, tx, listenVars, events, backlog,
                   sinceSweep>>

SendBytes(n) ==
    /\ pc = "send" /\ peer[sock[cur]] # "reset"
    /\ n \in 1..(RespSize - tx[cur]) /\ n <= room[sock[cur]]

\* Part of the response went out: the loop tries to send the rest.
SendMore ==
    \E n \in 1..MaxRoom :
      /\ SendBytes(n) /\ tx[cur] + n < RespSize
      /\ tx' = [tx EXCEPT ![cur] = @ + n]
      /\ room' = [room EXCEPT ![sock[cur]] = @ - n]
      /\ UNCHANGED <<mainVars, threadVars, listVars, poolVars, sock, cstate,
                     reader, rx, msgLen, listenVars, open, inq, peer, interest,
                     events, backlog, sinceSweep>>

\* The response is out: back to receiving.
SendDone ==
    \E n \in 1..MaxRoom :
      /\ SendBytes(n) /\ tx[cur] + n >= RespSize
      /\ PrepareForRequest(cur)
      /\ interest' = ChangeEventSet(cur, "read")
      /\ room' = [room EXCEPT ![sock[cur]] = @ - n]
      /\ pc' = "sweep"
      /\ UNCHANGED <<mainVars, cur, listVars, poolVars, sock,
                     listenVars, open, inq, peer, events, backlog, sinceSweep>>

\* The response is out but the event set cannot be changed: closed.
SendDoneFault ==
    \E n \in 1..MaxRoom :
      /\ PollFaults
      /\ SendBytes(n) /\ tx[cur] + n >= RespSize
      /\ PrepareForRequest(cur)
      /\ CloseConnection(cur)
      /\ pc' = "sweep"
      /\ UNCHANGED <<mainVars, cur, newList, pool, idHashTable, age,
                     listenVars, events, backlog, sinceSweep>>

-----------------------------------------------------------------------------
(* The end of a pass, and of the thread.                                   *)

\* Mutant: every pass sweeps.
SweepIsDue_Always == TRUE

SweepIsDue == sinceSweep >= SweepTimeout

SweepNotDue ==
    /\ pc = "sweep" /\ ~SweepIsDue
    /\ pc' = "top"
    /\ UNCHANGED <<mainVars, cur, listVars, poolVars, connVars,
                   listenVars, sockVars, events, backlog, sinceSweep>>

SweepDeadConnections ==
    /\ pc = "sweep" /\ SweepIsDue
    /\ CloseConnections(ConnsIn(oldList))
    /\ newList' = oldList
    /\ sinceSweep' = 0
    /\ pc' = "top"
    /\ UNCHANGED <<mainVars, cur, pool, idHashTable, age, cstate,
                   reader, rx, msgLen, tx, listenVars, events, backlog>>

\* Mutant: only the new list is closed.
ConnectionsToCleanUp_NewOnly == ConnsIn(newList)

ConnectionsToCleanUp == ConnsIn(oldList) \cup ConnsIn(newList)

ThreadCleanup ==
    /\ pc = "cleanup"
    /\ CloseConnections(ConnectionsToCleanUp)
    /\ pc' = "done"
    /\ UNCHANGED <<mainVars, cur, newList, pool, idHashTable, age,
                   cstate, reader, rx, msgLen, tx, listenVars, events, backlog,
                   sinceSweep>>

ThreadNext ==
    \/ RunStart \/ LoopExit \/ LoopTop
    \/ \E e \in Listeners \cup Fds \cup {Pipe} : WaitForNextEvent(e)
    \/ WaitTimeout
    \/ AcceptFails \/ AcceptRefused \/ AcceptUndone \/ AcceptConnection
    \/ RecvWouldBlock \/ RecvDead \/ RecvMore \/ RecvRejected \/ RecvRequest
    \/ SendWouldBlock \/ SendDead \/ SendMore \/ SendDone \/ SendDoneFault
    \/ SweepNotDue \/ SweepDeadConnections \/ ThreadCleanup

-----------------------------------------------------------------------------
(* The kernel, the clients and the clock.                                  *)

EnvUnchanged == UNCHANGED <<mainVars, threadVars, listVars, pool, free,
                            idHashTable, connVars, listenVars, open, interest,
                            events>>

Connect(l) ==
    /\ mpc # "uninit" /\ backlog[l] < MaxBacklog
    /\ backlog' = [backlog EXCEPT ![l] = @ + 1]
    /\ EnvUnchanged /\ UNCHANGED <<age, inq, room, peer, sinceSweep>>

\* A client gives up before it was accepted.
Abandon(l) ==
    /\ backlog[l] > 0
    /\ backlog' = [backlog EXCEPT ![l] = @ - 1]
    /\ EnvUnchanged /\ UNCHANGED <<age, inq, room, peer, sinceSweep>>

PeerSend(fd) ==
    /\ fd \in open /\ peer[fd] = "open" /\ inq[fd] < MaxIn
    /\ inq' = [inq EXCEPT ![fd] = @ + 1]
    /\ EnvUnchanged /\ UNCHANGED <<age, room, peer, backlog, sinceSweep>>

PeerRead(fd) ==
    /\ fd \in open /\ peer[fd] # "reset" /\ room[fd] < MaxRoom
    /\ room' = [room EXCEPT ![fd] = MaxRoom]
    /\ EnvUnchanged /\ UNCHANGED <<age, inq, peer, backlog, sinceSweep>>

PeerShut(fd) ==
    /\ fd \in open /\ peer[fd] = "open"
    /\ peer' = [peer EXCEPT ![fd] = "shut"]
    /\ EnvUnchanged /\ UNCHANGED <<age, inq, room, backlog, sinceSweep>>

PeerReset(fd) ==
    /\ fd \in open /\ peer[fd] # "reset"
    /\ peer' = [peer EXCEPT ![fd] = "reset"]
    /\ EnvUnchanged /\ UNCHANGED <<age, inq, room, backlog, sinceSweep>>

\* One tick of time(NULL).  Nothing distinguishes ages beyond SweepTimeout.
Tick ==
    /\ sinceSweep < SweepTimeout \/ \E o \in Conns : age[o] < SweepTimeout
    /\ sinceSweep' = IF sinceSweep < SweepTimeout THEN sinceSweep + 1 ELSE sinceSweep
    /\ age' = [o \in Conns |-> IF age[o] < SweepTimeout THEN age[o] + 1 ELSE age[o]]
    /\ EnvUnchanged /\ UNCHANGED <<inq, room, peer, backlog>>

EnvNext ==
    \/ \E l \in Listeners : Connect(l) \/ Abandon(l)
    \/ \E fd \in Fds : PeerSend(fd) \/ PeerRead(fd) \/ PeerShut(fd) \/ PeerReset(fd)
    \/ Tick

Next == MainNext \/ ThreadNext \/ EnvNext

Spec == Init /\ [][Next]_vars

\* The scheduler runs the server thread and, once Stop has been called, the
\* main thread; the clock advances.  Clients owe nothing.
Fairness ==
    /\ WF_vars(ThreadNext)
    /\ WF_vars(NotifyThreadViaPipe)
    /\ WF_vars(mpc = "joining" /\ StopReset)
    /\ WF_vars(Tick)

FairSpec == Spec /\ Fairness

-----------------------------------------------------------------------------
(* Properties.                                                             *)

MainStates   == {"uninit", "inited", "running", "stopping", "joining"}
ThreadStates == {"none", "start", "top", "wait", "accept", "recv", "send",
                 "sweep", "cleanup", "done"}

\* Every variable stays in its type: descriptors, counters within the bounds
\* of the kernel's queues, and the subject of the thread's next step.
TypeOK ==
    /\ mpc \in MainStates /\ fNeedToExit \in BOOLEAN /\ pipeFull \in BOOLEAN
    /\ pc \in ThreadStates
    /\ cur \in Conns \cup Listeners \cup {None}
    /\ pc = "accept" => cur \in Listeners
    /\ pc \in {"recv", "send"} => cur \in Conns
    /\ newList \in {1, 2}
    /\ table \in [{1, 2} -> [Fds -> Conns \cup {None}]]
    /\ pool \subseteq Conns /\ free \subseteq Conns
    /\ sock \in [Conns -> Fds \cup {None}]
    /\ cstate \in [Conns -> {"Receiving", "Transmitting"}]
    /\ reader \in [Conns -> ReaderStates]
    /\ rx \in [Conns -> Nat] /\ msgLen \in [Conns -> Nat] /\ tx \in [Conns -> Nat]
    /\ idHashTable \in [Conns -> {0, 1, 2}]
    /\ age \in [Conns -> 0..SweepTimeout]
    /\ fListenSocketsOnEpoll \in BOOLEAN /\ listenReg \subseteq Listeners
    /\ interest \in [Fds -> {"none", "read", "write"}]
    /\ events \subseteq Listeners \cup Fds \cup {Pipe}
    /\ backlog \in [Listeners -> 0..MaxBacklog]
    /\ open \subseteq Fds
    /\ inq \in [Fds -> 0..MaxIn] /\ room \in [Fds -> 0..MaxRoom]
    /\ peer \in [Fds -> {"open", "shut", "reset"}]
    /\ sinceSweep \in 0..SweepTimeout

\* The two hash tables and the connection objects agree: an entry leads to a
\* connection that has this socket and names this table, a connection with a
\* socket is found in the table it names, and no two connections have the
\* same socket.  CloseConnection relies on this when it removes an entry by
\* _idHashTable after any number of swaps of the lists.
TablesConsistent ==
    /\ \A i \in {1, 2}, fd \in Fds :
         table[i][fd] # None =>
           sock[table[i][fd]] = fd /\ idHashTable[table[i][fd]] = i
    /\ \A o \in Conns :
         sock[o] # None =>
           idHashTable[o] \in {1, 2} /\ table[idHashTable[o]][sock[o]] = o
    /\ \A o, p \in Conns : sock[o] # None /\ sock[o] = sock[p] => o = p

\* No path, error paths included, leaks a socket or an object: the open client
\* sockets are those of the pool's busy objects, and these are the objects
\* off the free list.
NoLeak ==
    /\ open = {sock[o] : o \in Conns} \ {None}
    /\ free \subseteq pool
    /\ \A o \in Conns : sock[o] # None <=> o \in pool \ free

\* A tracked connection waits for exactly the event that lets it go on: read
\* events while it receives, write events while it transmits.  Otherwise the
\* thread would never come back to it, or spin on it.
InterestMatchesState ==
    /\ \A o \in Conns : sock[o] # None =>
         interest[sock[o]] = IF cstate[o] = "Receiving" THEN "read" ELSE "write"
    /\ \A fd \in Fds \ open : interest[fd] = "none"

\* A tracked connection's progress fits its state: the assertions at the top
\* of the receive loop (state, reader state, bytes needed) and of the send
\* loop (state, bytes left) whenever one of them is entered.
ProgressFitsState ==
    \A o \in Conns : sock[o] # None =>
      \/ /\ cstate[o] = "Receiving" /\ tx[o] = 0
         /\ reader[o] \in {"HeaderNotRead", "HeaderValidated"}
         /\ HowManyBytesNeeded(o) > 0
      \/ /\ cstate[o] = "Transmitting" /\ tx[o] < RespSize
         /\ reader[o] = "BodyValidated"

\* The connection that a receive or a send works on is still tracked and in
\* the state that the loop asserts: no stale event and no earlier close in
\* the same pass hands the loop a connection that is gone.
SubjectIsLive ==
    /\ pc = "recv" => sock[cur] # None /\ cstate[cur] = "Receiving"
    /\ pc = "send" => sock[cur] # None /\ cstate[cur] = "Transmitting"

\* The limit on connections is soft, and this soft: the connections, together
\* with the accepts that events fetched before the limit was reached can still
\* cause, exceed it by at most the number of listening sockets minus one.
SoftConnectionLimit ==
    ~PollFaults =>
      Size(1) + Size(2) + Cardinality(events \cap Listeners)
          + (IF pc = "accept" THEN 1 ELSE 0)
        <= MaxConnections + Cardinality(Listeners) - 1

\* The assertion after Insert: an accepted connection finds room in the table.
InsertFindsRoom ==
    pc = "accept" /\ backlog[cur] > 0 /\ Fds \ open # {} =>
      Size(newList) < MaxConnections

\* Reset's assertions, and what it is called for: while the thread is not
\* running its loop no connection is tracked and no client socket is open, and
\* an object that is not started has deleted every pooled connection.
CleanShutdown ==
    /\ pc \in {"none", "start", "done"} => Tracked = {} /\ open = {}
    /\ mpc \in {"uninit", "inited"} => pc = "none" /\ pool = {}

\* A sweep closes only connections at least SweepTimeout old, whenever it
\* falls and however the lists were swapped before.
SweepSparesYoung ==
    [][pc = "sweep" => \A o \in Tracked : sock'[o] = None => age[o] >= SweepTimeout]_vars

\* No client can hold a connection for ever, whatever it sends or reads.
ConnectionsEnd ==
    \A o \in Conns : sock[o] # None ~> sock[o] = None

\* A queued connection attempt is taken up, also after the connection limit
\* has switched the listening sockets off, unless the client or Stop is faster.
BacklogServed ==
    \A l \in Listeners :
      backlog[l] > 0 /\ mpc = "running" ~>
        backlog[l] = 0 \/ mpc # "running" \/ (pc = "accept" /\ cur = l /\ Fds \ open # {})

\* Stop returns: the thread is woken from any wait, ends, and is joined.
StopCompletes == mpc = "stopping" ~> mpc = "uninit"
=============================================================================
