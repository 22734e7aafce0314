-------------------------- MODULE TcpThreadProofs --------------------------
(***************************************************************************)
(* Proofs about TcpThread for every set of listening sockets, descriptors  *)
(* and connection objects, every limit and every size.                     *)
(***************************************************************************)
EXTENDS TcpThread, FiniteSetTheorems, TLAPS

\* Every step of the main thread, the server thread, the clients and the
\* clock keeps the types.
LEMMA TypeInit == Init => TypeOK
  <1> SUFFICES ASSUME Init PROVE TypeOK
    OBVIOUS
  <1>1. fNeedToExit \in BOOLEAN /\ pipeFull \in BOOLEAN
        /\ fListenSocketsOnEpoll \in BOOLEAN
    BY Zenon DEF Init
  <1>2. table \in [{1, 2} -> [Fds -> Conns \cup {None}]]
    BY DEF Init
  <1>3. sock \in [Conns -> Fds \cup {None}] /\ cur \in Conns \cup Listeners \cup {None}
    BY DEF Init
  <1>4. QED
    BY <1>1, <1>2, <1>3, TcpAssumption
    DEF TcpAssumption, Init, TypeOK, MainStates, ThreadStates, ReaderStates

LEMMA TypeMain == TypeOK /\ MainNext => TypeOK'
  <1> SUFFICES ASSUME TypeOK, MainNext PROVE TypeOK'
    OBVIOUS
  <1> USE TcpAssumption DEF TcpAssumption, TypeOK, MainStates, ThreadStates
  <1>1. CASE ThreadInit
    BY <1>1 DEF ThreadInit, threadVars, listVars, poolVars, connVars, sockVars
  <1>2. CASE Start
    BY <1>2 DEF Start, listVars, poolVars, connVars, sockVars, listenVars
  <1>3. CASE StopSetFlag
    BY <1>3 DEF StopSetFlag, threadVars, listVars, poolVars, connVars, sockVars, listenVars
  <1>4. CASE NotifyThreadViaPipe
    BY <1>4 DEF NotifyThreadViaPipe, threadVars, listVars, poolVars, connVars, sockVars, listenVars
  <1>5. CASE StopReset
    <2>1. fNeedToExit' \in BOOLEAN /\ pipeFull' \in BOOLEAN
          /\ fListenSocketsOnEpoll' \in BOOLEAN
      BY <1>5, Zenon DEF StopReset, Reset
    <2>2. table' \in [{1, 2} -> [Fds -> Conns \cup {None}]]
      BY <1>5 DEF StopReset, Reset
    <2>3. QED
      BY <1>5, <2>1, <2>2 DEF StopReset, Reset, connVars, sockVars
  <1> QED
    BY <1>1, <1>2, <1>3, <1>4, <1>5 DEF MainNext

LEMMA TypeEnv == TypeOK /\ EnvNext => TypeOK'
  <1> SUFFICES ASSUME TypeOK, EnvNext PROVE TypeOK'
    OBVIOUS
  <1> USE TcpAssumption DEF TcpAssumption, TypeOK, EnvUnchanged, mainVars, threadVars, listVars, connVars, listenVars
  <1>1. ASSUME NEW l \in Listeners, Connect(l) PROVE TypeOK'
    BY <1>1 DEF Connect
  <1>2. ASSUME NEW l \in Listeners, Abandon(l) PROVE TypeOK'
    BY <1>2 DEF Abandon
  <1>3. ASSUME NEW fd \in Fds, PeerSend(fd) PROVE TypeOK'
    BY <1>3 DEF PeerSend
  <1>4. ASSUME NEW fd \in Fds, PeerRead(fd) PROVE TypeOK'
    BY <1>4 DEF PeerRead
  <1>5. ASSUME NEW fd \in Fds, PeerShut(fd) PROVE TypeOK'
    BY <1>5 DEF PeerShut
  <1>6. ASSUME NEW fd \in Fds, PeerReset(fd) PROVE TypeOK'
    BY <1>6 DEF PeerReset
  <1>7. CASE Tick
    BY <1>7 DEF Tick
  <1> QED
    BY <1>1, <1>2, <1>3, <1>4, <1>5, <1>6, <1>7 DEF EnvNext

\* Taking n from one counter of a bounded array keeps the bounds.
LEMMA TakeFrom ==
  ASSUME NEW D, NEW B \in Nat, NEW f \in [D -> 0..B], NEW x, NEW n \in Nat, n <= f[x]
  PROVE  [f EXCEPT ![x] = @ - n] \in [D -> 0..B]
  <1>1. \A d \in D : [f EXCEPT ![x] = @ - n][d] \in 0..B
    <2> SUFFICES ASSUME NEW d \in D PROVE [f EXCEPT ![x] = @ - n][d] \in 0..B
      OBVIOUS
    <2>1. CASE d = x
      <3>1. f[x] \in 0..B /\ [f EXCEPT ![x] = @ - n][d] = f[x] - n
        BY <2>1
      <3>2. QED
        BY <3>1
    <2>2. CASE d # x
      BY <2>2
    <2>3. QED
      BY <2>1, <2>2
  <1>2. QED
    BY <1>1

\* accept leaves the queues within their bounds.
LEMMA TakeFromBacklogType ==
  ASSUME TypeOK, TakeFromBacklog PROVE backlog' \in [Listeners -> 0..MaxBacklog]
  <1>1. /\ cur \in Listeners /\ backlog \in [Listeners -> 0..MaxBacklog]
        /\ backlog[cur] > 0 /\ backlog' = [backlog EXCEPT ![cur] = @ - 1]
    BY DEF TypeOK, TakeFromBacklog
  <1>2. backlog[cur] \in 0..MaxBacklog /\ MaxBacklog \in Nat
    BY <1>1, TcpAssumption DEF TcpAssumption
  <1>3. 1 <= backlog[cur]
    BY <1>1, <1>2
  <1>4. QED
    BY <1>1, <1>2, <1>3, TakeFrom

LEMMA ChangeTypes ==
  ASSUME TypeOK, NEW o, NEW set \in {"read", "write"}
  PROVE  ChangeEventSet(o, set) \in [Fds -> {"none", "read", "write"}]
  <1>1. [interest EXCEPT ![sock[o]] = set] \in [Fds -> {"none", "read", "write"}]
    BY DEF TypeOK
  <1>2. QED
    BY <1>1 DEF ChangeEventSet

LEMMA OldListType == newList \in {1, 2} => oldList \in {1, 2} /\ oldList # newList
  BY DEF oldList

\* Closing connections keeps the types, whatever the set closed.
LEMMA CloseTypes ==
  ASSUME TypeOK, NEW S \in SUBSET Conns, CloseConnections(S)
  PROVE  /\ interest' \in [Fds -> {"none", "read", "write"}]
         /\ open' \subseteq Fds
         /\ inq' \in [Fds -> 0..MaxIn] /\ room' \in [Fds -> 0..MaxRoom]
         /\ peer' \in [Fds -> {"open", "shut", "reset"}]
         /\ table' \in [{1, 2} -> [Fds -> Conns \cup {None}]]
         /\ sock' \in [Conns -> Fds \cup {None}]
         /\ free' \subseteq Conns
  <1> USE TcpAssumption DEF TcpAssumption
  <1>1. /\ interest' \in [Fds -> {"none", "read", "write"}]
        /\ inq' \in [Fds -> 0..MaxIn] /\ room' \in [Fds -> 0..MaxRoom]
        /\ peer' \in [Fds -> {"open", "shut", "reset"}]
    BY DEF TypeOK, CloseConnections
  <1>2. table' \in [{1, 2} -> [Fds -> Conns \cup {None}]]
    BY DEF TypeOK, CloseConnections, RemoveFromTables
  <1>3. QED
    BY <1>1, <1>2 DEF TypeOK, CloseConnections, ReleaseConnection

\* Preparing an object for a request keeps the types.
LEMMA PrepareTypes ==
  ASSUME TypeOK, NEW o \in Conns, PrepareForRequest(o)
  PROVE  /\ cstate' \in [Conns -> {"Receiving", "Transmitting"}]
         /\ reader' \in [Conns -> ReaderStates]
         /\ rx' \in [Conns -> Nat] /\ msgLen' \in [Conns -> Nat] /\ tx' \in [Conns -> Nat]
  BY DEF TypeOK, PrepareForRequest, ReaderStates

LEMMA TypeThread == TypeOK /\ ThreadNext => TypeOK'
  <1> SUFFICES ASSUME TypeOK, ThreadNext PROVE TypeOK'
    OBVIOUS
  <1> USE TcpAssumption DEF TcpAssumption, MainStates, ThreadStates
  <1>a. ASSUME NEW S \in SUBSET Conns, CloseConnections(S),
               UNCHANGED <<mainVars, cur, pool, idHashTable, age, listenVars,
                           events, backlog>>,
               pc' \in {"sweep", "top", "done"},
               newList' \in {1, 2}, sinceSweep' \in 0..SweepTimeout,
               /\ cstate' \in [Conns -> {"Receiving", "Transmitting"}]
               /\ reader' \in [Conns -> ReaderStates]
               /\ rx' \in [Conns -> Nat] /\ msgLen' \in [Conns -> Nat]
               /\ tx' \in [Conns -> Nat]
        PROVE  TypeOK'
    <2>1. /\ interest' \in [Fds -> {"none", "read", "write"}]
          /\ open' \subseteq Fds
          /\ inq' \in [Fds -> 0..MaxIn] /\ room' \in [Fds -> 0..MaxRoom]
          /\ peer' \in [Fds -> {"open", "shut", "reset"}]
          /\ table' \in [{1, 2} -> [Fds -> Conns \cup {None}]]
          /\ sock' \in [Conns -> Fds \cup {None}]
          /\ free' \subseteq Conns
      BY <1>a, CloseTypes
    <2>2. QED
      BY <1>a, <2>1 DEF TypeOK, mainVars, listenVars
  <1>1. CASE RunStart
    BY <1>1 DEF RunStart, TypeOK, mainVars, listVars, poolVars, connVars, listenVars, sockVars
  <1>2. CASE LoopExit
    BY <1>2 DEF LoopExit, TypeOK, mainVars, listVars, poolVars, connVars, listenVars, sockVars
  <1>3. CASE LoopTop
    <2>1. listenReg' \subseteq Listeners
      <3>1. listenReg \subseteq Listeners
        BY DEF TypeOK
      <3>2. PICK S \in SUBSET Listeners :
              listenReg' \in {listenReg, listenReg \cup S, listenReg \ S}
        BY <1>3, <3>1 DEF LoopTop, SetListenSocketsOnEpoll, listenVars
      <3>3. QED
        BY <3>1, <3>2
    <2>2. fListenSocketsOnEpoll' \in BOOLEAN
      BY <1>3, Zenon DEF LoopTop, SetListenSocketsOnEpoll, TypeOK, listenVars, IsConnectionCountAtMax
    <2>3. QED
      BY <1>3, <2>1, <2>2 DEF LoopTop, TypeOK, mainVars, listVars, poolVars, connVars, sockVars
  <1>4. ASSUME NEW e \in Listeners \cup Fds \cup {Pipe}, WaitForNextEvent(e) PROVE TypeOK'
    <2>1. events' \subseteq Listeners \cup Fds \cup {Pipe}
      BY <1>4 DEF WaitForNextEvent, NextEvents, Ready, PipeEvents, TypeOK
    <2>2. /\ cur' \in Conns \cup Listeners \cup {None} /\ pc' \in ThreadStates
          /\ pc' = "accept" => cur' \in Listeners
          /\ pc' \in {"recv", "send"} => cur' \in Conns
      BY <1>4, OldListType DEF WaitForNextEvent, LookupConnection, HandlerFor, TypeOK
    <2>3. QED
      BY <1>4, <2>1, <2>2 DEF WaitForNextEvent, TypeOK, mainVars, listVars, poolVars,
         connVars, listenVars, sockVars
  <1>5. CASE WaitTimeout
    BY <1>5 DEF WaitTimeout, TypeOK, mainVars, listVars, poolVars, connVars, listenVars, sockVars
  <1>6. CASE AcceptFails
    BY <1>6 DEF AcceptFails, TypeOK, mainVars, listVars, poolVars, connVars, listenVars, sockVars
  <1>7. CASE AcceptRefused
    <2>1. backlog' \in [Listeners -> 0..MaxBacklog]
      BY <1>7, TakeFromBacklogType DEF AcceptRefused
    <2>2. QED
      BY <1>7, <2>1 DEF AcceptRefused, TypeOK, mainVars, listVars, poolVars, connVars,
         listenVars, sockVars
  <1>8. CASE AcceptUndone
    <2>1. PICK G \in GrowIfEmpty : \E o \in free \cup G :
         /\ pool' = pool \cup G
         /\ free' = free \cup G
         /\ PrepareForRequest(o)
         /\ age' = [age EXCEPT ![o] = 0]
         /\ \/ idHashTable' = [idHashTable EXCEPT ![o] = 0]
            \/ idHashTable' = [idHashTable EXCEPT ![o] = newList]
      BY <1>8 DEF AcceptUndone
    <2>2. G \subseteq Conns
      BY DEF GrowIfEmpty, Grow
    <2>3. PICK o \in Conns :
         /\ PrepareForRequest(o)
         /\ age' = [age EXCEPT ![o] = 0]
         /\ \/ idHashTable' = [idHashTable EXCEPT ![o] = 0]
            \/ idHashTable' = [idHashTable EXCEPT ![o] = newList]
      BY <2>1, <2>2 DEF TypeOK
    <2>4. pool' \subseteq Conns /\ free' \subseteq Conns
      BY <2>1, <2>2 DEF TypeOK
    <2>5. age' \in [Conns -> 0..SweepTimeout] /\ idHashTable' \in [Conns -> {0, 1, 2}]
      BY <2>3 DEF TypeOK
    <2>6. /\ cstate' \in [Conns -> {"Receiving", "Transmitting"}]
          /\ reader' \in [Conns -> ReaderStates]
          /\ rx' \in [Conns -> Nat] /\ msgLen' \in [Conns -> Nat] /\ tx' \in [Conns -> Nat]
      BY <2>3, PrepareTypes
    <2>7. backlog' \in [Listeners -> 0..MaxBacklog]
      BY <1>8, TakeFromBacklogType DEF AcceptUndone
    <2>8. QED
      BY <1>8, <2>4, <2>5, <2>6, <2>7 DEF AcceptUndone, TypeOK, mainVars, listVars, listenVars, sockVars
  <1>9. CASE AcceptConnection
    <2>1. PICK fd \in Fds, o \in Conns :
         /\ GetConnection(o, fd)
         /\ sock' = [sock EXCEPT ![o] = fd]
         /\ idHashTable' = [idHashTable EXCEPT ![o] = newList]
         /\ table' = [table EXCEPT ![newList][fd] = o]
         /\ open' = open \cup {fd}
         /\ interest' = [interest EXCEPT ![fd] = "read"]
         /\ inq' = [inq EXCEPT ![fd] = 0]
         /\ room' = [room EXCEPT ![fd] = MaxRoom]
         /\ peer' = [peer EXCEPT ![fd] = "open"]
         /\ cur' = o
      BY <1>9 DEF AcceptConnection
    <2>2. pool' \subseteq Conns /\ free' \subseteq Conns
      BY <2>1 DEF GetConnection, GrowIfEmpty, Grow, TypeOK
    <2>3. age' \in [Conns -> 0..SweepTimeout] /\ idHashTable' \in [Conns -> {0, 1, 2}]
          /\ table' \in [{1, 2} -> [Fds -> Conns \cup {None}]]
          /\ sock' \in [Conns -> Fds \cup {None}]
      BY <2>1 DEF GetConnection, TypeOK
    <2>4. /\ interest' \in [Fds -> {"none", "read", "write"}]
          /\ open' \subseteq Fds
          /\ inq' \in [Fds -> 0..MaxIn] /\ room' \in [Fds -> 0..MaxRoom]
          /\ peer' \in [Fds -> {"open", "shut", "reset"}]
      BY <2>1 DEF TypeOK
    <2>5. /\ cstate' \in [Conns -> {"Receiving", "Transmitting"}]
          /\ reader' \in [Conns -> ReaderStates]
          /\ rx' \in [Conns -> Nat] /\ msgLen' \in [Conns -> Nat] /\ tx' \in [Conns -> Nat]
      BY <2>1, PrepareTypes DEF GetConnection
    <2>6. backlog' \in [Listeners -> 0..MaxBacklog]
      BY <1>9, TakeFromBacklogType DEF AcceptConnection
    <2>7. QED
      BY <1>9, <2>1, <2>2, <2>3, <2>4, <2>5, <2>6 DEF AcceptConnection, TypeOK, mainVars, listenVars
  <1>10. CASE RecvWouldBlock
    BY <1>10 DEF RecvWouldBlock, TypeOK, mainVars, listVars, poolVars, connVars, listenVars, sockVars
  <1>11. CASE RecvDead
    <2>1. {cur} \in SUBSET Conns /\ CloseConnections({cur})
      BY <1>11 DEF RecvDead, CloseConnection, TypeOK
    <2>2. QED
      BY <1>11, <2>1, <1>a DEF RecvDead, TypeOK
  <1>12. CASE RecvMore
    <2>1. PICK n \in 1..MaxIn, s \in {"HeaderNotRead", "HeaderValidated"}, m \in MsgLengths \cup {0} :
            RecvBytes(n, s, m) /\ inq' = [inq EXCEPT ![sock[cur]] = @ - n]
      BY <1>12 DEF RecvMore
    <2>2. /\ reader' \in [Conns -> ReaderStates]
          /\ rx' \in [Conns -> Nat] /\ msgLen' \in [Conns -> Nat]
      BY <2>1 DEF RecvBytes, TypeOK, ReaderStates
    <2>3. inq' \in [Fds -> 0..MaxIn]
      <3>1. n \in Nat /\ n <= inq[sock[cur]] /\ inq \in [Fds -> 0..MaxIn]
        BY <2>1 DEF RecvBytes, TypeOK
      <3>2. QED
        BY <2>1, <3>1, TakeFrom
    <2>5. QED
      BY <1>12, <2>2, <2>3 DEF RecvMore, TypeOK, mainVars, listVars, poolVars, listenVars
  <1>13. CASE RecvRejected
    <2>1. PICK n \in 1..MaxIn, s \in {"BodyValidated", "ParseError"}, m \in MsgLengths \cup {0} :
            /\ RecvBytes(n, s, m)
            /\ CloseConnection(cur)
            /\ UNCHANGED cstate \/ cstate' = [cstate EXCEPT ![cur] = "Transmitting"]
      BY <1>13 DEF RecvRejected
    <2>2. /\ reader' \in [Conns -> ReaderStates]
          /\ rx' \in [Conns -> Nat] /\ msgLen' \in [Conns -> Nat]
      BY <2>1 DEF RecvBytes, TypeOK, ReaderStates
    <2>3. cstate' \in [Conns -> {"Receiving", "Transmitting"}]
      BY <2>1 DEF TypeOK
    <2>5. {cur} \in SUBSET Conns /\ CloseConnections({cur})
      BY <2>1 DEF CloseConnection, RecvBytes, TypeOK
    <2>6. QED
      BY <1>13, <2>2, <2>3, <2>5, <1>a DEF RecvRejected, TypeOK
  <1>14. CASE RecvRequest
    <2>1. PICK n \in 1..MaxIn, m \in MsgLengths \cup {0} :
            /\ RecvBytes(n, "BodyValidated", m)
            /\ inq' = [inq EXCEPT ![sock[cur]] = @ - n]
      BY <1>14 DEF RecvRequest
    <2>2. /\ reader' \in [Conns -> ReaderStates]
          /\ rx' \in [Conns -> Nat] /\ msgLen' \in [Conns -> Nat]
      BY <2>1 DEF RecvBytes, TypeOK, ReaderStates
    <2>3. inq' \in [Fds -> 0..MaxIn]
      <3>1. n \in Nat /\ n <= inq[sock[cur]] /\ inq \in [Fds -> 0..MaxIn]
        BY <2>1 DEF RecvBytes, TypeOK
      <3>2. QED
        BY <2>1, <3>1, TakeFrom
    <2>5. cstate' \in [Conns -> {"Receiving", "Transmitting"}]
      BY <1>14 DEF RecvRequest, TypeOK
    <2>5a. interest' \in [Fds -> {"none", "read", "write"}]
      BY <1>14, ChangeTypes DEF RecvRequest
    <2>6. pc = "recv"
      BY <2>1 DEF RecvBytes
    <2>7. QED
      BY <1>14, <2>2, <2>3, <2>5, <2>5a, <2>6 DEF RecvRequest, TypeOK, mainVars, listVars, poolVars, listenVars
  <1>15. CASE SendWouldBlock
    BY <1>15 DEF SendWouldBlock, TypeOK, mainVars, listVars, poolVars, connVars, listenVars, sockVars
  <1>16. CASE SendDead
    <2>1. {cur} \in SUBSET Conns /\ CloseConnections({cur})
      BY <1>16 DEF SendDead, CloseConnection, TypeOK
    <2>2. QED
      BY <1>16, <2>1, <1>a DEF SendDead, TypeOK
  <1>17. CASE SendMore
    <2>0. PICK n \in 1..MaxRoom :
            /\ n <= room[sock[cur]]
            /\ tx' = [tx EXCEPT ![cur] = @ + n]
            /\ room' = [room EXCEPT ![sock[cur]] = @ - n]
      BY <1>17 DEF SendMore, SendBytes
    <2>1. tx' \in [Conns -> Nat] /\ room' \in [Fds -> 0..MaxRoom]
      <3>1. n \in Nat /\ room \in [Fds -> 0..MaxRoom] /\ tx \in [Conns -> Nat]
        BY DEF TypeOK
      <3>2. room' \in [Fds -> 0..MaxRoom]
        BY <2>0, <3>1, TakeFrom
      <3>3. cur \in Conns
        BY <1>17 DEF SendMore, SendBytes, TypeOK
      <3>4. QED
        BY <2>0, <3>1, <3>2, <3>3
    <2>2. QED
      BY <1>17, <2>1 DEF SendMore, TypeOK, mainVars, threadVars, listVars, poolVars, listenVars
  <1>18. CASE SendDone
    <2>1. PICK n \in 1..MaxRoom : /\ n <= room[sock[cur]]
                                  /\ room' = [room EXCEPT ![sock[cur]] = @ - n]
      BY <1>18 DEF SendDone, SendBytes
    <2>2. room' \in [Fds -> 0..MaxRoom] /\ interest' \in [Fds -> {"none", "read", "write"}]
      <3>1. n \in Nat /\ room \in [Fds -> 0..MaxRoom]
        BY DEF TypeOK
      <3>2. room' \in [Fds -> 0..MaxRoom]
        BY <2>1, <3>1, TakeFrom
      <3>3. QED
        BY <1>18, <3>2, ChangeTypes DEF SendDone
    <2>3. cur \in Conns /\ PrepareForRequest(cur)
      BY <1>18 DEF SendDone, SendBytes, TypeOK
    <2>4. /\ cstate' \in [Conns -> {"Receiving", "Transmitting"}]
          /\ reader' \in [Conns -> ReaderStates]
          /\ rx' \in [Conns -> Nat] /\ msgLen' \in [Conns -> Nat] /\ tx' \in [Conns -> Nat]
      BY <2>3, PrepareTypes
    <2>5. QED
      BY <1>18, <2>2, <2>4 DEF SendDone, TypeOK, mainVars, listVars, poolVars, listenVars
  <1>19. CASE SendDoneFault
    <2>1. /\ cur \in Conns /\ PrepareForRequest(cur) /\ CloseConnections({cur})
      BY <1>19 DEF SendDoneFault, SendBytes, CloseConnection, TypeOK
    <2>2. /\ cstate' \in [Conns -> {"Receiving", "Transmitting"}]
          /\ reader' \in [Conns -> ReaderStates]
          /\ rx' \in [Conns -> Nat] /\ msgLen' \in [Conns -> Nat] /\ tx' \in [Conns -> Nat]
      BY <2>1, PrepareTypes
    <2>3. QED
      BY <1>19, <2>1, <2>2, <1>a DEF SendDoneFault, TypeOK
  <1>20. CASE SweepNotDue
    BY <1>20 DEF SweepNotDue, TypeOK, mainVars, listVars, poolVars, connVars, listenVars, sockVars
  <1>21. CASE SweepDeadConnections
    <2>1. ConnsIn(oldList) \in SUBSET Conns
      BY OldListType DEF ConnsIn, TypeOK
    <2>2. QED
      BY <1>21, <2>1, <1>a, OldListType DEF SweepDeadConnections, TypeOK
  <1>22. CASE ThreadCleanup
    <2>1. ConnectionsToCleanUp \in SUBSET Conns
      BY OldListType DEF ConnsIn, ConnectionsToCleanUp, TypeOK
    <2>2. QED
      BY <1>22, <2>1, <1>a DEF ThreadCleanup, TypeOK
  <1> QED
    BY <1>1, <1>2, <1>3, <1>4, <1>5, <1>6, <1>7, <1>8, <1>9, <1>10, <1>11, <1>12,
       <1>13, <1>14, <1>15, <1>16, <1>17, <1>18, <1>19, <1>20, <1>21, <1>22
    DEF ThreadNext

\* Type correctness, for every value of the constants.
THEOREM TypeCorrect == Spec => []TypeOK
  <1>1. Init => TypeOK
    BY TypeInit
  <1>2. TypeOK /\ [Next]_vars => TypeOK'
    <2> SUFFICES ASSUME TypeOK, [Next]_vars PROVE TypeOK'
      OBVIOUS
    <2>1. CASE Next
      BY <2>1, TypeMain, TypeThread, TypeEnv DEF Next
    <2>2. CASE UNCHANGED vars
      BY <2>2 DEF vars, mainVars, threadVars, listVars, poolVars, connVars, listenVars,
         sockVars, TypeOK
    <2>3. QED
      BY <2>1, <2>2
  <1>3. QED
    BY <1>1, <1>2, PTL DEF Spec

-----------------------------------------------------------------------------
(* The safety invariants.  None is inductive alone: closing a connection   *)
(* keeps the tables consistent only if no other connection has the same    *)
(* socket, and keeps NoLeak only if the tables are consistent.             *)

Data == TablesConsistent /\ NoLeak /\ InterestMatchesState /\ ProgressFitsState

IInv == TypeOK /\ Data /\ SubjectIsLive /\ CleanShutdown

\* Data depends only on the lists, the pool, the connections and the sockets.
LEMMA DataFrame ==
  ASSUME Data, UNCHANGED <<listVars, pool, free, idHashTable, connVars, open, interest>>
  PROVE  Data'
  BY DEF Data, TablesConsistent, NoLeak, InterestMatchesState, ProgressFitsState,
     HowManyBytesNeeded, listVars, connVars

\* Closing any set of tracked connections keeps the data consistent.
LEMMA CloseKeepsData ==
  ASSUME TypeOK, TypeOK', Data, NEW S \in SUBSET Conns, \A o \in S : sock[o] # None,
         CloseConnections(S), UNCHANGED <<pool, idHashTable>>,
         \A o \in Conns \ S : /\ cstate'[o] = cstate[o] /\ reader'[o] = reader[o]
                              /\ rx'[o] = rx[o] /\ msgLen'[o] = msgLen[o] /\ tx'[o] = tx[o]
  PROVE  Data'
  <1>1. \A o \in Conns : sock'[o] = IF o \in S THEN None ELSE sock[o]
    BY DEF CloseConnections
  <1>2. \A i \in {1, 2}, fd \in Fds :
          table'[i][fd] = IF \E o \in S : sock[o] = fd /\ idHashTable[o] = i
                          THEN None ELSE table[i][fd]
    BY DEF CloseConnections, RemoveFromTables
  <1>3. TablesConsistent'
    <2>1. ASSUME NEW i \in {1, 2}, NEW fd \in Fds, table'[i][fd] # None
          PROVE  sock'[table'[i][fd]] = fd /\ idHashTable[table'[i][fd]] = i
      <3>1. table'[i][fd] = table[i][fd] /\ ~\E o \in S : sock[o] = fd /\ idHashTable[o] = i
        BY <1>2, <2>1
      <3>2. table[i][fd] \in Conns /\ sock[table[i][fd]] = fd /\ idHashTable[table[i][fd]] = i
        BY <2>1, <3>1 DEF Data, TablesConsistent, TypeOK
      <3>3. QED
        BY <1>1, <3>1, <3>2
    <2>2. ASSUME NEW o \in Conns, sock'[o] # None
          PROVE  idHashTable[o] \in {1, 2} /\ table'[idHashTable[o]][sock'[o]] = o
      <3>1. o \notin S /\ sock'[o] = sock[o] /\ sock[o] \in Fds
        BY <1>1, <2>2 DEF TypeOK
      <3>2. idHashTable[o] \in {1, 2} /\ table[idHashTable[o]][sock[o]] = o
        BY <2>2, <3>1 DEF Data, TablesConsistent
      <3>3. ~\E p \in S : sock[p] = sock[o]
        BY <2>2, <3>1 DEF Data, TablesConsistent
      <3>4. QED
        BY <1>2, <3>1, <3>2, <3>3
    <2>3. ASSUME NEW o \in Conns, NEW p \in Conns, sock'[o] # None, sock'[o] = sock'[p]
          PROVE  o = p
      BY <1>1, <2>3 DEF Data, TablesConsistent
    <2>4. QED
      BY <2>1, <2>2, <2>3 DEF TablesConsistent
  <1>4. NoLeak'
    <2>1. open' = open \ {sock[o] : o \in S} /\ free' = free \cup S
      BY DEF CloseConnections, ReleaseConnection
    <2>2. open' = {sock'[o] : o \in Conns} \ {None}
      <3>1. ASSUME NEW fd \in open' PROVE fd \in {sock'[o] : o \in Conns} \ {None}
        BY <1>1, <2>1, <3>1 DEF Data, NoLeak
      <3>2. ASSUME NEW o \in Conns, sock'[o] # None PROVE sock'[o] \in open'
        <4>1. o \notin S /\ sock'[o] = sock[o] /\ sock[o] \in open
          BY <1>1, <3>2 DEF Data, NoLeak
        <4>2. \A p \in S : sock[p] # sock[o]
          BY <3>2, <4>1 DEF Data, TablesConsistent
        <4>3. QED
          BY <2>1, <4>1, <4>2
      <3>3. QED
        BY <3>1, <3>2
    <2>3. free' \subseteq pool'
      BY <2>1 DEF Data, NoLeak
    <2>4. \A o \in Conns : sock'[o] # None <=> o \in pool' \ free'
      BY <1>1, <2>1 DEF Data, NoLeak
    <2>5. QED
      BY <2>2, <2>3, <2>4 DEF NoLeak
  <1>5. InterestMatchesState'
    <2>1. \A fd \in Fds : interest'[fd] = IF fd \in {sock[o] : o \in S} THEN "none" ELSE interest[fd]
      BY DEF CloseConnections
    <2>2. ASSUME NEW o \in Conns, sock'[o] # None
          PROVE  interest'[sock'[o]] = IF cstate'[o] = "Receiving" THEN "read" ELSE "write"
      <3>1. o \notin S /\ sock'[o] = sock[o] /\ sock[o] \in Fds /\ cstate'[o] = cstate[o]
        BY <1>1, <2>2 DEF TypeOK
      <3>2. \A p \in S : sock[p] # sock[o]
        BY <2>2, <3>1 DEF Data, TablesConsistent
      <3>3. QED
        BY <2>1, <2>2, <3>1, <3>2 DEF Data, InterestMatchesState
    <2>3. ASSUME NEW fd \in Fds \ open' PROVE interest'[fd] = "none"
      BY <2>1, <2>3 DEF Data, InterestMatchesState, CloseConnections
    <2>4. QED
      BY <2>2, <2>3 DEF InterestMatchesState
  <1>6. ProgressFitsState'
    <2> SUFFICES ASSUME NEW o \in Conns, sock'[o] # None
        PROVE  \/ /\ cstate'[o] = "Receiving" /\ tx'[o] = 0
                  /\ reader'[o] \in {"HeaderNotRead", "HeaderValidated"}
                  /\ HowManyBytesNeeded(o)' > 0
               \/ /\ cstate'[o] = "Transmitting" /\ tx'[o] < RespSize
                  /\ reader'[o] = "BodyValidated"
      BY DEF ProgressFitsState
    <2>1. o \notin S /\ sock[o] # None
      BY <1>1
    <2>2. HowManyBytesNeeded(o)' = HowManyBytesNeeded(o)
      BY <2>1 DEF HowManyBytesNeeded
    <2>3. QED
      BY <2>1, <2>2 DEF Data, ProgressFitsState
  <1>7. QED
    BY <1>3, <1>4, <1>5, <1>6 DEF Data

\* A step on one tracked connection keeps the data consistent if it leaves
\* that connection consistent and the others alone.
LEMMA UpdateKeepsData ==
  ASSUME TypeOK, TypeOK', Data, NEW o \in Conns, sock[o] # None,
         UNCHANGED <<table, pool, free, idHashTable, sock, open>>,
         \A p \in Conns \ {o} : /\ cstate'[p] = cstate[p] /\ reader'[p] = reader[p]
                                /\ rx'[p] = rx[p] /\ msgLen'[p] = msgLen[p] /\ tx'[p] = tx[p],
         \A fd \in Fds \ {sock[o]} : interest'[fd] = interest[fd],
         interest'[sock[o]] = IF cstate'[o] = "Receiving" THEN "read" ELSE "write",
         \/ /\ cstate'[o] = "Receiving" /\ tx'[o] = 0
            /\ reader'[o] \in {"HeaderNotRead", "HeaderValidated"}
            /\ HowManyBytesNeeded(o)' > 0
         \/ /\ cstate'[o] = "Transmitting" /\ tx'[o] < RespSize
            /\ reader'[o] = "BodyValidated"
  PROVE  Data'
  <1>1. TablesConsistent' /\ NoLeak'
    BY DEF Data, TablesConsistent, NoLeak
  <1>2. InterestMatchesState'
    <2>1. ASSUME NEW p \in Conns, sock'[p] # None
          PROVE  interest'[sock'[p]] = IF cstate'[p] = "Receiving" THEN "read" ELSE "write"
      <3>1. CASE p = o
        BY <3>1
      <3>2. CASE p # o
        <4>1. sock[p] \in Fds \ {sock[o]}
          BY <2>1, <3>2 DEF Data, TablesConsistent, TypeOK
        <4>2. QED
          BY <2>1, <3>2, <4>1 DEF Data, InterestMatchesState
      <3>3. QED
        BY <3>1, <3>2
    <2>2. ASSUME NEW fd \in Fds \ open' PROVE interest'[fd] = "none"
      BY <2>2 DEF Data, InterestMatchesState, NoLeak
    <2>3. QED
      BY <2>1, <2>2 DEF InterestMatchesState
  <1>3. ProgressFitsState'
    <2> SUFFICES ASSUME NEW p \in Conns, sock'[p] # None
        PROVE  \/ /\ cstate'[p] = "Receiving" /\ tx'[p] = 0
                  /\ reader'[p] \in {"HeaderNotRead", "HeaderValidated"}
                  /\ HowManyBytesNeeded(p)' > 0
               \/ /\ cstate'[p] = "Transmitting" /\ tx'[p] < RespSize
                  /\ reader'[p] = "BodyValidated"
      BY DEF ProgressFitsState
    <2>1. CASE p = o
      BY <2>1
    <2>2. CASE p # o
      <3>1. HowManyBytesNeeded(p)' = HowManyBytesNeeded(p)
        BY <2>2 DEF HowManyBytesNeeded
      <3>2. QED
        BY <2>2, <3>1 DEF Data, ProgressFitsState
    <2>3. QED
      BY <2>1, <2>2
  <1>4. QED
    BY <1>1, <1>2, <1>3 DEF Data

\* A prepared object is at the start of a request.
LEMMA PreparedProgress ==
  ASSUME TypeOK, NEW o \in Conns, PrepareForRequest(o)
  PROVE  /\ cstate'[o] = "Receiving" /\ tx'[o] = 0 /\ reader'[o] = "HeaderNotRead"
         /\ HowManyBytesNeeded(o)' > 0
         /\ \A p \in Conns \ {o} :
              /\ cstate'[p] = cstate[p] /\ reader'[p] = reader[p]
              /\ rx'[p] = rx[p] /\ msgLen'[p] = msgLen[p] /\ tx'[p] = tx[p]
  BY TcpAssumption DEF TcpAssumption, TypeOK, PrepareForRequest, HowManyBytesNeeded

\* The object taken from the pool had no socket, so the tables gain one entry
\* for a descriptor that no connection had.
LEMMA AcceptKeepsData ==
  ASSUME TypeOK, TypeOK', Data, AcceptConnection
  PROVE  Data' /\ sock'[cur'] # None /\ cstate'[cur'] = "Receiving"
  <1>1. PICK fd \in Fds \ open, o \in Conns :
         /\ GetConnection(o, fd)
         /\ sock' = [sock EXCEPT ![o] = fd]
         /\ idHashTable' = [idHashTable EXCEPT ![o] = newList]
         /\ table' = [table EXCEPT ![newList][fd] = o]
         /\ open' = open \cup {fd}
         /\ interest' = [interest EXCEPT ![fd] = "read"]
         /\ cur' = o
    BY DEF AcceptConnection
  <1>2. PICK G \in GrowIfEmpty :
         /\ o \in free \cup G
         /\ pool' = pool \cup G
         /\ free' = (free \cup G) \ {o}
    BY <1>1 DEF GetConnection
  <1>3. G \subseteq Conns \ pool
    BY DEF GrowIfEmpty, Grow
  <1>4. sock[o] = None
    BY <1>2, <1>3 DEF Data, NoLeak
  <1>5. fd # None /\ \A p \in Conns : sock[p] # fd
    BY TcpAssumption DEF TcpAssumption, Data, NoLeak
  <1>6. \A i \in {1, 2} : table[i][fd] = None
    BY <1>5 DEF Data, TablesConsistent, TypeOK
  <1>7. /\ \A p \in Conns : sock'[p] = IF p = o THEN fd ELSE sock[p]
        /\ \A p \in Conns : idHashTable'[p] = IF p = o THEN newList ELSE idHashTable[p]
    BY <1>1 DEF TypeOK
  <1>8. \A i \in {1, 2}, f \in Fds :
          table'[i][f] = IF i = newList /\ f = fd THEN o ELSE table[i][f]
    BY <1>1 DEF TypeOK
  <1>9. TablesConsistent'
    <2>1. ASSUME NEW i \in {1, 2}, NEW f \in Fds, table'[i][f] # None
          PROVE  sock'[table'[i][f]] = f /\ idHashTable'[table'[i][f]] = i
      <3>1. CASE f = fd
        BY <1>6, <1>7, <1>8, <2>1, <3>1
      <3>2. CASE f # fd
        <4>1. table'[i][f] = table[i][f] /\ table[i][f] \in Conns
          BY <1>8, <2>1, <3>2 DEF TypeOK
        <4>2. sock[table[i][f]] = f /\ idHashTable[table[i][f]] = i
          BY <2>1, <4>1 DEF Data, TablesConsistent
        <4>3. table[i][f] # o
          BY <1>4, <4>2, TcpAssumption DEF TcpAssumption
        <4>4. QED
          BY <1>7, <4>1, <4>2, <4>3
      <3>3. QED
        BY <3>1, <3>2
    <2>2. ASSUME NEW p \in Conns, sock'[p] # None
          PROVE  idHashTable'[p] \in {1, 2} /\ table'[idHashTable'[p]][sock'[p]] = p
      <3>1. CASE p = o
        BY <1>7, <1>8, <3>1 DEF TypeOK
      <3>2. CASE p # o
        <4>1. sock[p] \in Fds /\ sock[p] # fd /\ sock'[p] = sock[p]
          BY <1>5, <1>7, <2>2, <3>2 DEF TypeOK
        <4>2. idHashTable[p] \in {1, 2} /\ table[idHashTable[p]][sock[p]] = p
          BY <2>2, <4>1 DEF Data, TablesConsistent
        <4>3. QED
          BY <1>7, <1>8, <3>2, <4>1, <4>2
      <3>3. QED
        BY <3>1, <3>2
    <2>3. ASSUME NEW p \in Conns, NEW q \in Conns, sock'[p] # None, sock'[p] = sock'[q]
          PROVE  p = q
      BY <1>5, <1>7, <2>3 DEF Data, TablesConsistent
    <2>4. QED
      BY <2>1, <2>2, <2>3 DEF TablesConsistent
  <1>10. NoLeak'
    <2>1. open' = {sock'[p] : p \in Conns} \ {None}
      <3>1. ASSUME NEW f \in open' PROVE f \in {sock'[p] : p \in Conns} \ {None}
        <4>1. CASE f = fd
          BY <1>5, <1>7, <4>1
        <4>2. CASE f # fd
          <5>1. PICK p \in Conns : sock[p] = f /\ f # None
            BY <1>1, <3>1, <4>2 DEF Data, NoLeak
          <5>2. p # o
            BY <1>4, <5>1
          <5>3. QED
            BY <1>7, <5>1, <5>2
        <4>3. QED
          BY <4>1, <4>2
      <3>2. ASSUME NEW p \in Conns, sock'[p] # None PROVE sock'[p] \in open'
        BY <1>1, <1>7, <3>2 DEF Data, NoLeak
      <3>3. QED
        BY <3>1, <3>2
    <2>2. free' \subseteq pool'
      BY <1>2 DEF Data, NoLeak
    <2>3. \A p \in Conns : sock'[p] # None <=> p \in pool' \ free'
      BY <1>2, <1>3, <1>5, <1>7 DEF Data, NoLeak
    <2>4. QED
      BY <2>1, <2>2, <2>3 DEF NoLeak
  <1>11. /\ cstate'[o] = "Receiving" /\ tx'[o] = 0 /\ reader'[o] = "HeaderNotRead"
         /\ HowManyBytesNeeded(o)' > 0
         /\ \A p \in Conns \ {o} :
              /\ cstate'[p] = cstate[p] /\ reader'[p] = reader[p]
              /\ rx'[p] = rx[p] /\ msgLen'[p] = msgLen[p] /\ tx'[p] = tx[p]
    BY <1>1, PreparedProgress DEF GetConnection
  <1>12. InterestMatchesState'
    <2>1. \A f \in Fds : interest'[f] = IF f = fd THEN "read" ELSE interest[f]
      BY <1>1 DEF TypeOK
    <2>2. ASSUME NEW p \in Conns, sock'[p] # None
          PROVE  interest'[sock'[p]] = IF cstate'[p] = "Receiving" THEN "read" ELSE "write"
      <3>1. CASE p = o
        BY <1>7, <1>11, <2>1, <3>1
      <3>2. CASE p # o
        <4>1. sock'[p] = sock[p] /\ sock[p] \in Fds /\ sock[p] # fd /\ cstate'[p] = cstate[p]
          BY <1>5, <1>7, <1>11, <2>2, <3>2 DEF TypeOK
        <4>2. QED
          BY <2>1, <2>2, <4>1 DEF Data, InterestMatchesState
      <3>3. QED
        BY <3>1, <3>2
    <2>3. ASSUME NEW f \in Fds \ open' PROVE interest'[f] = "none"
      BY <1>1, <2>1, <2>3 DEF Data, InterestMatchesState
    <2>4. QED
      BY <2>2, <2>3 DEF InterestMatchesState
  <1>13. ProgressFitsState'
    <2> SUFFICES ASSUME NEW p \in Conns, sock'[p] # None
        PROVE  \/ /\ cstate'[p] = "Receiving" /\ tx'[p] = 0
                  /\ reader'[p] \in {"HeaderNotRead", "HeaderValidated"}
                  /\ HowManyBytesNeeded(p)' > 0
               \/ /\ cstate'[p] = "Transmitting" /\ tx'[p] < RespSize
                  /\ reader'[p] = "BodyValidated"
      BY DEF ProgressFitsState
    <2>1. CASE p = o
      BY <1>11, <2>1
    <2>2. CASE p # o
      <3>1. HowManyBytesNeeded(p)' = HowManyBytesNeeded(p) /\ sock[p] # None
        BY <1>7, <1>11, <2>2 DEF HowManyBytesNeeded
      <3>2. QED
        BY <1>11, <2>2, <3>1 DEF Data, ProgressFitsState
    <2>3. QED
      BY <2>1, <2>2
  <1>14. QED
    BY <1>1, <1>5, <1>7, <1>9, <1>10, <1>11, <1>12, <1>13 DEF Data

\* With no socket open nothing is tracked (in the next state).
LEMMA NothingTracked ==
  ASSUME TypeOK', Data', open' = {} PROVE Tracked' = {}
  <1>1. \A o \in Conns : sock'[o] = None
    BY DEF Data, NoLeak
  <1>2. \A i \in {1, 2}, fd \in Fds : table'[i][fd] = None
    <2> SUFFICES ASSUME NEW i \in {1, 2}, NEW fd \in Fds, table'[i][fd] # None PROVE FALSE
      OBVIOUS
    <2>1. table'[i][fd] \in Conns /\ sock'[table'[i][fd]] = fd
      BY DEF Data, TablesConsistent, TypeOK
    <2>2. QED
      BY <1>1, <2>1, TcpAssumption DEF TcpAssumption
  <1>3. QED
    BY <1>2 DEF Tracked, ConnsIn

\* The connections of a list have sockets.
LEMMA TrackedHaveSockets ==
  ASSUME TypeOK, Data, NEW i \in {1, 2}
  PROVE  ConnsIn(i) \in SUBSET Conns /\ \A o \in ConnsIn(i) : sock[o] # None
  <1>1. ConnsIn(i) \in SUBSET Conns
    BY DEF ConnsIn, TypeOK
  <1>2. ASSUME NEW o \in ConnsIn(i) PROVE sock[o] # None
    <2>1. PICK fd \in Fds : o = table[i][fd] /\ o # None
      BY <1>2 DEF ConnsIn
    <2>2. QED
      BY <2>1, TcpAssumption DEF TcpAssumption, Data, TablesConsistent
  <1>3. QED
    BY <1>1, <1>2

LEMMA InvInit == Init => IInv
  <1> SUFFICES ASSUME Init PROVE IInv
    OBVIOUS
  <1>1. TypeOK
    BY TypeInit
  <1>2. Data
    BY DEF Init, Data, TablesConsistent, NoLeak, InterestMatchesState, ProgressFitsState
  <1>3. SubjectIsLive
    BY DEF Init, SubjectIsLive
  <1>4. CleanShutdown
    BY DEF Init, CleanShutdown, Tracked, ConnsIn
  <1>5. QED
    BY <1>1, <1>2, <1>3, <1>4 DEF IInv

LEMMA InvMain == IInv /\ MainNext => IInv'
  <1> SUFFICES ASSUME IInv, MainNext PROVE IInv'
    OBVIOUS
  <1>1. TypeOK'
    BY TypeMain DEF IInv
  <1>2. CASE StopReset
    <2>1. open = {} /\ pc' = "none" /\ open' = open /\ sock' = sock /\ interest' = interest
      BY <1>2 DEF IInv, StopReset, Reset, CleanShutdown, sockVars, connVars
    <2>2. \A o \in Conns : sock[o] = None
      BY <2>1 DEF IInv, Data, NoLeak
    <2>3. pool' = {} /\ free' = {}
      <3>1. pool \ free = {}
        BY <2>2 DEF IInv, Data, NoLeak, TypeOK
      <3>2. QED
        BY <1>2, <3>1 DEF StopReset, Reset
    <2>4. \A i \in {1, 2}, fd \in Fds : table'[i][fd] = None
      BY <1>2 DEF StopReset, Reset
    <2>5. TablesConsistent' /\ NoLeak' /\ InterestMatchesState' /\ ProgressFitsState'
      BY <2>1, <2>2, <2>3, <2>4 DEF IInv, Data, TablesConsistent, NoLeak,
         InterestMatchesState, ProgressFitsState
    <2>6. Tracked' = {}
      BY <1>1, <2>1, <2>5, NothingTracked DEF Data
    <2>7. QED
      BY <1>1, <2>1, <2>3, <2>5, <2>6 DEF IInv, Data, SubjectIsLive, CleanShutdown
  <1>3. CASE ThreadInit \/ Start \/ StopSetFlag \/ NotifyThreadViaPipe
    <2>1. /\ UNCHANGED <<listVars, pool, free, idHashTable, connVars, open, interest>>
          /\ UNCHANGED pc \/ (mpc = "inited" /\ mpc' = "running" /\ pc' = "start")
          /\ mpc' \in {"uninit", "inited"} => mpc \in {"uninit", "inited"}
          /\ UNCHANGED cur
      BY <1>3 DEF ThreadInit, Start, StopSetFlag, NotifyThreadViaPipe, threadVars,
         poolVars, sockVars
    <2>2. Data'
      BY <2>1, DataFrame DEF IInv
    <2>3. SubjectIsLive'
      BY <2>1 DEF IInv, SubjectIsLive, connVars
    <2>4. open' = {} => Tracked' = {}
      BY <1>1, <2>2, NothingTracked
    <2>5. CleanShutdown'
      BY <2>1, <2>4 DEF IInv, CleanShutdown
    <2>6. QED
      BY <1>1, <2>2, <2>3, <2>5 DEF IInv
  <1>4. QED
    BY <1>2, <1>3 DEF MainNext

LEMMA InvEnv == IInv /\ EnvNext => IInv'
  <1> SUFFICES ASSUME IInv, EnvNext PROVE IInv'
    OBVIOUS
  <1>1. TypeOK'
    BY TypeEnv DEF IInv
  <1>2. UNCHANGED <<mainVars, threadVars, listVars, pool, free, idHashTable, connVars,
                    open, interest>>
    BY DEF EnvNext, Connect, Abandon, PeerSend, PeerRead, PeerShut, PeerReset, Tick, EnvUnchanged
  <1>3. Data'
    BY <1>2, DataFrame DEF IInv
  <1>4. SubjectIsLive'
    BY <1>2 DEF IInv, SubjectIsLive, threadVars, connVars
  <1>5. CleanShutdown'
    <2>1. open' = {} => Tracked' = {}
      BY <1>1, <1>3, NothingTracked
    <2>2. QED
      BY <1>2, <2>1 DEF IInv, CleanShutdown, mainVars, threadVars
  <1>6. QED
    BY <1>1, <1>3, <1>4, <1>5 DEF IInv

\* A step of the server thread that only moves its program counter.
LEMMA InvQuiet ==
  ASSUME IInv, TypeOK',
         UNCHANGED <<mpc, listVars, pool, free, idHashTable, connVars, open, interest>>,
         pc \notin {"none", "done"}, pc' \notin {"none", "start", "done"},
         pc' \in {"recv", "send"} => sock[cur'] # None /\ HandlerFor(cur') = pc'
  PROVE  IInv'
  <1>1. Data'
    BY DataFrame DEF IInv
  <1>2. SubjectIsLive'
    <2>1. pc' = "send" => cstate[cur'] = "Transmitting"
      BY DEF HandlerFor, TypeOK, connVars
    <2>2. QED
      BY <2>1 DEF SubjectIsLive, HandlerFor, connVars
  <1>3. CleanShutdown'
    BY DEF IInv, CleanShutdown
  <1>4. QED
    BY <1>1, <1>2, <1>3 DEF IInv

\* A step of the server thread that closes connections.
LEMMA InvClose ==
  ASSUME IInv, TypeOK', UNCHANGED <<mpc, pool, idHashTable>>,
         NEW S \in SUBSET Conns, \A o \in S : sock[o] # None, CloseConnections(S),
         \A o \in Conns \ S : /\ cstate'[o] = cstate[o] /\ reader'[o] = reader[o]
                              /\ rx'[o] = rx[o] /\ msgLen'[o] = msgLen[o] /\ tx'[o] = tx[o],
         pc # "none", pc' \in {"sweep", "top", "done"}, pc' = "done" => open' = {}
  PROVE  IInv'
  <1>1. Data'
    BY CloseKeepsData DEF IInv
  <1>2. SubjectIsLive'
    BY DEF SubjectIsLive
  <1>3. open' = {} => Tracked' = {}
    BY <1>1, NothingTracked
  <1>4. CleanShutdown'
    BY <1>3 DEF IInv, CleanShutdown
  <1>5. QED
    BY <1>1, <1>2, <1>4 DEF IInv

\* A step of the server thread on its current connection.
LEMMA InvUpdate ==
  ASSUME IInv, TypeOK', Data', UNCHANGED <<mpc, pool>>,
         pc \notin {"none", "start", "done"},
         pc' \in {"recv", "send", "sweep"},
         pc' \in {"recv", "send"} => sock'[cur'] # None,
         pc' = "recv" => cstate'[cur'] = "Receiving",
         pc' = "send" => cstate'[cur'] = "Transmitting"
  PROVE  IInv'
  <1>1. SubjectIsLive'
    BY DEF SubjectIsLive
  <1>2. CleanShutdown'
    BY DEF IInv, CleanShutdown
  <1>3. QED
    BY <1>1, <1>2 DEF IInv

\* The reader never asks for nothing while a message is incomplete: bytes are
\* left to read in the state that AddBytes returns.
LEMMA AddBytesProgress ==
  ASSUME TypeOK, NEW o \in Conns, reader[o] \in {"HeaderNotRead", "HeaderValidated"},
         NEW n \in 1..HowManyBytesNeeded(o),
         NEW s \in {"HeaderNotRead", "HeaderValidated"}, NEW m \in MsgLengths \cup {0},
         <<s, m>> \in AddBytes(o, rx[o] + n)
  PROVE  (IF s = "HeaderNotRead" THEN HeaderSize ELSE HeaderSize + m) - (rx[o] + n) > 0
  <1> USE TcpAssumption DEF TcpAssumption
  <1>1. rx[o] \in Nat /\ msgLen[o] \in Nat /\ n \in Nat /\ HeaderSize \in Nat /\ m \in Nat
    BY DEF TypeOK, HowManyBytesNeeded
  <1>2. CASE reader[o] = "HeaderNotRead" /\ rx[o] + n < HeaderSize
    <2>1. <<s, m>> \in {<<"HeaderNotRead", msgLen[o]>>}
      BY <1>1, <1>2 DEF AddBytes
    <2>2. QED
      BY <1>1, <1>2, <2>1
  <1>3. CASE reader[o] = "HeaderNotRead" /\ rx[o] + n >= HeaderSize
    <2>1. rx[o] + n = HeaderSize
      BY <1>1, <1>3 DEF HowManyBytesNeeded
    <2>2. <<s, m>> \in {<<IF k = 0 THEN "BodyValidated" ELSE "HeaderValidated", k>> : k \in MsgLengths}
                         \cup {<<"ParseError", msgLen[o]>>}
      BY <1>1, <1>3 DEF AddBytes
    <2>3. s = "HeaderValidated" /\ m # 0
      BY <2>2
    <2>4. QED
      BY <1>1, <2>1, <2>3
  <1>4. CASE reader[o] = "HeaderValidated" /\ rx[o] + n < HeaderSize + msgLen[o]
    <2>1. s = "HeaderValidated" /\ m = msgLen[o]
      BY <1>4 DEF AddBytes
    <2>2. QED
      BY <1>1, <1>4, <2>1
  <1>5. CASE reader[o] = "HeaderValidated" /\ ~(rx[o] + n < HeaderSize + msgLen[o])
    <2>1. <<s, m>> \in {"BodyValidated", "ParseError"} \X {msgLen[o]}
      BY <1>5 DEF AddBytes
    <2>2. QED
      BY <2>1
  <1>6. QED
    BY <1>1, <1>2, <1>3, <1>4, <1>5

LEMMA InvThread == IInv /\ ThreadNext => IInv'
  <1> SUFFICES ASSUME IInv, ThreadNext PROVE IInv'
    OBVIOUS
  <1>t. TypeOK /\ TypeOK' /\ Data
    BY TypeThread DEF IInv
  <1>1. CASE RunStart \/ LoopExit \/ LoopTop \/ WaitTimeout \/ AcceptFails \/ AcceptRefused
             \/ RecvWouldBlock \/ SendWouldBlock \/ SweepNotDue
    <2>1. /\ UNCHANGED <<mpc, listVars, pool, free, idHashTable, connVars, open, interest>>
          /\ pc \notin {"none", "done"} /\ pc' \in {"top", "cleanup", "wait", "sweep"}
      BY <1>1 DEF RunStart, LoopExit, LoopTop, WaitTimeout, AcceptFails, AcceptRefused,
         TakeFromBacklog, RecvWouldBlock, SendWouldBlock, SweepNotDue, mainVars, poolVars, sockVars
    <2>2. QED
      BY <1>t, <2>1, InvQuiet
  <1>2. ASSUME NEW e \in Listeners \cup Fds \cup {Pipe}, WaitForNextEvent(e) PROVE IInv'
    <2>1. /\ UNCHANGED <<mpc, listVars, pool, free, idHashTable, connVars, open, interest>>
          /\ pc \notin {"none", "done"}
      BY <1>2 DEF WaitForNextEvent, mainVars, poolVars, sockVars
    <2>2. /\ pc' \in {"cleanup", "accept", "sweep", "recv", "send"}
          /\ pc' \in {"recv", "send"} =>
               /\ e \in Fds /\ cur' = LookupConnection(e) /\ cur' # None
               /\ HandlerFor(cur') = pc'
      BY <1>2 DEF WaitForNextEvent, HandlerFor
    <2>3. pc' \in {"recv", "send"} => sock[cur'] # None
      BY <1>t, <2>2, OldListType, TcpAssumption
      DEF TcpAssumption, LookupConnection, Data, TablesConsistent, TypeOK
    <2>4. QED
      BY <1>t, <2>1, <2>2, <2>3, InvQuiet
  <1>3. CASE AcceptUndone
    <2>1. PICK G \in GrowIfEmpty : \E o \in free \cup G :
         /\ pool' = pool \cup G
         /\ free' = free \cup G
         /\ PrepareForRequest(o)
         /\ \E i : idHashTable' = [idHashTable EXCEPT ![o] = i]
      BY <1>3 DEF AcceptUndone
    <2>2. G \subseteq Conns \ pool
      BY DEF GrowIfEmpty, Grow
    <2>3. PICK o \in Conns :
         /\ o \in free \cup G
         /\ PrepareForRequest(o)
         /\ \E i : idHashTable' = [idHashTable EXCEPT ![o] = i]
      BY <1>t, <2>1, <2>2 DEF TypeOK
    <2>4. sock[o] = None
      BY <1>t, <2>2, <2>3 DEF Data, NoLeak
    <2>5. \A p \in Conns \ {o} :
            /\ idHashTable'[p] = idHashTable[p]
            /\ cstate'[p] = cstate[p] /\ reader'[p] = reader[p]
            /\ rx'[p] = rx[p] /\ msgLen'[p] = msgLen[p] /\ tx'[p] = tx[p]
      BY <1>t, <2>3 DEF PrepareForRequest, TypeOK
    <2>6. UNCHANGED <<sock, table, open, interest, mpc>> /\ pc = "accept" /\ pc' = "sweep"
      BY <1>3 DEF AcceptUndone, TakeFromBacklog, listVars, sockVars, mainVars
    <2>7. TablesConsistent'
      <3>1. ASSUME NEW i \in {1, 2}, NEW fd \in Fds, table[i][fd] # None
            PROVE  sock[table[i][fd]] = fd /\ idHashTable'[table[i][fd]] = i
        <4>1. table[i][fd] \in Conns /\ sock[table[i][fd]] = fd /\ idHashTable[table[i][fd]] = i
          BY <1>t, <3>1 DEF Data, TablesConsistent, TypeOK
        <4>2. table[i][fd] # o
          BY <2>4, <4>1, TcpAssumption DEF TcpAssumption
        <4>3. QED
          BY <2>5, <4>1, <4>2
      <3>2. ASSUME NEW p \in Conns, sock[p] # None
            PROVE  idHashTable'[p] \in {1, 2} /\ table[idHashTable'[p]][sock[p]] = p
        BY <1>t, <2>4, <2>5, <3>2 DEF Data, TablesConsistent
      <3>3. QED
        BY <1>t, <2>6, <3>1, <3>2 DEF Data, TablesConsistent
    <2>8. NoLeak'
      BY <1>t, <2>1, <2>2, <2>6 DEF Data, NoLeak, TypeOK
    <2>9. InterestMatchesState'
      BY <1>t, <2>4, <2>5, <2>6 DEF Data, InterestMatchesState
    <2>10. ProgressFitsState'
      <3>1. \A p \in Conns \ {o} : HowManyBytesNeeded(p)' = HowManyBytesNeeded(p)
        BY <2>5 DEF HowManyBytesNeeded
      <3>2. QED
        BY <1>t, <2>4, <2>5, <2>6, <3>1 DEF Data, ProgressFitsState
    <2>11. SubjectIsLive' /\ CleanShutdown'
      BY <2>6 DEF IInv, SubjectIsLive, CleanShutdown
    <2>12. QED
      BY <1>t, <2>7, <2>8, <2>9, <2>10, <2>11 DEF IInv, Data
  <1>4. CASE AcceptConnection
    <2>1. Data' /\ sock'[cur'] # None /\ cstate'[cur'] = "Receiving"
      BY <1>4, <1>t, AcceptKeepsData
    <2>2. pc = "accept" /\ pc' = "recv" /\ UNCHANGED mpc
      BY <1>4 DEF AcceptConnection, TakeFromBacklog, mainVars
    <2>3. SubjectIsLive' /\ CleanShutdown'
      BY <2>1, <2>2 DEF IInv, SubjectIsLive, CleanShutdown
    <2>4. QED
      BY <1>t, <2>1, <2>3 DEF IInv
  <1>5. CASE RecvDead \/ SendDead
    <2>1. /\ pc \in {"recv", "send"} /\ pc' = "sweep" /\ CloseConnections({cur})
          /\ UNCHANGED <<mpc, pool, idHashTable, cstate, reader, rx, msgLen, tx>>
      BY <1>5 DEF RecvDead, SendDead, CloseConnection, mainVars
    <2>2. {cur} \in SUBSET Conns /\ \A o \in {cur} : sock[o] # None
      BY <1>t, <2>1 DEF IInv, SubjectIsLive, TypeOK
    <2>3. QED
      BY <1>t, <2>1, <2>2, InvClose
  <1>6. CASE RecvMore
    <2>1. PICK n \in 1..MaxIn, s \in {"HeaderNotRead", "HeaderValidated"},
               m \in MsgLengths \cup {0} : RecvBytes(n, s, m)
      BY <1>6 DEF RecvMore
    <2>2. /\ UNCHANGED <<mpc, pc, cur, table, pool, free, idHashTable, sock, cstate, tx, open, interest>>
          /\ pc = "recv"
      BY <1>6, <2>1 DEF RecvMore, RecvBytes, mainVars, listVars, poolVars
    <2>3. cur \in Conns /\ sock[cur] # None /\ cstate[cur] = "Receiving" /\ tx[cur] = 0
          /\ reader[cur] \in {"HeaderNotRead", "HeaderValidated"}
          /\ interest[sock[cur]] = "read"
      BY <1>t, <2>2 DEF IInv, SubjectIsLive, TypeOK, Data, ProgressFitsState, InterestMatchesState
    <2>4. /\ rx'[cur] = rx[cur] + n /\ reader'[cur] = s /\ msgLen'[cur] = m
          /\ \A p \in Conns \ {cur} : reader'[p] = reader[p] /\ rx'[p] = rx[p]
                                      /\ msgLen'[p] = msgLen[p]
      BY <1>t, <2>1, <2>3 DEF RecvBytes, TypeOK
    <2>5. HowManyBytesNeeded(cur)' > 0
      <3>1. (IF s = "HeaderNotRead" THEN HeaderSize ELSE HeaderSize + m) - (rx[cur] + n) > 0
        BY <1>t, <2>1, <2>3, AddBytesProgress DEF RecvBytes
      <3>2. QED
        BY <2>2, <2>4, <3>1 DEF HowManyBytesNeeded
    <2>6. HowManyBytesNeeded(cur)' = (IF reader'[cur] = "HeaderNotRead" THEN HeaderSize
                                      ELSE HeaderSize + msgLen'[cur]) - rx'[cur]
      BY <2>2 DEF HowManyBytesNeeded
    <2>7. Data'
      <3>1. InterestMatchesState' /\ TablesConsistent' /\ NoLeak'
        BY <1>t, <2>2 DEF Data, InterestMatchesState, TablesConsistent, NoLeak
      <3>2. \A p \in Conns \ {cur} : HowManyBytesNeeded(p)' =
              (IF reader[p] = "HeaderNotRead" THEN HeaderSize ELSE HeaderSize + msgLen[p]) - rx[p]
        BY <2>2, <2>4 DEF HowManyBytesNeeded
      <3>3. ProgressFitsState'
        BY <1>t, <2>2, <2>3, <2>4, <2>5, <3>2 DEF Data, ProgressFitsState, HowManyBytesNeeded
      <3>4. QED
        BY <3>1, <3>3 DEF Data
    <2>8. QED
      BY <1>t, <2>2, <2>3, <2>7, InvUpdate
  <1>7. CASE RecvRejected
    <2>1. PICK n \in 1..MaxIn, s \in {"BodyValidated", "ParseError"}, m \in MsgLengths \cup {0} :
            /\ RecvBytes(n, s, m)
            /\ CloseConnection(cur)
            /\ UNCHANGED cstate \/ cstate' = [cstate EXCEPT ![cur] = "Transmitting"]
      BY <1>7 DEF RecvRejected
    <2>2. pc = "recv" /\ pc' = "sweep" /\ UNCHANGED <<mpc, pool, idHashTable, tx>>
      BY <1>7, <2>1 DEF RecvRejected, RecvBytes, mainVars
    <2>3. {cur} \in SUBSET Conns /\ \A o \in {cur} : sock[o] # None
      BY <1>t, <2>2 DEF IInv, SubjectIsLive, TypeOK
    <2>4. \A p \in Conns \ {cur} :
            /\ cstate'[p] = cstate[p] /\ reader'[p] = reader[p]
            /\ rx'[p] = rx[p] /\ msgLen'[p] = msgLen[p] /\ tx'[p] = tx[p]
      BY <1>t, <2>1, <2>2 DEF RecvBytes, TypeOK
    <2>5. QED
      BY <1>t, <2>1, <2>2, <2>3, <2>4, InvClose DEF CloseConnection
  <1>8. CASE RecvRequest
    <2>1. PICK n \in 1..MaxIn, m \in MsgLengths \cup {0} : RecvBytes(n, "BodyValidated", m)
      BY <1>8 DEF RecvRequest
    <2>2. /\ UNCHANGED <<mpc, cur, table, pool, free, idHashTable, sock, tx, open>>
          /\ pc = "recv" /\ pc' = "send"
          /\ cstate' = [cstate EXCEPT ![cur] = "Transmitting"]
          /\ interest' = ChangeEventSet(cur, "write")
      BY <1>8, <2>1 DEF RecvRequest, RecvBytes, mainVars, listVars, poolVars
    <2>3. cur \in Conns /\ sock[cur] # None /\ sock[cur] \in Fds /\ tx[cur] = 0
      BY <1>t, <2>2 DEF IInv, SubjectIsLive, TypeOK, Data, ProgressFitsState
    <2>4. /\ cstate'[cur] = "Transmitting" /\ reader'[cur] = "BodyValidated" /\ tx'[cur] < RespSize
          /\ \A p \in Conns \ {cur} :
               /\ cstate'[p] = cstate[p] /\ reader'[p] = reader[p]
               /\ rx'[p] = rx[p] /\ msgLen'[p] = msgLen[p] /\ tx'[p] = tx[p]
      BY <1>t, <2>1, <2>2, <2>3, TcpAssumption DEF TcpAssumption, RecvBytes, TypeOK
    <2>5. interest'[sock[cur]] = "write" /\ \A fd \in Fds \ {sock[cur]} : interest'[fd] = interest[fd]
      BY <1>t, <2>2, <2>3 DEF ChangeEventSet, TypeOK
    <2>6. Data'
      BY <1>t, <2>2, <2>3, <2>4, <2>5, UpdateKeepsData
    <2>7. QED
      BY <1>t, <2>2, <2>3, <2>4, <2>6, InvUpdate
  <1>9. CASE SendMore
    <2>1. PICK n \in 1..MaxRoom : SendBytes(n) /\ tx[cur] + n < RespSize
                                  /\ tx' = [tx EXCEPT ![cur] = @ + n]
      BY <1>9 DEF SendMore
    <2>2. /\ UNCHANGED <<mpc, pc, cur, table, pool, free, idHashTable, sock, cstate, reader, rx,
                         msgLen, open, interest>>
          /\ pc = "send"
      BY <1>9, <2>1 DEF SendMore, SendBytes, mainVars, threadVars, listVars, poolVars
    <2>3. cur \in Conns /\ sock[cur] # None /\ cstate[cur] = "Transmitting"
          /\ reader[cur] = "BodyValidated" /\ interest[sock[cur]] = "write"
      BY <1>t, <2>2 DEF IInv, SubjectIsLive, TypeOK, Data, ProgressFitsState, InterestMatchesState
    <2>4. tx'[cur] < RespSize /\ \A p \in Conns \ {cur} : tx'[p] = tx[p]
      BY <1>t, <2>1, <2>3 DEF TypeOK
    <2>5. Data'
      BY <1>t, <2>2, <2>3, <2>4, UpdateKeepsData
    <2>6. QED
      BY <1>t, <2>2, <2>3, <2>5, InvUpdate
  <1>10. CASE SendDone
    <2>1. /\ UNCHANGED <<mpc, cur, table, pool, free, idHashTable, sock, open>>
          /\ pc = "send" /\ pc' = "sweep" /\ PrepareForRequest(cur)
          /\ interest' = ChangeEventSet(cur, "read")
      BY <1>10 DEF SendDone, SendBytes, mainVars, listVars, poolVars
    <2>2. cur \in Conns /\ sock[cur] # None /\ sock[cur] \in Fds
      BY <1>t, <2>1 DEF IInv, SubjectIsLive, TypeOK
    <2>3. /\ cstate'[cur] = "Receiving" /\ tx'[cur] = 0 /\ reader'[cur] = "HeaderNotRead"
          /\ HowManyBytesNeeded(cur)' > 0
          /\ \A p \in Conns \ {cur} :
               /\ cstate'[p] = cstate[p] /\ reader'[p] = reader[p]
               /\ rx'[p] = rx[p] /\ msgLen'[p] = msgLen[p] /\ tx'[p] = tx[p]
      <3>1. HowManyBytesNeeded(cur)' = HeaderSize - 0
        BY <1>t, <2>1, <2>2 DEF HowManyBytesNeeded, PrepareForRequest, TypeOK
      <3>2. QED
        BY <1>t, <2>1, <2>2, <3>1, PreparedProgress, TcpAssumption DEF TcpAssumption
    <2>4. interest'[sock[cur]] = "read" /\ \A fd \in Fds \ {sock[cur]} : interest'[fd] = interest[fd]
      BY <1>t, <2>1, <2>2 DEF ChangeEventSet, TypeOK
    <2>5. Data'
      <3>1. HowManyBytesNeeded(cur)' > 0
        BY <2>3
      <3>2. QED
        BY <1>t, <2>1, <2>2, <2>3, <2>4, <3>1, UpdateKeepsData DEF HowManyBytesNeeded
    <2>6. QED
      BY <1>t, <2>1, <2>5, InvUpdate
  <1>11. CASE SendDoneFault
    <2>1. /\ pc = "send" /\ pc' = "sweep" /\ CloseConnections({cur}) /\ PrepareForRequest(cur)
          /\ UNCHANGED <<mpc, pool, idHashTable>>
      BY <1>11 DEF SendDoneFault, SendBytes, CloseConnection, mainVars
    <2>2. cur \in Conns /\ {cur} \in SUBSET Conns /\ \A o \in {cur} : sock[o] # None
      BY <1>t, <2>1 DEF IInv, SubjectIsLive, TypeOK
    <2>3. \A p \in Conns \ {cur} :
            /\ cstate'[p] = cstate[p] /\ reader'[p] = reader[p]
            /\ rx'[p] = rx[p] /\ msgLen'[p] = msgLen[p] /\ tx'[p] = tx[p]
      BY <1>t, <2>1, <2>2 DEF PrepareForRequest, TypeOK
    <2>4. QED
      BY <1>t, <2>1, <2>2, <2>3, InvClose
  <1>12. CASE SweepDeadConnections
    <2>1. /\ pc = "sweep" /\ pc' = "top" /\ CloseConnections(ConnsIn(oldList))
          /\ UNCHANGED <<mpc, pool, idHashTable, cstate, reader, rx, msgLen, tx>>
      BY <1>12 DEF SweepDeadConnections, mainVars
    <2>2. ConnsIn(oldList) \in SUBSET Conns /\ \A o \in ConnsIn(oldList) : sock[o] # None
      BY <1>t, OldListType, TrackedHaveSockets DEF TypeOK
    <2>3. QED
      BY <1>t, <2>1, <2>2, InvClose
  <1>13. CASE ThreadCleanup
    <2>1. /\ pc = "cleanup" /\ pc' = "done" /\ CloseConnections(ConnectionsToCleanUp)
          /\ UNCHANGED <<mpc, pool, idHashTable, cstate, reader, rx, msgLen, tx>>
      BY <1>13 DEF ThreadCleanup, mainVars
    <2>2. /\ ConnectionsToCleanUp \in SUBSET Conns
          /\ \A o \in ConnectionsToCleanUp : sock[o] # None
      BY <1>t, OldListType, TrackedHaveSockets DEF ConnectionsToCleanUp, TypeOK
    <2>3. open' = {}
      <3> SUFFICES ASSUME NEW fd \in open PROVE fd \in {sock[o] : o \in ConnectionsToCleanUp}
        BY <2>1 DEF CloseConnections
      <3>1. PICK o \in Conns : sock[o] = fd /\ fd # None
        BY <1>t DEF Data, NoLeak
      <3>2. fd \in Fds /\ idHashTable[o] \in {1, 2} /\ table[idHashTable[o]][fd] = o
        BY <1>t, <3>1 DEF Data, TablesConsistent, TypeOK
      <3>3. o \in ConnsIn(idHashTable[o])
        BY <3>2, TcpAssumption DEF TcpAssumption, ConnsIn
      <3>4. idHashTable[o] \in {newList, oldList}
        BY <1>t, <3>2, OldListType DEF TypeOK
      <3>5. QED
        BY <3>1, <3>3, <3>4 DEF ConnectionsToCleanUp
    <2>4. QED
      BY <1>t, <2>1, <2>2, <2>3, InvClose
  <1>14. QED
    BY <1>1, <1>2, <1>3, <1>4, <1>5, <1>6, <1>7, <1>8, <1>9, <1>10, <1>11, <1>12, <1>13
    DEF ThreadNext

LEMMA Invariance == Spec => []IInv
  <1>1. IInv /\ [Next]_vars => IInv'
    <2> SUFFICES ASSUME IInv, [Next]_vars PROVE IInv'
      OBVIOUS
    <2>1. CASE Next
      BY <2>1, InvMain, InvThread, InvEnv DEF Next
    <2>2. CASE UNCHANGED vars
      <3>1. TypeOK'
        BY <2>2 DEF vars, mainVars, threadVars, listVars, poolVars, connVars, listenVars,
           sockVars, IInv, TypeOK
      <3>2. Data'
        BY <2>2, DataFrame DEF vars, poolVars, sockVars, IInv
      <3>3. SubjectIsLive' /\ CleanShutdown'
        BY <2>2 DEF vars, mainVars, threadVars, listVars, poolVars, connVars, sockVars, IInv,
           SubjectIsLive, CleanShutdown, Tracked, ConnsIn
      <3>4. QED
        BY <3>1, <3>2, <3>3 DEF IInv
    <2>3. QED
      BY <2>1, <2>2
  <1>2. QED
    BY <1>1, InvInit, PTL DEF Spec

\* The two connection lists, the connection objects and their sockets agree
\* in every reachable state: what CloseConnection and ProcessConnectionEvent
\* rely on.
THEOREM TablesTheorem == Spec => []TablesConsistent
  BY Invariance, PTL DEF IInv, Data

\* No sequence of accepts, failures, closes, sweeps, stops and restarts leaks a
\* client socket or a pooled connection object.
THEOREM NoLeakTheorem == Spec => []NoLeak
  BY Invariance, PTL DEF IInv, Data

\* A tracked connection always waits for the event that its state needs.
THEOREM InterestTheorem == Spec => []InterestMatchesState
  BY Invariance, PTL DEF IInv, Data

\* The assertions at the top of the receive and of the send loop hold.
THEOREM ProgressTheorem == Spec => []ProgressFitsState
  BY Invariance, PTL DEF IInv, Data

\* The loops only ever work on a tracked connection, in the right state.
THEOREM SubjectTheorem == Spec => []SubjectIsLive
  BY Invariance, PTL DEF IInv

\* A thread that has ended, or not begun, holds no connection.
THEOREM ShutdownTheorem == Spec => []CleanShutdown
  BY Invariance, PTL DEF IInv

-----------------------------------------------------------------------------
(* The sweep.  A connection in the old list is at least as old as the last *)
(* sweep, which moved it there.                                            *)

OldListAge == \A o \in ConnsIn(oldList) : age[o] >= sinceSweep

LEMMA AgeStep == IInv /\ IInv' /\ OldListAge /\ [Next]_vars => OldListAge'
  <1> SUFFICES ASSUME IInv, IInv', OldListAge, [Next]_vars PROVE OldListAge'
    OBVIOUS
  <1>t. TypeOK /\ Data /\ TypeOK' /\ newList \in {1, 2} /\ oldList \in {1, 2} /\ oldList # newList
    BY OldListType DEF IInv, TypeOK
  \* Fewer old connections, the same ages, the same or a smaller clock.
  <1>s. ASSUME UNCHANGED <<newList, age>>, sinceSweep' \in {0, sinceSweep},
               \A fd \in Fds : table'[oldList][fd] \in {None, table[oldList][fd]}
        PROVE  OldListAge'
    <2> SUFFICES ASSUME NEW o \in ConnsIn(oldList)' PROVE age'[o] >= sinceSweep'
      BY DEF OldListAge
    <2>1. oldList' = oldList
      BY <1>s DEF oldList
    <2>2. PICK fd \in Fds : o = table'[oldList][fd] /\ o # None
      BY <2>1 DEF ConnsIn
    <2>3. o = table[oldList][fd] /\ o \in Conns
      BY <1>s, <1>t, <2>2 DEF TypeOK
    <2>4. o \in ConnsIn(oldList)
      BY <2>2, <2>3 DEF ConnsIn
    <2>5. age[o] >= sinceSweep
      BY <2>4 DEF OldListAge
    <2>6. age[o] \in 0..SweepTimeout
      BY <1>t, <2>3 DEF TypeOK
    <2>7. QED
      BY <1>s, <2>5, <2>6, TcpAssumption DEF TcpAssumption
  <1>1. CASE UNCHANGED vars
    BY <1>1, <1>s DEF vars, listVars, poolVars
  <1>2. CASE ThreadInit \/ Start \/ StopSetFlag \/ NotifyThreadViaPipe
    BY <1>2, <1>s DEF ThreadInit, Start, StopSetFlag, NotifyThreadViaPipe, listVars, poolVars
  <1>3. CASE StopReset
    <2>1. \A i \in {1, 2}, fd \in Fds : table'[i][fd] = None
      BY <1>3 DEF StopReset, Reset
    <2>2. oldList' \in {1, 2}
      BY <1>3 DEF StopReset, Reset, oldList
    <2>3. QED
      BY <2>1, <2>2 DEF OldListAge, ConnsIn
  <1>4. CASE Tick
    <2>1. UNCHANGED <<table, newList>>
      BY <1>4 DEF Tick, EnvUnchanged, listVars
    <2>2. ConnsIn(oldList)' = ConnsIn(oldList)
      BY <2>1 DEF ConnsIn, oldList
    <2> SUFFICES ASSUME NEW o \in ConnsIn(oldList) PROVE age'[o] >= sinceSweep'
      BY <2>2 DEF OldListAge
    <2>3. o \in Conns /\ age[o] >= sinceSweep /\ age[o] \in 0..SweepTimeout
          /\ sinceSweep \in 0..SweepTimeout
      BY <1>t, TrackedHaveSockets DEF OldListAge, TypeOK
    <2>4. QED
      BY <1>4, <2>3, TcpAssumption DEF TcpAssumption, Tick
  <1>5. CASE EnvNext /\ ~Tick
    BY <1>5, <1>s DEF EnvNext, Connect, Abandon, PeerSend, PeerRead, PeerShut, PeerReset,
       EnvUnchanged, listVars
  <1>6. CASE RunStart \/ LoopExit \/ LoopTop \/ WaitTimeout \/ AcceptFails \/ AcceptRefused
             \/ RecvWouldBlock \/ SendWouldBlock \/ SweepNotDue
    BY <1>6, <1>s DEF RunStart, LoopExit, LoopTop, WaitTimeout, AcceptFails, AcceptRefused,
       RecvWouldBlock, SendWouldBlock, SweepNotDue, listVars, poolVars
  <1>7. CASE RecvMore \/ RecvRequest \/ SendMore \/ SendDone
    BY <1>7, <1>s DEF RecvMore, RecvRequest, SendMore, SendDone, listVars, poolVars
  <1>8. CASE \E e \in Listeners \cup Fds \cup {Pipe} : WaitForNextEvent(e)
    BY <1>8, <1>s DEF WaitForNextEvent, listVars, poolVars
  <1>9. ASSUME NEW S, CloseConnections(S), UNCHANGED <<newList, age, sinceSweep>>
        PROVE  OldListAge'
    <2>1. \A fd \in Fds : table'[oldList][fd] \in {None, table[oldList][fd]}
      BY <1>9, <1>t DEF CloseConnections, RemoveFromTables
    <2>2. QED
      BY <1>9, <2>1, <1>s
  <1>10. CASE RecvDead \/ RecvRejected \/ SendDead \/ SendDoneFault \/ ThreadCleanup
    BY <1>10, <1>9 DEF RecvDead, RecvRejected, SendDead, SendDoneFault, ThreadCleanup, CloseConnection
  <1>11. CASE SweepDeadConnections
    <2>1. sinceSweep' = 0 /\ newList' = oldList /\ UNCHANGED age
      BY <1>11 DEF SweepDeadConnections
    <2>2. \A o \in Conns : age'[o] >= 0
      BY <1>t, <2>1 DEF TypeOK
    <2>3. ConnsIn(oldList)' \subseteq Conns
      <3>1. oldList' \in {1, 2}
        BY <1>t, <2>1 DEF oldList
      <3>2. QED
        BY <1>t, <3>1 DEF ConnsIn, TypeOK
    <2>4. QED
      BY <2>1, <2>2, <2>3 DEF OldListAge
  \* The object that accept takes from the pool is in neither list.
  <1>12. ASSUME NEW o \in Conns, o \in free \cup (Conns \ pool), UNCHANGED <<newList, sinceSweep>>,
                age' = [age EXCEPT ![o] = 0],
                \A fd \in Fds : table'[oldList][fd] = table[oldList][fd]
         PROVE  OldListAge'
    <2>1. sock[o] = None
      BY <1>12, <1>t DEF Data, NoLeak
    <2>2. oldList' = oldList /\ ConnsIn(oldList)' = ConnsIn(oldList)
      BY <1>12 DEF oldList, ConnsIn
    <2> SUFFICES ASSUME NEW p \in ConnsIn(oldList) PROVE age'[p] >= sinceSweep'
      BY <2>2 DEF OldListAge
    <2>3. p \in Conns /\ p # o /\ age[p] >= sinceSweep
      BY <1>t, <2>1, TrackedHaveSockets DEF OldListAge
    <2>4. QED
      BY <1>12, <1>t, <2>3 DEF TypeOK
  <1>13. CASE AcceptUndone
    <2>1. PICK G \in GrowIfEmpty : \E o \in free \cup G : age' = [age EXCEPT ![o] = 0]
      BY <1>13 DEF AcceptUndone
    <2>2. G \subseteq Conns \ pool /\ free \subseteq Conns
      BY <1>t DEF GrowIfEmpty, Grow, TypeOK
    <2>3. QED
      BY <1>12, <1>13, <2>1, <2>2 DEF AcceptUndone, listVars
  <1>14. CASE AcceptConnection
    <2>1. PICK fd \in Fds, o \in Conns : GetConnection(o, fd) /\ table' = [table EXCEPT ![newList][fd] = o]
      BY <1>14 DEF AcceptConnection
    <2>2. o \in free \cup (Conns \ pool) /\ age' = [age EXCEPT ![o] = 0]
      BY <2>1 DEF GetConnection, GrowIfEmpty, Grow
    <2>3. \A f \in Fds : table'[oldList][f] = table[oldList][f]
      BY <1>t, <2>1 DEF TypeOK
    <2>4. UNCHANGED <<newList, sinceSweep>>
      BY <1>14 DEF AcceptConnection
    <2>5. QED
      BY <1>12, <2>2, <2>3, <2>4
  <1>15. QED
    BY <1>1, <1>2, <1>3, <1>4, <1>5, <1>6, <1>7, <1>8, <1>10, <1>11, <1>13, <1>14
    DEF Next, MainNext, ThreadNext

\* However passes, ticks and list swaps interleave, a sweep closes only
\* connections that have existed for the whole timeout.
THEOREM SweepTheorem == Spec => SweepSparesYoung
  <1>1. Init => OldListAge
    BY DEF Init, OldListAge, ConnsIn, oldList
  <1>2. IInv /\ OldListAge /\ [Next]_vars =>
          [pc = "sweep" => \A o \in Tracked : sock'[o] = None => age[o] >= SweepTimeout]_vars
    <2> SUFFICES ASSUME IInv, OldListAge, Next, pc = "sweep", NEW o \in Tracked, sock'[o] = None
        PROVE  age[o] >= SweepTimeout
      OBVIOUS
    <2>1. o \in Conns /\ sock[o] # None
      BY TrackedHaveSockets DEF IInv, Tracked
    <2>2. sock' # sock
      BY <2>1
    <2>3. CASE SweepDeadConnections
      <3>1. o \in ConnsIn(oldList)
        <4>1. CloseConnections(ConnsIn(oldList))
          BY <2>3 DEF SweepDeadConnections
        <4>2. QED
          BY <2>1, <4>1 DEF CloseConnections
      <3>2. sinceSweep >= SweepTimeout /\ sinceSweep \in Nat /\ age[o] \in Nat /\ age[o] >= sinceSweep
        BY <2>1, <2>3, <3>1 DEF SweepDeadConnections, SweepIsDue, OldListAge, IInv, TypeOK
      <3>3. QED
        BY <3>2, TcpAssumption DEF TcpAssumption
    <2>4. CASE ~SweepDeadConnections
      <3>1. CASE MainNext
        BY <2>2, <3>1 DEF MainNext, ThreadInit, Start, StopSetFlag, NotifyThreadViaPipe,
           StopReset, connVars
      <3>2. CASE EnvNext
        BY <2>2, <3>2 DEF EnvNext, Connect, Abandon, PeerSend, PeerRead, PeerShut, PeerReset,
           Tick, EnvUnchanged, connVars
      <3>3. CASE ThreadNext
        BY <2>2, <2>4, <3>3 DEF ThreadNext, RunStart, LoopExit, LoopTop, WaitForNextEvent,
           WaitTimeout, AcceptFails, AcceptRefused, AcceptUndone, AcceptConnection,
           TakeFromBacklog, RecvWouldBlock, RecvDead, RecvMore, RecvRejected, RecvRequest,
           RecvBytes, SendWouldBlock, SendDead, SendMore, SendDone, SendDoneFault, SendBytes,
           SweepNotDue, ThreadCleanup, connVars
      <3>4. QED
        BY <3>1, <3>2, <3>3 DEF Next
    <2>5. QED
      BY <2>3, <2>4
  <1>3. QED
    BY <1>1, <1>2, AgeStep, Invariance, PTL DEF Spec, SweepSparesYoung

-----------------------------------------------------------------------------
(* The limit on connections.  The thread listens in a wait only if it      *)
(* found room at the top of the pass; the events of one epoll_wait may     *)
(* name every listening socket, and each accept uses up one of them.       *)

Used(i) == {fd \in Fds : table[i][fd] # None}

LimitInv ==
    /\ \A i \in {1, 2} : IsFiniteSet(Used(i))
    /\ ~PollFaults =>
         /\ listenReg = IF fListenSocketsOnEpoll THEN Listeners ELSE {}
         /\ pc = "wait" /\ fListenSocketsOnEpoll => Size(1) + Size(2) < MaxConnections
    /\ SoftConnectionLimit

LEMMA ListenersFinite ==
  /\ IsFiniteSet(Listeners) /\ Cardinality(Listeners) \in Nat
  /\ Cardinality(Listeners) >= 1
  <1>1. IsFiniteSet(Listeners)
    <2>1. IsFiniteSet(0..3)
      <3>1. 0 \in Int /\ 3 \in Int
        OBVIOUS
      <3>2. QED
        BY <3>1, FS_Interval, Zenon
    <2>2. Listeners \in SUBSET (0..3)
      BY TcpAssumption DEF TcpAssumption
    <2>3. QED
      BY <2>1, <2>2, FS_Subset
  <1>2. Cardinality(Listeners) \in Nat /\ Cardinality(Listeners) # 0
    BY <1>1, FS_CardinalityType, FS_EmptySet, TcpAssumption DEF TcpAssumption
  <1>3. QED
    BY <1>1, <1>2

\* The terms of the limit are numbers, and a listening socket taken from a
\* set of events lowers the accepts that are due by one.
LEMMA DueFinite ==
  ASSUME NEW E
  PROVE  /\ IsFiniteSet(E \cap Listeners) /\ Cardinality(E \cap Listeners) \in Nat
         /\ Cardinality(E \cap Listeners) <= Cardinality(Listeners)
         /\ \A e : Cardinality((E \ {e}) \cap Listeners) =
                     IF e \in E \cap Listeners THEN Cardinality(E \cap Listeners) - 1
                     ELSE Cardinality(E \cap Listeners)
  <1>1. /\ IsFiniteSet(E \cap Listeners) /\ Cardinality(E \cap Listeners) \in Nat
        /\ Cardinality(E \cap Listeners) <= Cardinality(Listeners)
    BY ListenersFinite, FS_Subset, FS_CardinalityType, E \cap Listeners \in SUBSET Listeners
  <1>2. ASSUME NEW e
        PROVE  Cardinality((E \ {e}) \cap Listeners) =
                 IF e \in E \cap Listeners THEN Cardinality(E \cap Listeners) - 1
                 ELSE Cardinality(E \cap Listeners)
    <2>1. (E \ {e}) \cap Listeners = (E \cap Listeners) \ {e}
      OBVIOUS
    <2>2. QED
      BY <1>1, <2>1, FS_RemoveElement
  <1>3. QED
    BY <1>1, <1>2

LEMMA SizeType ==
  (\A i \in {1, 2} : IsFiniteSet(Used(i))) => Size(1) \in Nat /\ Size(2) \in Nat
  BY FS_CardinalityType DEF Size, Used

\* Fewer connections in a list are a smaller number of them.
LEMMA SizeShrinks ==
  ASSUME \A i \in {1, 2} : IsFiniteSet(Used(i)), \A i \in {1, 2} : Used(i)' \subseteq Used(i)
  PROVE  /\ \A i \in {1, 2} : IsFiniteSet(Used(i)')
         /\ Size(1)' \in Nat /\ Size(2)' \in Nat
         /\ Size(1)' <= Size(1) /\ Size(2)' <= Size(2)
  <1>1. ASSUME NEW i \in {1, 2}
        PROVE  /\ IsFiniteSet(Used(i)') /\ Cardinality(Used(i)') \in Nat
               /\ Cardinality(Used(i)') <= Cardinality(Used(i))
    <2>1. IsFiniteSet(Used(i)) /\ Used(i)' \in SUBSET Used(i)
      OBVIOUS
    <2>2. QED
      BY <2>1, FS_Subset, FS_CardinalityType
  <1>2. \A i \in {1, 2} : Size(i) = Cardinality(Used(i)) /\ Size(i)' = Cardinality(Used(i)')
    BY DEF Size, Used
  <1>3. QED
    BY <1>1, <1>2

\* A step that tracks no new connection, takes no event and begins no wait
\* keeps the limit.
LEMMA LimitKept ==
  ASSUME LimitInv, UNCHANGED <<events, fListenSocketsOnEpoll, listenReg>>,
         \A i \in {1, 2} : Used(i)' \subseteq Used(i),
         pc' = pc \/ pc' \notin {"wait", "accept"}
  PROVE  LimitInv'
  <1>1. /\ \A i \in {1, 2} : IsFiniteSet(Used(i)')
        /\ Size(1)' \in Nat /\ Size(2)' \in Nat
        /\ Size(1)' <= Size(1) /\ Size(2)' <= Size(2)
        /\ Size(1) \in Nat /\ Size(2) \in Nat
    BY SizeShrinks, SizeType DEF LimitInv
  <1>2. (\A i \in {1, 2} : IsFiniteSet(Used(i)))'
    BY <1>1
  <1>3. ASSUME ~PollFaults
        PROVE  /\ listenReg' = IF fListenSocketsOnEpoll' THEN Listeners ELSE {}
               /\ pc' = "wait" /\ fListenSocketsOnEpoll' => Size(1)' + Size(2)' < MaxConnections
    <2>1. listenReg' = IF fListenSocketsOnEpoll' THEN Listeners ELSE {}
      BY <1>3, Zenon DEF LimitInv
    <2>2. ASSUME pc' = "wait", fListenSocketsOnEpoll'
          PROVE  Size(1)' + Size(2)' < MaxConnections
      <3>1. Size(1) + Size(2) < MaxConnections
        BY <1>3, <2>2 DEF LimitInv
      <3>2. QED
        BY <1>1, <3>1, TcpAssumption DEF TcpAssumption
    <2>3. QED
      BY <2>1, <2>2
  <1>4. SoftConnectionLimit'
    <2>1. Cardinality(events \cap Listeners) \in Nat /\ Cardinality(Listeners) \in Nat
      BY DueFinite, ListenersFinite
    <2>2. ~PollFaults =>
            Size(1)' + Size(2)' + Cardinality(events \cap Listeners)
                + (IF pc' = "accept" THEN 1 ELSE 0)
              <= MaxConnections + Cardinality(Listeners) - 1
      BY <1>1, <2>1, TcpAssumption DEF TcpAssumption, LimitInv, SoftConnectionLimit
    <2>3. QED
      BY <2>2 DEF SoftConnectionLimit
  <1>5. QED
    BY <1>2, <1>3, <1>4 DEF LimitInv

\* The top of a pass: epoll ends up listening exactly if there is room.
LEMMA LimitLoopTop ==
  ASSUME TypeOK, LimitInv, LoopTop PROVE LimitInv'
  <1>1. /\ pc' = "wait" /\ UNCHANGED <<table, newList, events>>
        /\ SetListenSocketsOnEpoll(~IsConnectionCountAtMax)
    BY DEF LoopTop, listVars
  <1>2. Used(1)' = Used(1) /\ Used(2)' = Used(2) /\ Size(1)' = Size(1) /\ Size(2)' = Size(2)
    BY <1>1 DEF Used, Size
  <1>3. (\A i \in {1, 2} : IsFiniteSet(Used(i)))'
    BY <1>2 DEF LimitInv
  <1>4. ASSUME ~PollFaults
        PROVE  /\ listenReg' = IF fListenSocketsOnEpoll' THEN Listeners ELSE {}
               /\ fListenSocketsOnEpoll' <=> ~IsConnectionCountAtMax
    <2>1. listenReg = IF fListenSocketsOnEpoll THEN Listeners ELSE {}
      BY <1>4, Zenon DEF LimitInv
    <2>2. fListenSocketsOnEpoll \in BOOLEAN
      BY Zenon DEF TypeOK
    <2>3. ASSUME NEW b \in BOOLEAN, SetListenSocketsOnEpoll(b)
          PROVE  /\ listenReg' = IF fListenSocketsOnEpoll' THEN Listeners ELSE {}
                 /\ fListenSocketsOnEpoll' = b
      <3>1. CASE b = fListenSocketsOnEpoll
        <4>1. UNCHANGED listenVars
          BY <2>3, <3>1, Zenon DEF SetListenSocketsOnEpoll
        <4>2. UNCHANGED fListenSocketsOnEpoll /\ UNCHANGED listenReg
          BY <4>1, Zenon DEF listenVars
        <4>3. QED
          BY <2>1, <3>1, <4>2, Zenon
      <3>2. CASE b # fListenSocketsOnEpoll
        <4>1. CASE b = TRUE
          <5>1. listenReg = {} /\ fListenSocketsOnEpoll = FALSE
            BY <2>1, <2>2, <3>2, <4>1
          <5>2. \A l \in Listeners : ~((l \in listenReg) = b)
            BY <4>1, <5>1
          <5>3. listenReg' = listenReg \cup Listeners /\ fListenSocketsOnEpoll' = b
            BY <1>4, <2>3, <3>2, <4>1, <5>2 DEF SetListenSocketsOnEpoll
          <5>4. QED
            BY <4>1, <5>1, <5>3
        <4>2. CASE b = FALSE
          <5>1. listenReg = Listeners
            BY <2>1, <2>2, <3>2, <4>2
          <5>2. \A l \in Listeners : ~((l \in listenReg) = b)
            BY <4>2, <5>1
          <5>3. listenReg' = listenReg \ Listeners /\ fListenSocketsOnEpoll' = b
            BY <1>4, <2>3, <3>2, <4>2, <5>2 DEF SetListenSocketsOnEpoll
          <5>4. QED
            BY <4>2, <5>1, <5>3
        <4>3. QED
          BY <4>1, <4>2
      <3>3. QED
        BY <3>1, <3>2
    <2>4. (~IsConnectionCountAtMax) \in BOOLEAN
      BY DEF IsConnectionCountAtMax
    <2>5. QED
      BY <1>1, <2>3, <2>4, Zenon
  <1>5. Size(1) + Size(2) = Size(newList) + Size(oldList)
    BY SizeType DEF TypeOK, oldList, LimitInv
  <1>6. /\ Size(1) \in Nat /\ Size(2) \in Nat
        /\ IsConnectionCountAtMax <=> Size(1) + Size(2) >= MaxConnections
    BY <1>5, SizeType DEF IsConnectionCountAtMax, LimitInv
  <1>7. ASSUME ~PollFaults
        PROVE  /\ listenReg' = IF fListenSocketsOnEpoll' THEN Listeners ELSE {}
               /\ pc' = "wait" /\ fListenSocketsOnEpoll' => Size(1)' + Size(2)' < MaxConnections
    <2>1. fListenSocketsOnEpoll' => Size(1)' + Size(2)' < MaxConnections
      BY <1>2, <1>4, <1>6, <1>7, TcpAssumption DEF TcpAssumption
    <2>2. QED
      BY <1>4, <1>7, <2>1, Zenon
  <1>8. SoftConnectionLimit'
    <2>1. ~PollFaults =>
            Size(1)' + Size(2)' + Cardinality(events \cap Listeners)
                + (IF pc' = "accept" THEN 1 ELSE 0)
              <= MaxConnections + Cardinality(Listeners) - 1
      <3>1. pc = "top"
        BY DEF LoopTop
      <3>2. QED
        BY <1>1, <1>2, <3>1 DEF LimitInv, SoftConnectionLimit
    <2>2. QED
      BY <1>1, <2>1 DEF SoftConnectionLimit
  <1>9. QED
    BY <1>3, <1>7, <1>8 DEF LimitInv

\* An event leaves the queue for its handler, or epoll_wait refills the queue.
LEMMA LimitWait ==
  ASSUME TypeOK, LimitInv, NEW e \in Listeners \cup Fds \cup {Pipe}, WaitForNextEvent(e)
  PROVE  LimitInv'
  <1>1. /\ pc = "wait" /\ e \in NextEvents /\ events' = NextEvents \ {e}
        /\ UNCHANGED <<table, fListenSocketsOnEpoll, listenReg>>
        /\ pc' # "wait" /\ (pc' = "accept" => e \in Listeners)
    <2>1. pc' = "accept" => e \in Listeners
      BY DEF WaitForNextEvent, HandlerFor
    <2>2. pc' # "wait"
      BY DEF WaitForNextEvent, HandlerFor
    <2>3. QED
      BY <2>1, <2>2 DEF WaitForNextEvent, listVars, listenVars
  <1>2. Used(1)' = Used(1) /\ Used(2)' = Used(2) /\ Size(1)' = Size(1) /\ Size(2)' = Size(2)
    BY <1>1 DEF Used, Size
  <1>3. (\A i \in {1, 2} : IsFiniteSet(Used(i)))'
    BY <1>2 DEF LimitInv
  <1>4. Size(1) \in Nat /\ Size(2) \in Nat
    BY SizeType DEF LimitInv
  <1>5. ASSUME ~PollFaults
        PROVE  listenReg' = IF fListenSocketsOnEpoll' THEN Listeners ELSE {}
    BY <1>1, <1>5, Zenon DEF LimitInv
  <1>6. ASSUME ~PollFaults
        PROVE  Size(1) + Size(2) + Cardinality(NextEvents \cap Listeners)
                 <= MaxConnections + Cardinality(Listeners) - 1
    <2>1. CASE events # {}
      <3>1. NextEvents = events /\ pc # "accept"
        BY <1>1, <2>1 DEF NextEvents
      <3>2. Cardinality(events \cap Listeners) \in Nat
        BY DueFinite
      <3>3. QED
        BY <1>4, <1>6, <3>1, <3>2 DEF LimitInv, SoftConnectionLimit
    <2>2. CASE events = {}
      <3>1. NextEvents \cap Listeners \subseteq listenReg
        BY <2>2, TcpAssumption DEF NextEvents, Ready, PipeEvents, TypeOK, TcpAssumption
      <3>2. CASE fListenSocketsOnEpoll
        <4>1. Size(1) + Size(2) < MaxConnections
          BY <1>1, <1>6, <3>2 DEF LimitInv
        <4>2. /\ Cardinality(NextEvents \cap Listeners) \in Nat
              /\ Cardinality(NextEvents \cap Listeners) <= Cardinality(Listeners)
          BY DueFinite
        <4>3. QED
          BY <1>4, <4>1, <4>2, ListenersFinite, TcpAssumption DEF TcpAssumption
      <3>3. CASE ~fListenSocketsOnEpoll
        <4>1. listenReg = {}
          BY <1>6, <3>3 DEF LimitInv
        <4>2. Cardinality(NextEvents \cap Listeners) = 0
          BY <3>1, <4>1, FS_EmptySet, NextEvents \cap Listeners = {}
        <4>3. Cardinality(events \cap Listeners) = 0
          BY <2>2, FS_EmptySet, events \cap Listeners = {}
        <4>4. Size(1) + Size(2) + 0 + 0 <= MaxConnections + Cardinality(Listeners) - 1
          <5>1. pc # "accept"
            BY <1>1
          <5>2. QED
            BY <1>4, <1>6, <4>3, <5>1, ListenersFinite DEF LimitInv, SoftConnectionLimit
        <4>5. QED
          BY <1>4, <4>2, <4>4
      <3>4. QED
        BY <3>2, <3>3
    <2>3. QED
      BY <2>1, <2>2
  <1>7. ASSUME ~PollFaults
        PROVE  Size(1) + Size(2) + Cardinality((NextEvents \ {e}) \cap Listeners)
                   + (IF pc' = "accept" THEN 1 ELSE 0)
                 <= MaxConnections + Cardinality(Listeners) - 1
    <2> DEFINE n == Cardinality(NextEvents \cap Listeners)
               k == Cardinality((NextEvents \ {e}) \cap Listeners)
    <2>1. n \in Nat /\ k = IF e \in Listeners THEN n - 1 ELSE n
      <3>1. k = IF e \in NextEvents \cap Listeners THEN n - 1 ELSE n
        BY DueFinite
      <3>2. n \in Nat
        BY DueFinite
      <3>3. QED
        BY <1>1, <3>1, <3>2
    <2>2. Size(1) + Size(2) + n <= MaxConnections + Cardinality(Listeners) - 1
      BY <1>6, <1>7
    <2> HIDE DEF n, k
    <2>3. QED
      <3>1. Size(1) + Size(2) + k + (IF pc' = "accept" THEN 1 ELSE 0)
              <= MaxConnections + Cardinality(Listeners) - 1
        BY <1>1, <1>4, <2>1, <2>2, ListenersFinite, TcpAssumption DEF TcpAssumption
      <3>2. QED
        BY <3>1 DEF k
  <1>8. SoftConnectionLimit'
    BY <1>1, <1>2, <1>7 DEF SoftConnectionLimit
  <1>9. ~PollFaults => (pc' = "wait" /\ fListenSocketsOnEpoll' => Size(1)' + Size(2)' < MaxConnections)
    BY <1>1
  <1>10. QED
    BY <1>3, <1>5, <1>8, <1>9 DEF LimitInv

\* An accept turns the event it was called for into one connection.
LEMMA LimitAccept ==
  ASSUME TypeOK, LimitInv, AcceptConnection PROVE LimitInv'
  <1>1. PICK fd \in Fds, o \in Conns : table' = [table EXCEPT ![newList][fd] = o]
    BY DEF AcceptConnection
  <1>2. /\ pc = "accept" /\ pc' \notin {"wait", "accept"}
        /\ UNCHANGED <<events, fListenSocketsOnEpoll, listenReg>>
    BY DEF AcceptConnection, TakeFromBacklog, listenVars
  <1>3. \A i \in {1, 2} : Used(i)' = IF i = newList THEN Used(i) \cup {fd} ELSE Used(i)
    BY <1>1, TcpAssumption DEF Used, TypeOK, TcpAssumption
  <1>4. \A i \in {1, 2} :
          /\ IsFiniteSet(Used(i)')
          /\ Size(i)' \in Nat /\ Size(i) \in Nat
          /\ Size(i)' <= IF i = newList THEN Size(i) + 1 ELSE Size(i)
    <2> SUFFICES ASSUME NEW i \in {1, 2}
                 PROVE  /\ IsFiniteSet(Used(i)')
                        /\ Cardinality(Used(i)') \in Nat /\ Cardinality(Used(i)) \in Nat
                        /\ Cardinality(Used(i)') <=
                             IF i = newList THEN Cardinality(Used(i)) + 1 ELSE Cardinality(Used(i))
      BY DEF Size, Used
    <2>1. IsFiniteSet(Used(i)) /\ Cardinality(Used(i)) \in Nat
      BY FS_CardinalityType DEF LimitInv
    <2>2. CASE i = newList
      <3>1. Used(i)' = Used(i) \cup {fd}
        BY <1>3, <2>2
      <3>2. /\ IsFiniteSet(Used(i) \cup {fd})
            /\ Cardinality(Used(i) \cup {fd}) =
                 IF fd \in Used(i) THEN Cardinality(Used(i)) ELSE Cardinality(Used(i)) + 1
        BY <2>1, FS_AddElement
      <3>3. QED
        BY <2>1, <2>2, <3>1, <3>2
    <2>3. CASE i # newList
      BY <1>3, <2>1, <2>3
    <2>4. QED
      BY <2>2, <2>3
  <1>5. newList \in {1, 2}
    BY DEF TypeOK
  <1>6. Size(1)' + Size(2)' <= Size(1) + Size(2) + 1
    BY <1>4, <1>5
  <1>7. (\A i \in {1, 2} : IsFiniteSet(Used(i)))'
    BY <1>4
  <1>8. SoftConnectionLimit'
    <2>1. Cardinality(events \cap Listeners) \in Nat
      BY DueFinite
    <2>2. ~PollFaults =>
            Size(1)' + Size(2)' + Cardinality(events \cap Listeners)
                + (IF pc' = "accept" THEN 1 ELSE 0)
              <= MaxConnections + Cardinality(Listeners) - 1
      BY <1>2, <1>4, <1>6, <2>1, ListenersFinite, TcpAssumption
      DEF TcpAssumption, LimitInv, SoftConnectionLimit
    <2>3. QED
      BY <1>2, <2>2 DEF SoftConnectionLimit
  <1>9. ~PollFaults => listenReg' = IF fListenSocketsOnEpoll' THEN Listeners ELSE {}
    BY <1>2, Zenon DEF LimitInv
  <1>10. QED
    BY <1>2, <1>7, <1>8, <1>9 DEF LimitInv

LEMMA LimitInit == Init => LimitInv
  <1> SUFFICES ASSUME Init PROVE LimitInv
    OBVIOUS
  <1>1. Used(1) = {} /\ Used(2) = {} /\ events \cap Listeners = {} /\ pc = "none"
    BY DEF Init, Used
  <1>2. \A i \in {1, 2} : IsFiniteSet(Used(i))
    BY <1>1, FS_EmptySet
  <1>3. Size(1) = 0 /\ Size(2) = 0 /\ Cardinality(events \cap Listeners) = 0
    BY <1>1, FS_EmptySet DEF Size, Used
  <1>4. SoftConnectionLimit
    BY <1>1, <1>3, ListenersFinite, TcpAssumption DEF TcpAssumption, SoftConnectionLimit
  <1>5. listenReg = IF fListenSocketsOnEpoll THEN Listeners ELSE {}
    BY Zenon DEF Init
  <1>6. QED
    BY <1>1, <1>2, <1>4, <1>5 DEF LimitInv

\* The main thread initialises and resets an object without connections.
LEMMA LimitMain ==
  ASSUME IInv, LimitInv, MainNext PROVE LimitInv'
  <1>1. CASE ThreadInit
    <2>1. /\ UNCHANGED <<table, events, pc>> /\ pc = "none"
          /\ fListenSocketsOnEpoll' = TRUE /\ listenReg' = Listeners
      BY <1>1 DEF ThreadInit, threadVars, listVars, IInv, CleanShutdown
    <2>2. Used(1)' = Used(1) /\ Used(2)' = Used(2) /\ Size(1)' = Size(1) /\ Size(2)' = Size(2)
      BY <2>1 DEF Used, Size
    <2>3. (\A i \in {1, 2} : IsFiniteSet(Used(i)))'
      BY <2>2 DEF LimitInv
    <2>4. SoftConnectionLimit'
      BY <2>1, <2>2 DEF LimitInv, SoftConnectionLimit
    <2>5. QED
      BY <2>1, <2>3, <2>4 DEF LimitInv
  <1>2. CASE StopReset
    <2>1. /\ pc' = "none" /\ events' = {} /\ fListenSocketsOnEpoll' = FALSE /\ listenReg' = {}
          /\ \A i \in {1, 2}, fd \in Fds : table'[i][fd] = None
      BY <1>2 DEF StopReset, Reset
    <2>2. Used(1)' = {} /\ Used(2)' = {} /\ events' \cap Listeners = {}
      BY <2>1 DEF Used
    <2>3. (\A i \in {1, 2} : IsFiniteSet(Used(i)))'
      BY <2>2, FS_EmptySet
    <2>4. Size(1)' = 0 /\ Size(2)' = 0 /\ Cardinality(events' \cap Listeners) = 0
      BY <2>2, FS_EmptySet DEF Size, Used
    <2>5. SoftConnectionLimit'
      BY <2>1, <2>4, ListenersFinite, TcpAssumption DEF TcpAssumption, SoftConnectionLimit
    <2>6. QED
      BY <2>1, <2>3, <2>5 DEF LimitInv
  <1>3. CASE Start \/ StopSetFlag \/ NotifyThreadViaPipe
    <2>1. /\ UNCHANGED <<table, events, fListenSocketsOnEpoll, listenReg>>
          /\ pc' = pc \/ pc' = "start"
      BY <1>3 DEF Start, StopSetFlag, NotifyThreadViaPipe, threadVars, listVars, listenVars
    <2>2. \A i \in {1, 2} : Used(i)' \subseteq Used(i)
      BY <2>1 DEF Used
    <2>3. QED
      BY <2>1, <2>2, LimitKept
  <1>4. QED
    BY <1>1, <1>2, <1>3 DEF MainNext

LEMMA LimitThread ==
  ASSUME IInv, LimitInv, ThreadNext PROVE LimitInv'
  <1>t. TypeOK /\ newList \in {1, 2} /\ oldList \in {1, 2}
    BY OldListType DEF IInv, TypeOK
  <1>u. ASSUME UNCHANGED <<table, events, fListenSocketsOnEpoll, listenReg>>,
               pc' = pc \/ pc' \notin {"wait", "accept"}
        PROVE  LimitInv'
    <2>1. \A i \in {1, 2} : Used(i)' \subseteq Used(i)
      BY <1>u DEF Used
    <2>2. QED
      BY <1>u, <2>1, LimitKept
  <1>c. ASSUME NEW S, CloseConnections(S),
               UNCHANGED <<events, fListenSocketsOnEpoll, listenReg>>,
               pc' \notin {"wait", "accept"}
        PROVE  LimitInv'
    <2>1. \A i \in {1, 2}, fd \in Fds : table'[i][fd] \in {None, table[i][fd]}
      BY <1>c DEF CloseConnections, RemoveFromTables
    <2>2. \A i \in {1, 2} : Used(i)' \subseteq Used(i)
      BY <2>1 DEF Used
    <2>3. QED
      BY <1>c, <2>2, LimitKept
  <1>1. CASE RunStart \/ LoopExit \/ WaitTimeout
    BY <1>1, <1>u DEF RunStart, LoopExit, WaitTimeout, listVars, listenVars
  <1>2. CASE LoopTop
    BY <1>2, <1>t, LimitLoopTop
  <1>3. CASE \E e \in Listeners \cup Fds \cup {Pipe} : WaitForNextEvent(e)
    BY <1>3, <1>t, LimitWait
  <1>4. CASE AcceptFails \/ AcceptRefused \/ AcceptUndone
    BY <1>4, <1>u DEF AcceptFails, AcceptRefused, AcceptUndone, listVars, listenVars
  <1>5. CASE AcceptConnection
    BY <1>5, <1>t, LimitAccept
  <1>6. CASE RecvWouldBlock \/ RecvMore \/ RecvRequest
    BY <1>6, <1>u DEF RecvWouldBlock, RecvMore, RecvRequest, listVars, listenVars
  <1>7. CASE SendWouldBlock \/ SendMore \/ SendDone \/ SweepNotDue
    BY <1>7, <1>u DEF SendWouldBlock, SendMore, SendDone, SweepNotDue, threadVars, listVars,
       listenVars
  <1>8. CASE RecvDead \/ RecvRejected \/ SendDead \/ SendDoneFault
    BY <1>8, <1>c DEF RecvDead, RecvRejected, SendDead, SendDoneFault, CloseConnection, listenVars
  <1>9. CASE SweepDeadConnections \/ ThreadCleanup
    BY <1>9, <1>c DEF SweepDeadConnections, ThreadCleanup, listenVars
  <1>10. QED
    BY <1>1, <1>2, <1>3, <1>4, <1>5, <1>6, <1>7, <1>8, <1>9 DEF ThreadNext

\* Whatever the order of accepts, closes, sweeps and fetched events, the
\* connections of a thread exceed its limit by at most the number of its
\* listening sockets minus one, unless epoll_ctl fails.
THEOREM LimitTheorem == Spec => []SoftConnectionLimit
  <1>1. IInv /\ LimitInv /\ [Next]_vars => LimitInv'
    <2> SUFFICES ASSUME IInv, LimitInv, [Next]_vars PROVE LimitInv'
      OBVIOUS
    <2>1. ASSUME UNCHANGED <<table, events, fListenSocketsOnEpoll, listenReg, pc>>
          PROVE  LimitInv'
      <3>1. \A i \in {1, 2} : Used(i)' \subseteq Used(i)
        BY <2>1 DEF Used
      <3>2. QED
        BY <2>1, <3>1, LimitKept
    <2>2. CASE MainNext
      BY <2>2, LimitMain
    <2>3. CASE ThreadNext
      BY <2>3, LimitThread
    <2>4. CASE EnvNext
      BY <2>1, <2>4 DEF EnvNext, Connect, Abandon, PeerSend, PeerRead, PeerShut, PeerReset,
         Tick, EnvUnchanged, threadVars, listVars, listenVars
    <2>5. CASE UNCHANGED vars
      BY <2>1, <2>5 DEF vars, threadVars, listVars, listenVars
    <2>6. QED
      BY <2>2, <2>3, <2>4, <2>5 DEF Next
  <1>2. LimitInv => SoftConnectionLimit
    BY DEF LimitInv
  <1>3. QED
    BY <1>1, <1>2, LimitInit, Invariance, PTL DEF Spec
=============================================================================
