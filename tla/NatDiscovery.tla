---------------------------- MODULE NatDiscovery ----------------------------
(***************************************************************************)
(* The STUN client that finds out what kind of NAT it is behind            *)
(* (stuncore/stunclientlogic.cpp, stuncore/stunclienttests.cpp and the     *)
(* UdpClientLoop of client/clientmain.cpp), the NAT, the network and a UDP *)
(* server that answers with RequestHandler's ProcessRequest.               *)
(*                                                                         *)
(* The network only ever gains messages, and any message in it may arrive  *)
(* at any moment, any number of times or never: messages are lost,         *)
(* duplicated, delayed past the end of their test and reordered.  The NAT  *)
(* (not in the repository) is modelled by the behaviours of RFC 4787 the   *)
(* client tells apart.                                                     *)
(***************************************************************************)
EXTENDS RequestHandler, Sequences

CONSTANTS
    SocketSets,     \* the sets of roles the server may be configured with
    MaxAttempts,    \* _config.uMaxAttempts
    Timeout,        \* _config.timeoutSeconds, in clock ticks; 0 if fTimeoutIsInstant
    WaitLimit,      \* how long select waits, in clock ticks
    ClockMod        \* GetMillisecondCounter wraps at this value: 2^32

(* UdpClientLoop waits for the timeoutSeconds of its caller and a half.     *)
(* The logic has a copy of the configuration, in which it replaces zero by  *)
(* three: the shipped client waits for half a second, up to six times in an *)
(* attempt, and a caller with a timeout of its own once.                    *)
ASSUME NatAssumption ==
    /\ {MaxAttempts, WaitLimit} \subseteq Nat \ {0} /\ Timeout \in Nat
    /\ ClockMod \in Nat /\ ClockMod > WaitLimit + Timeout

VARIABLES
    nat,                    \* the mapping and filtering behaviour of the NAT
    tsa,                    \* the server's sockets
    testlist,               \* _testlist, as the configuration asks for
    pc,                     \* where UdpClientLoop is
    nTestIndex, fPreCheckRunOnTest, sendCount, timeLastMessageSent,
    completed,              \* the tests whose _fCompleted is set
    transid,                \* per test: its transaction id, 0 before it has one
    results,                \* _results
    clock,                  \* GetMillisecondCounter
    requests, replies,      \* everything ever sent, to and by the server
    permits,                \* <<mapping, destination>>: who the client sent to
    timely                  \* history: no test was given up too early

config == <<nat, tsa, testlist>>
logic  == <<nTestIndex, fPreCheckRunOnTest, sendCount, timeLastMessageSent, completed,
            transid, results>>
vars   == <<config, pc, logic, clock, requests, replies, permits, timely>>

(* -------- the server's addresses ----------------------------------------- *)

(* Where the client reaches its sockets.  A server that knows its addresses *)
(* announces these: with others advertised (AddSocket of RequestServer) the *)
(* tests may report an incorrect result, as the manual of the server says.  *)

ServerAddress(r) == [ip |-> IF r \in {RolePP, RolePA} THEN "P" ELSE "A",
                     port |-> IF r \in {RolePP, RoleAP} THEN <<"p">> ELSE <<"a">>]

RoleOf(addr) == CHOOSE r \in Roles : ServerAddress(r) = addr

addrServer == ServerAddress(RolePP)

(* -------- the NAT -------------------------------------------------------- *)

Mappings   == {"Direct", "EndpointIndependent", "AddressDependent", "AddressAndPortDependent"}
Filterings == {"EndpointIndependent", "AddressDependent", "AddressAndPortDependent"}

addrLocal == [ip |-> "local", port |-> <<>>]

(* The address the server sees for what the client sends to dest.           *)
MappedAddress(dest) ==
    CASE nat.mapping = "Direct" -> addrLocal
      [] nat.mapping = "EndpointIndependent" -> [ip |-> "nat", port |-> <<"x">>]
      [] nat.mapping = "AddressDependent" -> [ip |-> "nat", port |-> <<dest.ip>>]
      [] nat.mapping = "AddressAndPortDependent" ->
            [ip |-> "nat", port |-> <<dest.ip>> \o dest.port]

(* A reply to a mapped address gets in if its sender, or a sender the       *)
(* filter does not tell from it, has been sent to from that mapping.        *)
GetsIn(mapped, from) ==
    \E p \in permits : p[1] = mapped /\
        CASE nat.filtering = "EndpointIndependent" -> TRUE
          [] nat.filtering = "AddressDependent" -> p[2].ip = from.ip
          [] nat.filtering = "AddressAndPortDependent" -> p[2] = from

(* -------- the tests (stunclienttests.cpp) -------------------------------- *)

Tests == {"binding1", "filtering2", "filtering3", "behavior2", "behavior3"}

FilteringTests == <<"filtering2", "filtering3">>
BehaviorTests  == <<"behavior2", "behavior3">>

TestList(fFilteringTest, fBehaviorTest) ==
    <<"binding1">> \o (IF fFilteringTest THEN FilteringTests ELSE <<>>)
                   \o (IF fBehaviorTest THEN BehaviorTests ELSE <<>>)

NoResults ==
    [fBindingTestSuccess |-> FALSE, fIsDirect |-> FALSE, fHasOtherAddress |-> FALSE,
     fBehaviorTestSuccess |-> FALSE, behavior |-> "Unknown",
     fFilteringTestSuccess |-> FALSE, filtering |-> "Unknown",
     fGotTest2Response |-> FALSE, addrMapped |-> NoAddress, addrAP |-> NoAddress,
     addrAA |-> NoAddress, addrMappingAP |-> NoAddress]

PreRunCheck(test) ==
    IF test = "behavior2" /\ results.fBindingTestSuccess /\ results.fIsDirect
    THEN /\ completed' = completed \cup {test}
         /\ results' = [results EXCEPT !.behavior = "Direct", !.fBehaviorTestSuccess = TRUE]
    ELSE UNCHANGED <<completed, results>>

BehaviorIsReady ==
    results.fBindingTestSuccess /\ results.fHasOtherAddress /\ ~results.fBehaviorTestSuccess

FilteringIsReady_Again == results.fBindingTestSuccess /\ results.fHasOtherAddress

FilteringIsReady ==
    /\ results.fBindingTestSuccess /\ results.fHasOtherAddress
    /\ ~results.fFilteringTestSuccess /\ ~results.fGotTest2Response

IsReadyToRun(test) ==
    /\ test \notin completed
    /\ CASE test = "binding1" -> TRUE
         [] test = "behavior2" -> BehaviorIsReady
         [] test = "behavior3" -> BehaviorIsReady /\ results.addrMappingAP.ip # ZeroIP
         [] test \in {"filtering2", "filtering3"} -> FilteringIsReady

NotifyTimeout(test) ==
    /\ completed' = completed \cup {test}
    /\ results' =
          CASE test = "binding1" -> [results EXCEPT !.fBindingTestSuccess = FALSE]
            [] test \in {"behavior2", "behavior3"} ->
                  [results EXCEPT !.fBehaviorTestSuccess = FALSE]
            [] test = "filtering2" -> results
            [] test = "filtering3" ->
                  [results EXCEPT !.fFilteringTestSuccess = TRUE,
                                  !.filtering = "AddressAndPortDependent"]

(* The first message of a test draws a random transaction id, which its     *)
(* retransmissions keep.  Random ids are taken to differ: the id of a test  *)
(* is its place in the list.                                                *)
StartBindingRequest(test) ==
    IF transid[test] # 0 THEN transid[test] ELSE nTestIndex

Dest(test) ==
    CASE test = "behavior2" -> results.addrAP
      [] test = "behavior3" -> results.addrAA
      [] OTHER -> addrServer

GetMessage(test) ==
    [transid |-> StartBindingRequest(test), dest |-> Dest(test),
     changeIP |-> test = "filtering2", changePort |-> test \in {"filtering2", "filtering3"}]

BasicReaderValidation_AnyId(test, reply) == TRUE

BasicReaderValidation(test, reply) == reply.transid = transid[test]

BindingResponse(reply) ==
    [results EXCEPT
        !.fBindingTestSuccess = TRUE,
        !.fIsDirect = (addrLocal = reply.mapped),
        !.addrMapped = reply.mapped,
        !.fHasOtherAddress = (reply.other # NoAddress),
        !.addrAA = reply.other,
        !.addrAP = IF reply.other # NoAddress
                   THEN [reply.other EXCEPT !.port = addrServer.port] ELSE NoAddress]

Behavior2Response_ForgetsMapping(reply) ==
    IF reply.mapped = results.addrMapped
    THEN [results EXCEPT !.fBehaviorTestSuccess = TRUE, !.behavior = "EndpointIndependent"]
    ELSE results

Behavior2Response(reply) ==
    IF reply.mapped = results.addrMapped
    THEN [results EXCEPT !.addrMappingAP = reply.mapped, !.fBehaviorTestSuccess = TRUE,
                         !.behavior = "EndpointIndependent"]
    ELSE [results EXCEPT !.addrMappingAP = reply.mapped]

Behavior3Response(reply) ==
    [results EXCEPT !.fBehaviorTestSuccess = TRUE,
                    !.behavior = IF reply.mapped = results.addrMappingAP
                                 THEN "AddressDependent" ELSE "AddressAndPortDependent"]

Filtering2Response ==
    [results EXCEPT !.fGotTest2Response = TRUE, !.fFilteringTestSuccess = TRUE,
                    !.filtering = "EndpointIndependent"]

Filtering3Response ==
    [results EXCEPT !.fFilteringTestSuccess = TRUE, !.filtering = "AddressDependent"]

(* A reply that does not validate, or has no mapped address where one is    *)
(* needed, is dropped; the filtering tests only look at the transaction id. *)
ProcessResponse(test, reply) ==
    IF /\ BasicReaderValidation(test, reply)
       /\ test \in {"filtering2", "filtering3"} \/ reply.mapped # NoAddress
    THEN /\ completed' = completed \cup {test}
         /\ results' = CASE test = "binding1" -> BindingResponse(reply)
                         [] test = "behavior2" -> Behavior2Response(reply)
                         [] test = "behavior3" -> Behavior3Response(reply)
                         [] test = "filtering2" -> Filtering2Response
                         [] test = "filtering3" -> Filtering3Response
    ELSE UNCHANGED <<completed, results>>

(* -------- CStunClientLogic::GetNextMessage -------------------------------- *)

CurrentTest == testlist[nTestIndex]

Running == pc = "next" /\ nTestIndex <= Len(testlist)

PreCheck ==
    /\ Running /\ ~fPreCheckRunOnTest
    /\ PreRunCheck(CurrentTest)
    /\ fPreCheckRunOnTest' = TRUE
    /\ UNCHANGED <<config, timely, pc, nTestIndex, sendCount, timeLastMessageSent, transid, clock,
                   requests, replies, permits>>

CanRun == CurrentTest \notin completed /\ IsReadyToRun(CurrentTest)

NextTest ==
    /\ Running /\ fPreCheckRunOnTest /\ ~CanRun
    /\ nTestIndex' = nTestIndex + 1
    /\ sendCount' = 0
    /\ fPreCheckRunOnTest' = FALSE
    /\ UNCHANGED <<config, timely, pc, timeLastMessageSent, completed, transid, results, clock,
                   requests, replies, permits>>

Elapsed_NoWrap == clock - timeLastMessageSent

(* timeCurrentMilliseconds - _timeLastMessageSent in 32-bit arithmetic.     *)
Elapsed == (clock - timeLastMessageSent) % ClockMod

AttemptsLeft == sendCount < MaxAttempts

StillWaiting == Elapsed < Timeout /\ sendCount # 0

KeepWaiting ==
    /\ Running /\ fPreCheckRunOnTest /\ CanRun /\ StillWaiting
    /\ pc' = "select"
    /\ UNCHANGED <<config, timely, logic, clock, requests, replies, permits>>

(* An answer to the current test is still under way and could be received. *)
AnswerComes ==
    \/ \E q \in requests : /\ q.transid = transid[CurrentTest]
                           /\ \A r \in replies : r.transid # q.transid
    \/ \E r \in replies : r.transid = transid[CurrentTest] /\ GetsIn(r.dest, r.from)

GiveUp ==
    /\ Running /\ fPreCheckRunOnTest /\ CanRun /\ ~StillWaiting
    /\ ~AttemptsLeft
    /\ NotifyTimeout(CurrentTest)
    /\ timely' = (timely /\ ~AnswerComes)
    /\ UNCHANGED <<config, pc, nTestIndex, fPreCheckRunOnTest, sendCount,
                   timeLastMessageSent, transid, clock, requests, replies, permits>>

(* GetMessage, and the sendto of UdpClientLoop.                             *)
SendRequest ==
    /\ Running /\ fPreCheckRunOnTest /\ CanRun /\ ~StillWaiting
    /\ AttemptsLeft
    /\ transid' = [transid EXCEPT ![CurrentTest] = StartBindingRequest(CurrentTest)]
    /\ requests' = requests \cup {GetMessage(CurrentTest)}
    /\ sendCount' = sendCount + 1
    /\ timeLastMessageSent' = clock
    /\ pc' = "select"
    /\ UNCHANGED <<config, timely, nTestIndex, fPreCheckRunOnTest, completed, results, clock,
                   replies, permits>>

ResultsReady ==
    /\ pc = "next" /\ nTestIndex > Len(testlist)
    /\ pc' = "done"
    /\ UNCHANGED <<config, timely, logic, clock, requests, replies, permits>>

(* -------- the wait of UdpClientLoop --------------------------------------- *)

SelectTimeout ==
    /\ pc = "select"
    /\ clock' = (clock + WaitLimit) % ClockMod
    /\ pc' = "next"
    /\ UNCHANGED <<config, timely, logic, requests, replies, permits>>

(* select returns after some time, recvfromex gets the reply, and the logic *)
(* hands it to the current test.                                            *)
Receive(reply, waited) ==
    /\ pc = "select"
    /\ GetsIn(reply.dest, reply.from)
    /\ clock' = (clock + waited) % ClockMod
    /\ ProcessResponse(CurrentTest, reply)
    /\ pc' = "next"
    /\ UNCHANGED <<config, timely, nTestIndex, fPreCheckRunOnTest, sendCount,
                   timeLastMessageSent, transid, requests, replies, permits>>

(* -------- the NAT and the server ------------------------------------------ *)

AsReceived(q) ==
    [role |-> RoleOf(q.dest), connected |-> FALSE, class |-> "Request", type |-> "Binding",
     transid |-> q.transid, responsePort |-> <<>>, padding |-> FALSE,
     changeIP |-> q.changeIP, changePort |-> q.changePort, integrityOk |-> FALSE,
     remote |-> MappedAddress(q.dest), local |-> q.dest]

(* What CStunSocketThread sends, and the socket it sends it from.           *)
Answers(m) ==
    IF ~tsa[m.role].fValid THEN {}
    ELSE {[transid |-> r.transid, from |-> ServerAddress(r.role), dest |-> r.dest,
           mapped |-> r.mapped, other |-> r.other] : r \in ProcessRequest(m, tsa, "none")}

(* A request passes the NAT and reaches the server.                         *)
ServerReceives(q) ==
    /\ permits' = permits \cup {<<MappedAddress(q.dest), q.dest>>}
    /\ \E m \in {AsReceived(q)} : replies' = replies \cup Answers(m)
    /\ UNCHANGED <<config, timely, pc, logic, clock, requests>>

(* -------- specification --------------------------------------------------- *)

Init ==
    /\ nat \in [mapping : Mappings, filtering : Filterings]
    /\ \E sockets \in SocketSets, known \in BOOLEAN :
          tsa = [r \in Roles |->
                    [fValid |-> r \in sockets,
                     addr |-> IF known /\ r \in sockets THEN ServerAddress(r)
                              ELSE NoAddress]]
    /\ \E fFilteringTest, fBehaviorTest \in BOOLEAN :
          testlist = TestList(fFilteringTest, fBehaviorTest)
    /\ pc = "next"
    /\ nTestIndex = 1
    /\ fPreCheckRunOnTest = FALSE
    /\ sendCount = 0
    /\ timeLastMessageSent = 0
    /\ completed = {}
    /\ transid = [t \in Tests |-> 0]
    /\ results = NoResults
    /\ clock \in {0, ClockMod - 1}
    /\ requests = {}
    /\ replies = {}
    /\ permits = {}
    /\ timely = TRUE

GetNextMessage ==
    PreCheck \/ NextTest \/ KeepWaiting \/ GiveUp \/ SendRequest \/ ResultsReady

Wait ==
    \/ SelectTimeout
    \/ \E r \in replies, waited \in 0..(WaitLimit - 1) : Receive(r, waited)

Next ==
    \/ GetNextMessage
    \/ Wait
    \/ \E q \in requests : ServerReceives(q)

Spec == Init /\ [][Next]_vars

(* The client's thread keeps running, and time passes however many packets  *)
(* keep it busy.                                                            *)
FairSpec ==
    /\ Spec
    /\ WF_vars(GetNextMessage)
    /\ WF_vars(Wait)
    /\ SF_vars(Wait /\ clock' # clock)

(* -------- properties ------------------------------------------------------ *)

Permissive(f) == CASE f = "EndpointIndependent" -> 2
                   [] f = "AddressDependent" -> 1
                   [] f = "AddressAndPortDependent" -> 0

(* Whatever is lost, duplicated or late: a mapping behaviour the client     *)
(* reports as found is the NAT's, and the filtering it reports is never     *)
(* more permissive than the NAT's.  A late reply to one test must not count *)
(* for another, and the tests must not open the filter they measure.        *)
VerdictIsSound ==
    /\ results.fBehaviorTestSuccess => results.behavior = nat.mapping
    /\ results.fFilteringTestSuccess =>
          Permissive(results.filtering) <= Permissive(nat.filtering)

Full == FourSockets(tsa) /\ \A r \in Roles : tsa[r].addr.ip # ZeroIP
Asked(test) == \E i \in 1..Len(testlist) : testlist[i] = test

(* If no test is given up while its answer could still come, the client     *)
(* ends with the NAT's behaviours, both of them, whenever the server is in  *)
(* full mode, and otherwise with a binding and nothing it cannot know.      *)
(* Answers may come after several waits, or after a retransmission.         *)
VerdictIsComplete ==
    timely /\ pc = "done" =>
        /\ results.fBindingTestSuccess
        /\ Asked("filtering2") => results.fFilteringTestSuccess = Full
        /\ Asked("behavior2") =>
              results.fBehaviorTestSuccess = (Full \/ nat.mapping = "Direct")
        /\ results.fFilteringTestSuccess => results.filtering = nat.filtering

(* What has been found is not withdrawn or changed by the tests and the     *)
(* timeouts that follow.                                                    *)
VerdictStands ==
    [][/\ results.fBehaviorTestSuccess =>
             results'.fBehaviorTestSuccess /\ results'.behavior = results.behavior
       /\ results.fFilteringTestSuccess =>
             results'.fFilteringTestSuccess /\ results'.filtering = results.filtering]_vars

(* The client ends, also when nothing is answered and when its millisecond  *)
(* counter wraps while it waits.                                            *)
ClientEnds == <>(pc = "done")
=============================================================================
