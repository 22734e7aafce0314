------------------------- MODULE NatDiscoveryProofs -------------------------
(***************************************************************************)
(* Proofs about what the client reports, for any configuration of the      *)
(* server, any number of attempts, any timeout and any counter width, and  *)
(* a network that loses, duplicates, delays and reorders what it likes.    *)
(* The last part is about runs in which no test is given up too early.     *)
(***************************************************************************)
EXTENDS NatDiscovery, SequenceTheorems, TLAPS

(* The socket a test talks to, and what the server sees it come from.      *)
Target(test) ==
    CASE test = "behavior2" -> RoleAP
      [] test = "behavior3" -> RoleAA
      [] OTHER -> RolePP

Mapped(r) == MappedAddress(ServerAddress(r))

(* The request of a test, however often it is sent.                        *)
Asking(test) ==
    [transid |-> transid[test], dest |-> ServerAddress(Target(test)),
     changeIP |-> test = "filtering2", changePort |-> test \in {"filtering2", "filtering3"}]

Started(test) == transid[test] # 0

Configured ==
    /\ nat \in [mapping : Mappings, filtering : Filterings]
    /\ \A r \in Roles : tsa[r].addr \in {ServerAddress(r), NoAddress}
    /\ testlist \in {TestList(f, b) : f \in BOOLEAN, b \in BOOLEAN}

Behaviors == Mappings \cup {"Unknown"}

ResultFields ==
    {"fBindingTestSuccess", "fIsDirect", "fHasOtherAddress", "fBehaviorTestSuccess",
     "behavior", "fFilteringTestSuccess", "filtering", "fGotTest2Response",
     "addrMapped", "addrAP", "addrAA", "addrMappingAP"}

ResultTypes ==
    /\ results = [f \in ResultFields |-> results[f]]
    /\ results.fBindingTestSuccess \in BOOLEAN /\ results.fIsDirect \in BOOLEAN
    /\ results.fHasOtherAddress \in BOOLEAN /\ results.fBehaviorTestSuccess \in BOOLEAN
    /\ results.fFilteringTestSuccess \in BOOLEAN /\ results.fGotTest2Response \in BOOLEAN

Types ==
    /\ nTestIndex \in Nat \ {0}
    /\ fPreCheckRunOnTest \in BOOLEAN
    /\ transid \in [Tests -> Nat]
    /\ pc \in {"next", "select", "done"}
    /\ ResultTypes

(* No two tests have the same transaction id, and none has one before its  *)
(* turn.                                                                   *)
Ids ==
    \A t \in Tests : Started(t) =>
        /\ transid[t] <= nTestIndex
        /\ transid[t] \in 1..Len(testlist)
        /\ testlist[transid[t]] = t

(* Everything in the network goes back to a request of a test.             *)
Traffic ==
    /\ \A q \in requests : \E t \in Tests : Started(t) /\ q = Asking(t)
    /\ \A r \in replies : \E q \in requests : r \in Answers(AsReceived(q))
    /\ \A p \in permits : \E q \in requests : p = <<MappedAddress(q.dest), q.dest>>

(* The client waits only for a test that may run.                          *)
Waiting ==
    pc = "select" => nTestIndex <= Len(testlist) /\ fPreCheckRunOnTest /\ CanRun

PreChecked ==
    /\ nTestIndex <= Len(testlist) /\ fPreCheckRunOnTest
    /\ CurrentTest = "behavior2" /\ CurrentTest \notin completed
    => ~(results.fBindingTestSuccess /\ results.fIsDirect)

(* What the client believes is so.                                         *)
Learned ==
    /\ results.fBindingTestSuccess =>
          /\ results.addrMapped = Mapped(RolePP)
          /\ results.fIsDirect = (nat.mapping = "Direct")
    /\ results.fHasOtherAddress =>
          /\ FourSockets(tsa)
          /\ results.addrAP = ServerAddress(RoleAP) /\ results.addrAA = ServerAddress(RoleAA)
    /\ results.addrMappingAP.ip # ZeroIP =>
          /\ results.addrMappingAP = Mapped(RoleAP)
          /\ results.fBehaviorTestSuccess \/ Mapped(RoleAP) # Mapped(RolePP)

IInv ==
    /\ Configured /\ Types /\ Ids /\ Traffic /\ Waiting /\ PreChecked /\ Learned
    /\ VerdictIsSound

-----------------------------------------------------------------------------

(* The four sockets of the server have four addresses.                     *)
LEMMA AddressOfRole ==
    ASSUME NEW r \in Roles
    PROVE  ServerAddress(r) = CASE r = 0 -> [ip |-> "P", port |-> <<"p">>]
                                [] r = 1 -> [ip |-> "P", port |-> <<"a">>]
                                [] r = 2 -> [ip |-> "A", port |-> <<"p">>]
                                [] r = 3 -> [ip |-> "A", port |-> <<"a">>]
  BY DEF ServerAddress, Roles, RolePP, RolePA, RoleAP

LEMMA RoleOfAddress ==
    ASSUME NEW r \in Roles
    PROVE  RoleOf(ServerAddress(r)) = r
  <1>1. <<"p">> # <<"a">>
    <2>1. <<"p">>[1] = "p" /\ <<"a">>[1] = "a"
      OBVIOUS
    <2>2. QED
      BY <2>1
  <1>2. ASSUME NEW s \in Roles, ServerAddress(s) = ServerAddress(r) PROVE s = r
    <2>1. \A a, b, c, d : [ip |-> a, port |-> b] = [ip |-> c, port |-> d] => a = c /\ b = d
      OBVIOUS
    <2>2. QED
      BY <1>1, <1>2, <2>1, AddressOfRole DEF Roles
  <1>3. QED
    BY <1>2 DEF RoleOf

(* What the mapping behaviours of the NAT make of the server's addresses.  *)
LEMMA MappingTable ==
    ASSUME nat \in [mapping : Mappings, filtering : Filterings]
    PROVE  /\ \A r \in Roles : Mapped(r).ip # ZeroIP
           /\ nat.mapping = "Direct" <=> Mapped(RolePP) = addrLocal
           /\ nat.mapping = "EndpointIndependent" => Mapped(RoleAP) = Mapped(RolePP)
           /\ nat.mapping = "Direct" => Mapped(RoleAP) = Mapped(RolePP)
           /\ nat.mapping = "AddressDependent" =>
                 Mapped(RoleAP) # Mapped(RolePP) /\ Mapped(RoleAA) = Mapped(RoleAP)
           /\ nat.mapping = "AddressAndPortDependent" =>
                 Mapped(RoleAP) # Mapped(RolePP) /\ Mapped(RoleAA) # Mapped(RoleAP)
  <1>1. nat.mapping \in Mappings
    OBVIOUS
  <1>2. /\ RolePP \in Roles /\ RoleAP \in Roles /\ RoleAA \in Roles
        /\ RolePP = 0 /\ RoleAP = 2 /\ RoleAA = 3
    BY DEF Roles, RolePP, RoleAP, RoleAA
  <1>3. CASE nat.mapping = "Direct"
    BY <1>2, <1>3 DEF Mapped, MappedAddress, addrLocal, ZeroIP
  <1>4. CASE nat.mapping = "EndpointIndependent"
    BY <1>2, <1>4 DEF Mapped, MappedAddress, addrLocal, ZeroIP
  <1>5. \A a, b : [ip |-> "nat", port |-> a] = [ip |-> "nat", port |-> b] => a = b
    OBVIOUS
  <1>6. CASE nat.mapping = "AddressDependent"
    <2>1. \A r \in Roles : Mapped(r) = [ip |-> "nat", port |-> <<ServerAddress(r).ip>>]
      BY <1>6 DEF Mapped, MappedAddress
    <2>2. ServerAddress(0).ip = "P" /\ ServerAddress(2).ip = "A" /\ ServerAddress(3).ip = "A"
      BY <1>2, AddressOfRole
    <2>3. <<"P">> # <<"A">>
      <3>1. <<"P">>[1] = "P" /\ <<"A">>[1] = "A"
        OBVIOUS
      <3>2. QED
        BY <3>1
    <2>4. Mapped(RoleAP) # Mapped(RolePP) /\ Mapped(RoleAA) = Mapped(RoleAP)
      BY <1>2, <1>5, <2>1, <2>2, <2>3
    <2>5. \A r \in Roles : Mapped(r).ip = "nat"
      BY <2>1
    <2>6. QED
      BY <1>2, <1>6, <2>4, <2>5 DEF addrLocal, ZeroIP
  <1>7. CASE nat.mapping = "AddressAndPortDependent"
    <2> DEFINE Port(r) == <<ServerAddress(r).ip>> \o ServerAddress(r).port
    <2>1. \A r \in Roles : Mapped(r) = [ip |-> "nat", port |-> Port(r)]
      BY <1>7 DEF Mapped, MappedAddress
    <2>2. /\ ServerAddress(0).ip = "P" /\ ServerAddress(2).ip = "A" /\ ServerAddress(3).ip = "A"
          /\ ServerAddress(0).port = <<"p">> /\ ServerAddress(2).port = <<"p">>
          /\ ServerAddress(3).port = <<"a">>
      BY <1>2, AddressOfRole
    <2>3. \A a, b : (<<a>> \o <<b>>)[1] = a /\ (<<a>> \o <<b>>)[2] = b
      OBVIOUS
    <2>4. /\ Port(0)[1] = "P" /\ Port(2)[1] = "A" /\ Port(2)[2] = "p" /\ Port(3)[2] = "a"
      BY <2>2, <2>3
    <2> HIDE DEF Port
    <2>5. /\ Mapped(RoleAP) # Mapped(RolePP) /\ Mapped(RoleAA) # Mapped(RoleAP)
          /\ \A r \in Roles : Mapped(r).ip = "nat"
      <3>1. Port(2) # Port(0) /\ Port(3) # Port(2)
        BY <2>4
      <3>2. \A r \in Roles : Mapped(r).ip = "nat" /\ Mapped(r).port = Port(r)
        BY <2>1
      <3>3. QED
        BY <1>2, <3>1, <3>2
    <2>6. QED
      BY <1>2, <1>7, <2>5 DEF addrLocal, ZeroIP
  <1>8. QED
    BY <1>1, <1>3, <1>4, <1>6, <1>7 DEF Mappings

(* A sequence of two joined to another.                                     *)
LEMMA JoinPair ==
    ASSUME NEW s \in Seq(Tests), NEW u \in Seq(Tests), Len(u) = 2
    PROVE  \E w \in Seq(Tests) :
              /\ s \o u = w /\ Len(w) = Len(s) + 2
              /\ \A i \in 1..Len(s) : w[i] = s[i]
              /\ w[Len(s) + 1] = u[1] /\ w[Len(s) + 2] = u[2]
  <1> PICK w : w = s \o u
    OBVIOUS
  <1>1. /\ w \in Seq(Tests) /\ Len(w) = Len(s) + Len(u) /\ Len(s) \in Nat
        /\ \A i \in 1..(Len(s) + Len(u)) : w[i] = IF i <= Len(s) THEN s[i] ELSE u[i - Len(s)]
    <2>1. s \o u \in Seq(Tests)
      OBVIOUS
    <2>2. Len(s \o u) = Len(s) + Len(u)
      BY ConcatProperties
    <2>3. \A i \in 1..(Len(s) + Len(u)) : (s \o u)[i] = IF i <= Len(s) THEN s[i] ELSE u[i - Len(s)]
      BY ConcatProperties
    <2>4. Len(s) \in Nat
      OBVIOUS
    <2>5. QED
      BY <2>1, <2>2, <2>3, <2>4
  <1>2. w[Len(s) + 1] = u[1] /\ w[Len(s) + 2] = u[2]
    BY <1>1
  <1>3. Len(w) = Len(s) + 2 /\ \A i \in 1..Len(s) : w[i] = s[i]
    BY <1>1
  <1>4. w \in Seq(Tests) /\ s \o u = w
    BY <1>1
  <1>5. QED
    BY <1>2, <1>3, <1>4, Zenon

(* The four lists of tests.                                                *)
LEMMA TestLists ==
    ASSUME NEW f \in BOOLEAN, NEW g \in BOOLEAN
    PROVE  \E list :
              /\ TestList(f, g) = list /\ list[1] = "binding1"
              /\ Len(list) = IF f /\ g THEN 5 ELSE IF f \/ g THEN 3 ELSE 1
              /\ f => list[2] = "filtering2" /\ list[3] = "filtering3"
              /\ f /\ g => list[4] = "behavior2" /\ list[5] = "behavior3"
              /\ ~f /\ g => list[2] = "behavior2" /\ list[3] = "behavior3"
  <1> DEFINE first == <<"binding1">>
  <1>1. first \in Seq(Tests) /\ Len(first) = 1 /\ first[1] = "binding1"
    BY DEF Tests
  <1> HIDE DEF first
  <1>2. /\ FilteringTests \in Seq(Tests) /\ Len(FilteringTests) = 2
        /\ FilteringTests[1] = "filtering2" /\ FilteringTests[2] = "filtering3"
        /\ BehaviorTests \in Seq(Tests) /\ Len(BehaviorTests) = 2
        /\ BehaviorTests[1] = "behavior2" /\ BehaviorTests[2] = "behavior3"
    BY DEF FilteringTests, BehaviorTests, Tests
  <1>3. PICK early : early = IF f THEN first \o FilteringTests ELSE first
    OBVIOUS
  <1>4. /\ early \in Seq(Tests) /\ Len(early) = IF f THEN 3 ELSE 1
        /\ early[1] = "binding1" /\ (f => early[2] = "filtering2" /\ early[3] = "filtering3")
    <2>1. CASE f
      <3>1. PICK w \in Seq(Tests) :
               /\ first \o FilteringTests = w /\ Len(w) = Len(first) + 2
               /\ \A i \in 1..Len(first) : w[i] = first[i]
               /\ w[Len(first) + 1] = FilteringTests[1]
               /\ w[Len(first) + 2] = FilteringTests[2]
        BY <1>1, <1>2, JoinPair
      <3>2. early = w
        BY <1>3, <2>1, <3>1
      <3>3. Len(w) = 3 /\ w[1] = first[1]
        BY <1>1, <3>1
      <3>4. w[2] = "filtering2" /\ w[3] = "filtering3"
        BY <1>1, <1>2, <3>1
      <3>5. QED
        BY <1>1, <2>1, <3>2, <3>3, <3>4
    <2>2. CASE ~f
      BY <1>1, <1>3, <2>2
    <2>3. QED
      BY <2>1, <2>2
  <1>5. TestList(f, g) = IF g THEN early \o BehaviorTests ELSE early
    <2>1. TestList(f, g) = early \o (IF g THEN BehaviorTests ELSE <<>>)
      <3>1. first \o <<>> = first
        BY <1>1, ConcatEmptySeq
      <3>2. QED
        BY <1>3, <3>1 DEF TestList, first
    <2>2. early \o <<>> = early
      BY <1>4, ConcatEmptySeq
    <2>3. QED
      BY <2>1, <2>2
  <1>6. CASE g
    <2>1. TestList(f, g) = early \o BehaviorTests
      BY <1>5, <1>6
    <2>2. PICK list \in Seq(Tests) :
             /\ early \o BehaviorTests = list /\ Len(list) = Len(early) + 2
             /\ \A i \in 1..Len(early) : list[i] = early[i]
             /\ list[Len(early) + 1] = BehaviorTests[1]
             /\ list[Len(early) + 2] = BehaviorTests[2]
      BY <1>2, <1>4, JoinPair
    <2>3. TestList(f, g) = list
      BY <2>1, <2>2
    <2>4. CASE f
      <3>1. Len(early) = 3
        BY <1>4, <2>4
      <3>2. /\ Len(list) = 5 /\ list[1] = early[1] /\ list[2] = early[2] /\ list[3] = early[3]
            /\ list[4] = BehaviorTests[1] /\ list[5] = BehaviorTests[2]
        BY <2>2, <3>1
      <3>3. /\ list[1] = "binding1" /\ list[2] = "filtering2" /\ list[3] = "filtering3"
            /\ list[4] = "behavior2" /\ list[5] = "behavior3"
        BY <1>2, <1>4, <2>4, <3>2
      <3>4. QED
        BY <1>6, <2>3, <2>4, <3>2, <3>3
    <2>5. CASE ~f
      <3>1. Len(early) = 1
        BY <1>4, <2>5
      <3>2. /\ Len(list) = 3 /\ list[1] = early[1]
            /\ list[2] = BehaviorTests[1] /\ list[3] = BehaviorTests[2]
        BY <2>2, <3>1
      <3>3. list[1] = "binding1" /\ list[2] = "behavior2" /\ list[3] = "behavior3"
        BY <1>2, <1>4, <3>2
      <3>4. QED
        BY <1>6, <2>3, <2>5, <3>2, <3>3
    <2>6. QED
      BY <2>4, <2>5
  <1>7. CASE ~g
    BY <1>4, <1>5, <1>7
  <1>8. QED
    BY <1>6, <1>7

(* The binding test comes first, each pair of tests in its order, and the   *)
(* filtering tests before the others that send to the alternate address.    *)
LEMMA TestListOrder ==
    ASSUME testlist \in {TestList(f, b) : f \in BOOLEAN, b \in BOOLEAN}
    PROVE  /\ Len(testlist) \in Nat \ {0} /\ testlist[1] = "binding1"
           /\ \A i \in 1..Len(testlist) : testlist[i] \in Tests
           /\ \A i, j \in 1..Len(testlist) :
                 /\ testlist[i] \in {"filtering2", "filtering3"}
                 /\ testlist[j] \in {"behavior2", "behavior3"}
                 => i < j
           /\ \A i \in 1..Len(testlist) :
                 /\ testlist[i] = "filtering3" => i > 1 /\ testlist[i - 1] = "filtering2"
                 /\ testlist[i] = "behavior3" => i > 1 /\ testlist[i - 1] = "behavior2"
                 /\ testlist[i] = "filtering2" =>
                       i < Len(testlist) /\ testlist[i + 1] = "filtering3"
                 /\ testlist[i] = "behavior2" =>
                       i < Len(testlist) /\ testlist[i + 1] = "behavior3"
  <1>1. PICK f \in BOOLEAN, g \in BOOLEAN : testlist = TestList(f, g)
    OBVIOUS
  <1>2. /\ Len(testlist) = IF f /\ g THEN 5 ELSE IF f \/ g THEN 3 ELSE 1
        /\ testlist[1] = "binding1"
        /\ f => testlist[2] = "filtering2" /\ testlist[3] = "filtering3"
        /\ f /\ g => testlist[4] = "behavior2" /\ testlist[5] = "behavior3"
        /\ ~f /\ g => testlist[2] = "behavior2" /\ testlist[3] = "behavior3"
    BY <1>1, TestLists
  <1>3. CASE f /\ g
    BY <1>2, <1>3 DEF Tests
  <1>4. CASE f /\ ~g
    BY <1>2, <1>4 DEF Tests
  <1>5. CASE ~f /\ g
    BY <1>2, <1>5 DEF Tests
  <1>6. CASE ~f /\ ~g
    BY <1>2, <1>6 DEF Tests
  <1>7. QED
    BY <1>3, <1>4, <1>5, <1>6

(* What the server answers to the request of a test: the mapped address    *)
(* and the other address, or, from a server with four sockets, a response  *)
(* that leaves from the socket the filtering test asks for.                *)
LEMMA SwapTable ==
    /\ SocketRoleSwapPort(0) = 1 /\ SocketRoleSwapPort(2) = 3
    /\ SocketRoleSwapIP(0) = 2 /\ SocketRoleSwapIP(1) = 3
  BY DEF SocketRoleSwapPort, SocketRoleSwapIP

LEMMA AnswerToTest ==
    ASSUME Configured, NEW t \in Tests, NEW reply \in Answers(AsReceived(Asking(t)))
    PROVE  /\ reply.transid = transid[t] /\ reply.dest = Mapped(Target(t))
           /\ t \notin {"filtering2", "filtering3"} =>
                 reply.mapped = Mapped(Target(t)) /\ reply.from = ServerAddress(Target(t))
           /\ t = "binding1" /\ reply.other # NoAddress =>
                 FourSockets(tsa) /\ reply.other = tsa[RoleAA].addr
                    /\ reply.other = ServerAddress(RoleAA)
           /\ t = "binding1" /\ Full => reply.other # NoAddress
           /\ t = "filtering2" /\ FourSockets(tsa) =>
                 reply.dest = Mapped(RolePP) /\ reply.from = ServerAddress(RoleAA)
           /\ t = "filtering3" /\ FourSockets(tsa) =>
                 reply.dest = Mapped(RolePP) /\ reply.from = ServerAddress(RolePA)
  <1> DEFINE m == AsReceived(Asking(t))
  <1>1. Target(t) \in Roles /\ (t \notin {"behavior2", "behavior3"} => Target(t) = 0)
    BY DEF Target, Roles, RolePP, RoleAP, RoleAA
  <1>2. /\ m.role = Target(t) /\ m.class = "Request" /\ m.type = "Binding"
        /\ ~m.connected /\ m.responsePort = <<>> /\ m.transid = transid[t]
        /\ m.remote = Mapped(Target(t))
        /\ m.changeIP = (t = "filtering2")
        /\ m.changePort = (t \in {"filtering2", "filtering3"})
    BY <1>1, RoleOfAddress DEF AsReceived, Asking, Mapped
  <1> HIDE DEF m
  <1>3. PICK r \in ProcessRequest(m, tsa, "none") :
             reply = [transid |-> r.transid, from |-> ServerAddress(r.role), dest |-> r.dest,
                      mapped |-> r.mapped, other |-> r.other]
    BY DEF Answers, m
  <1>4. r = BuildErrorResponse(m, ErrorCode(m, tsa, "none")) \/ r = ProcessBindingRequest(m, tsa, "none")
    BY DEF ProcessRequest
  <1>5. reply.transid = transid[t] /\ reply.dest = Mapped(Target(t))
    BY <1>2, <1>3, <1>4 DEF BuildErrorResponse, ProcessBindingRequest, Destination
  <1>6. ErrorCode(m, tsa, "none") = BindingError(m, tsa)
    BY <1>2 DEF ErrorCode, ValidateAuth
  <1>7. CASE t \notin {"filtering2", "filtering3"}
    <2>1. BindingError(m, tsa) = 0
      BY <1>2, <1>7 DEF BindingError, WantsChange
    <2>2. r = ProcessBindingRequest(m, tsa, "none")
      BY <1>2, <1>6, <2>1 DEF ProcessRequest
    <2>3. /\ reply.mapped = Mapped(Target(t)) /\ reply.other = OtherAddress(m, tsa)
          /\ reply.from = ServerAddress(Target(t))
      <3>1. SocketOutput(m) = Target(t)
        BY <1>2, <1>7 DEF SocketOutput
      <3>2. QED
        BY <1>2, <1>3, <2>2, <3>1 DEF ProcessBindingRequest
    <2>4. ASSUME t = "binding1", OtherAddress(m, tsa) # NoAddress
          PROVE  /\ FourSockets(tsa) /\ OtherAddress(m, tsa) = tsa[RoleAA].addr
                 /\ OtherAddress(m, tsa) = ServerAddress(RoleAA)
      <3>1. SocketOther(m) = 3
        BY <1>1, <1>2, <2>4, SwapTable DEF SocketOther
      <3>2. FourSockets(tsa) /\ OtherAddress(m, tsa) = tsa[3].addr
        BY <2>4, <3>1 DEF OtherAddress
      <3>3. QED
        BY <2>4, <3>2 DEF Configured, Roles, RoleAA
    <2>5. ASSUME t = "binding1", Full PROVE OtherAddress(m, tsa) # NoAddress
      <3>1. SocketOther(m) = 3 /\ 3 \in Roles
        BY <1>1, <1>2, <2>5, SwapTable DEF SocketOther, Roles
      <3>2. OtherAddress(m, tsa) = tsa[3].addr /\ tsa[3].addr.ip # ZeroIP
        BY <2>5, <3>1 DEF OtherAddress, Full, FourSockets, IsIPAddressZeroOrInvalid
      <3>3. QED
        BY <3>2 DEF NoAddress
    <2>6. QED
      BY <1>5, <1>7, <2>3, <2>4, <2>5
  <1>8. CASE t \in {"filtering2", "filtering3"} /\ FourSockets(tsa)
    <2>1. SocketOutput(m) = IF t = "filtering2" THEN 3 ELSE 1
      BY <1>1, <1>2, <1>8, SwapTable DEF SocketOutput
    <2>2. HasAddress(tsa, SocketOutput(m))
      BY <1>8, <2>1 DEF FourSockets, Roles
    <2>3. BindingError(m, tsa) = 0
      BY <1>2, <2>2 DEF BindingError
    <2>4. r = ProcessBindingRequest(m, tsa, "none")
      BY <1>2, <1>6, <2>3 DEF ProcessRequest
    <2>5. reply.from = ServerAddress(IF t = "filtering2" THEN 3 ELSE 1)
      BY <1>3, <2>1, <2>4 DEF ProcessBindingRequest
    <2>6. QED
      BY <1>1, <1>5, <1>8, <2>5 DEF RolePP, RolePA, RoleAA
  <1>9. QED
    BY <1>5, <1>7, <1>8

-----------------------------------------------------------------------------

(* What a step may do to what has been found.                              *)
Stands ==
    /\ results.fBehaviorTestSuccess =>
          results'.fBehaviorTestSuccess /\ results'.behavior = results.behavior
    /\ results.fFilteringTestSuccess =>
          results'.fFilteringTestSuccess /\ results'.filtering = results.filtering

(* The fields that tell whether the pre-check is of any use are set by the *)
(* binding test alone.                                                     *)
SameBinding ==
    results'.fBindingTestSuccess = results.fBindingTestSuccess
        /\ results'.fIsDirect = results.fIsDirect

Sound == ResultTypes /\ Learned /\ VerdictIsSound

LEMMA InitInvariant == Init => IInv
  <1> SUFFICES ASSUME Init PROVE IInv
    OBVIOUS
  <1>1. Configured
    BY DEF Init, Configured
  <1>2. Types
    <2>1. NoResults = [f \in ResultFields |-> NoResults[f]]
      BY DEF NoResults, ResultFields
    <2>2. ResultTypes
      BY <2>1 DEF Init, ResultTypes, NoResults
    <2>3. fPreCheckRunOnTest \in BOOLEAN /\ pc = "next"
      BY Zenon DEF Init
    <2>4. nTestIndex \in Nat \ {0} /\ transid \in [Tests -> Nat]
      <3>1. nTestIndex = 1 /\ transid = [t \in Tests |-> 0]
        BY DEF Init
      <3>2. QED
        BY <3>1
    <2>5. QED
      BY <2>2, <2>3, <2>4 DEF Types
  <1>3. Ids /\ Traffic /\ Waiting /\ PreChecked
    BY DEF Init, Ids, Started, Traffic, Waiting, PreChecked
  <1>4. Learned /\ VerdictIsSound
    BY DEF Init, NoResults, NoAddress, Learned, VerdictIsSound
  <1>5. QED
    BY <1>1, <1>2, <1>3, <1>4 DEF IInv

(* A step that leaves the configuration and the results alone.             *)
LEMMA SameResults ==
    ASSUME Configured, Sound, UNCHANGED config, UNCHANGED results
    PROVE  Configured' /\ Sound' /\ Stands
  <1> USE DEF config
  <1>1. Configured'
    BY DEF Configured
  <1>2. ResultTypes'
    BY DEF Sound, ResultTypes
  <1>3. Learned' /\ VerdictIsSound'
    BY DEF Sound, Learned, VerdictIsSound, Mapped, MappedAddress
  <1>4. QED
    BY <1>1, <1>2, <1>3 DEF Sound, Stands

LEMMA PreRunCheckIsSound ==
    ASSUME Configured, Sound, UNCHANGED config, NEW t \in Tests, PreRunCheck(t)
    PROVE  Sound' /\ Stands /\ SameBinding
  <1>1. CASE UNCHANGED results
    BY <1>1, SameResults DEF SameBinding
  <1>2. CASE /\ results.fBindingTestSuccess /\ results.fIsDirect
             /\ results' = [results EXCEPT !.behavior = "Direct", !.fBehaviorTestSuccess = TRUE]
    <2>1. nat.mapping = "Direct"
      BY <1>2 DEF Sound, Learned
    <2>2. /\ results'.behavior = "Direct" /\ results'.fBehaviorTestSuccess = TRUE
          /\ \A f \in ResultFields \ {"behavior", "fBehaviorTestSuccess"} :
                results'[f] = results[f]
          /\ results' = [f \in ResultFields |-> results'[f]]
      BY <1>2 DEF Sound, ResultTypes, ResultFields
    <2>3. ResultTypes'
      BY <2>2 DEF Sound, ResultTypes, ResultFields
    <2>4. Learned'
      BY <2>2 DEF Sound, Learned, ResultFields, Mapped, MappedAddress, config
    <2>5. VerdictIsSound' /\ Stands /\ SameBinding
      BY <2>1, <2>2 DEF Sound, VerdictIsSound, ResultFields, Stands, SameBinding, config
    <2>6. QED
      BY <2>3, <2>4, <2>5 DEF Sound
  <1>3. QED
    BY <1>1, <1>2 DEF PreRunCheck

(* A test that may run has not found its behaviour yet.                    *)
LEMMA NotifyTimeoutIsSound ==
    ASSUME Configured, Sound, UNCHANGED config,
           NEW t \in Tests, IsReadyToRun(t), NotifyTimeout(t)
    PROVE  Sound' /\ Stands
  <1>1. CASE t = "filtering2"
    <2>1. UNCHANGED results
      BY <1>1 DEF NotifyTimeout
    <2>2. QED
      BY <2>1, SameResults
  <1>2. CASE t = "binding1"
    <2>1. results' = [results EXCEPT !.fBindingTestSuccess = FALSE]
      BY <1>2 DEF NotifyTimeout
    <2>2. /\ ~results'.fBindingTestSuccess
          /\ \A f \in ResultFields \ {"fBindingTestSuccess"} : results'[f] = results[f]
          /\ ResultTypes'
      BY <2>1 DEF Sound, ResultTypes, ResultFields
    <2>3. Learned'
      BY <2>2 DEF Sound, Learned, ResultFields, Mapped, MappedAddress, config
    <2>4. VerdictIsSound' /\ Stands
      BY <2>2 DEF Sound, VerdictIsSound, ResultFields, Stands, config
    <2>5. QED
      BY <2>2, <2>3, <2>4 DEF Sound
  <1>3. CASE t \in {"behavior2", "behavior3"}
    <2>1. results' = [results EXCEPT !.fBehaviorTestSuccess = FALSE]
      BY <1>3 DEF NotifyTimeout
    <2>2. /\ ~results'.fBehaviorTestSuccess
          /\ \A f \in ResultFields \ {"fBehaviorTestSuccess"} : results'[f] = results[f]
          /\ ResultTypes'
      BY <2>1 DEF Sound, ResultTypes, ResultFields
    <2>3. ~results.fBehaviorTestSuccess
      BY <1>3 DEF IsReadyToRun, BehaviorIsReady
    <2>4. Learned'
      BY <2>2, <2>3 DEF Sound, Learned, ResultFields, Mapped, MappedAddress, config
    <2>5. VerdictIsSound' /\ Stands
      BY <2>2, <2>3 DEF Sound, VerdictIsSound, ResultFields, Stands, config
    <2>6. QED
      BY <2>2, <2>4, <2>5 DEF Sound
  <1>4. CASE t = "filtering3"
    <2>1. results' = [results EXCEPT !.fFilteringTestSuccess = TRUE,
                                     !.filtering = "AddressAndPortDependent"]
      BY <1>4 DEF NotifyTimeout
    <2>2. /\ results'.filtering = "AddressAndPortDependent"
          /\ \A f \in ResultFields \ {"fFilteringTestSuccess", "filtering"} :
                results'[f] = results[f]
          /\ ResultTypes'
      BY <2>1 DEF Sound, ResultTypes, ResultFields
    <2>3. ~results.fFilteringTestSuccess
      BY <1>4 DEF IsReadyToRun, FilteringIsReady
    <2>4. Learned'
      BY <2>2 DEF Sound, Learned, ResultFields, Mapped, MappedAddress, config
    <2>5. Permissive(results'.filtering) <= Permissive(nat.filtering)
      BY <2>2 DEF Configured, Filterings, Permissive
    <2>6. VerdictIsSound' /\ Stands
      BY <2>2, <2>3, <2>5 DEF Sound, VerdictIsSound, ResultFields, Stands, config
    <2>7. QED
      BY <2>2, <2>4, <2>6 DEF Sound
  <1>5. QED
    BY <1>1, <1>2, <1>3, <1>4 DEF Tests

(* What the client waits for has the id of the current test, and only a    *)
(* response to a request of that test has it too.                          *)
LEMMA ReplyIsHonest ==
    ASSUME IInv, pc = "select", NEW reply \in replies,
           BasicReaderValidation(CurrentTest, reply)
    PROVE  CurrentTest \in Tests /\ reply \in Answers(AsReceived(Asking(CurrentTest)))
  <1>1. CurrentTest \in Tests
    <2>1. nTestIndex \in 1..Len(testlist)
      BY TestListOrder DEF IInv, Configured, Waiting, Types
    <2>2. QED
      BY <2>1, TestListOrder DEF IInv, Configured, CurrentTest
  <1>2. PICK t \in Tests : Started(t) /\ reply \in Answers(AsReceived(Asking(t)))
    BY DEF IInv, Traffic
  <1>3. reply.transid = transid[t] /\ reply.transid = transid[CurrentTest]
    BY <1>2, AnswerToTest DEF IInv, BasicReaderValidation
  <1>4. testlist[transid[t]] = t /\ testlist[transid[CurrentTest]] = CurrentTest
    BY <1>1, <1>2, <1>3 DEF IInv, Ids, Started
  <1>5. t = CurrentTest
    BY <1>3, <1>4
  <1>6. QED
    BY <1>1, <1>2, <1>5

(* While a filtering test waits, the client has sent to the address of     *)
(* the first socket alone, and the filter is as open as the NAT makes it.  *)
LEMMA FilterHolds ==
    ASSUME IInv, pc = "select", CurrentTest \in {"filtering2", "filtering3"},
           NEW r \in {RolePA, RoleAA}, GetsIn(Mapped(RolePP), ServerAddress(r))
    PROVE  /\ r = RoleAA => nat.filtering = "EndpointIndependent"
           /\ r = RolePA => nat.filtering \in {"EndpointIndependent", "AddressDependent"}
  <1>1. nTestIndex \in 1..Len(testlist)
    BY TestListOrder DEF IInv, Configured, Waiting, Types
  <1>2. \A t \in Tests : Started(t) => Target(t) = 0
    <2> SUFFICES ASSUME NEW t \in Tests, Started(t) PROVE Target(t) = 0
      OBVIOUS
    <2>1. /\ transid[t] \in 1..Len(testlist) /\ transid[t] <= nTestIndex
          /\ testlist[transid[t]] = t
      BY DEF IInv, Ids
    <2>2. t \in {"behavior2", "behavior3"} => nTestIndex < transid[t]
      BY <1>1, <2>1, TestListOrder DEF IInv, Configured, CurrentTest
    <2>3. t \notin {"behavior2", "behavior3"}
      BY <1>1, <2>1, <2>2
    <2>4. QED
      BY <2>3 DEF Target, RolePP
  <1>3. PICK p \in permits :
             CASE nat.filtering = "EndpointIndependent" -> TRUE
               [] nat.filtering = "AddressDependent" -> p[2].ip = ServerAddress(r).ip
               [] nat.filtering = "AddressAndPortDependent" -> p[2] = ServerAddress(r)
    BY DEF GetsIn
  <1>4. PICK q \in requests : p = <<MappedAddress(q.dest), q.dest>>
    BY DEF IInv, Traffic
  <1>5. p[2] = ServerAddress(0)
    BY <1>2, <1>4 DEF IInv, Traffic, Asking
  <1>6. /\ ServerAddress(0).ip = "P" /\ ServerAddress(1).ip = "P" /\ ServerAddress(3).ip = "A"
        /\ ServerAddress(0) # ServerAddress(1) /\ ServerAddress(0) # ServerAddress(3)
    <2>1. 0 \in Roles /\ 1 \in Roles /\ 3 \in Roles
      BY DEF Roles
    <2>2. /\ RoleOf(ServerAddress(0)) = 0 /\ RoleOf(ServerAddress(1)) = 1
          /\ RoleOf(ServerAddress(3)) = 3
      BY <2>1, RoleOfAddress
    <2>3. QED
      BY <2>1, <2>2, AddressOfRole
  <1>7. nat.filtering \in Filterings
    BY DEF IInv, Configured
  <1>8. QED
    BY <1>3, <1>5, <1>6, <1>7 DEF Filterings, RolePA, RoleAA

LEMMA ProcessResponseIsSound ==
    ASSUME IInv, UNCHANGED config, pc = "select", NEW reply \in replies,
           GetsIn(reply.dest, reply.from), ProcessResponse(CurrentTest, reply)
    PROVE  /\ Sound' /\ Stands
           /\ CurrentTest \notin completed' => UNCHANGED results
  <1> DEFINE t == CurrentTest
  <1>1. Configured /\ Sound
    BY DEF IInv, Types, Sound
  <1>2. CASE UNCHANGED <<completed, results>>
    BY <1>1, <1>2, SameResults
  <1>3. CASE /\ BasicReaderValidation(t, reply)
             /\ t \in {"filtering2", "filtering3"} \/ reply.mapped # NoAddress
             /\ completed' = completed \cup {t}
             /\ results' = CASE t = "binding1" -> BindingResponse(reply)
                              [] t = "behavior2" -> Behavior2Response(reply)
                              [] t = "behavior3" -> Behavior3Response(reply)
                              [] t = "filtering2" -> Filtering2Response
                              [] t = "filtering3" -> Filtering3Response
    <2>1. t \in Tests /\ reply \in Answers(AsReceived(Asking(t)))
      BY <1>3, ReplyIsHonest
    <2>2. CanRun /\ IsReadyToRun(t) /\ t \notin completed
      BY DEF IInv, Waiting, CanRun
    <2> HIDE DEF t
    <2>3. CASE t = "binding1"
      <3>1. results' = BindingResponse(reply)
        BY <1>3, <2>3
      <3>2. reply.mapped = Mapped(RolePP)
        BY <1>1, <2>1, <2>3, AnswerToTest DEF Target
      <3>3. reply.other # NoAddress =>
               FourSockets(tsa) /\ reply.other = ServerAddress(RoleAA)
        BY <1>1, <2>1, <2>3, AnswerToTest
      <3>4. (addrLocal = reply.mapped) = (nat.mapping = "Direct")
        BY <1>1, <3>2, MappingTable DEF Configured
      <3>5. /\ results'.fBindingTestSuccess = TRUE
            /\ results'.fIsDirect = (addrLocal = reply.mapped)
            /\ results'.addrMapped = reply.mapped
            /\ results'.fHasOtherAddress = (reply.other # NoAddress)
            /\ results'.addrAA = reply.other
            /\ results'.addrAP = IF reply.other # NoAddress
                                  THEN [reply.other EXCEPT !.port = addrServer.port] ELSE NoAddress
            /\ \A f \in ResultFields \ {"fBindingTestSuccess", "fIsDirect", "addrMapped",
                                          "fHasOtherAddress", "addrAA", "addrAP"} :
                  results'[f] = results[f]
            /\ results' = [f \in ResultFields |-> results'[f]]
        BY <1>1, <3>1 DEF BindingResponse, Sound, ResultTypes, ResultFields
      <3>6. ResultTypes'
        BY <1>1, <3>5 DEF Sound, ResultTypes, ResultFields
      <3>7. [ServerAddress(RoleAA) EXCEPT !.port = addrServer.port] = ServerAddress(RoleAP)
        <4>1. RoleAA \in Roles /\ RoleAP \in Roles /\ RolePP \in Roles
          BY DEF RoleAA, RoleAP, RolePP, Roles
        <4>2. /\ ServerAddress(RoleAA) = [ip |-> "A", port |-> <<"a">>]
              /\ ServerAddress(RoleAP) = [ip |-> "A", port |-> <<"p">>]
              /\ ServerAddress(RolePP) = [ip |-> "P", port |-> <<"p">>]
          BY <4>1, AddressOfRole DEF RoleAA, RoleAP, RolePP
        <4>3. QED
          BY <4>2 DEF addrServer
      <3>8. Learned'
        <4>1. results'.fHasOtherAddress =>
                 /\ FourSockets(tsa) /\ results'.addrAA = ServerAddress(RoleAA)
                 /\ results'.addrAP = ServerAddress(RoleAP)
          BY <3>3, <3>5, <3>7
        <4>2. results'.addrMapped = Mapped(RolePP) /\ results'.fIsDirect = (nat.mapping = "Direct")
          BY <3>2, <3>4, <3>5
        <4>3. /\ results'.addrMappingAP = results.addrMappingAP
              /\ results'.fBehaviorTestSuccess = results.fBehaviorTestSuccess
          BY <3>5 DEF ResultFields
        <4>4. UNCHANGED <<nat, tsa>>
          BY DEF config
        <4>5. \A r : Mapped(r)' = Mapped(r)
          BY <4>4 DEF Mapped, MappedAddress
        <4>6. QED
          BY <1>1, <4>1, <4>2, <4>3, <4>4, <4>5 DEF Sound, Learned
      <3>9. VerdictIsSound' /\ Stands
        BY <1>1, <3>5 DEF Sound, VerdictIsSound, ResultFields, Stands, config
      <3>10. QED
        BY <1>3, <3>6, <3>8, <3>9 DEF Sound, t
    <2>4. CASE t = "behavior2"
      <3>1. results' = Behavior2Response(reply)
        BY <1>3, <2>4
      <3>2. reply.mapped = Mapped(RoleAP)
        BY <1>1, <2>1, <2>4, AnswerToTest DEF Target
      <3>3. /\ results.fBindingTestSuccess /\ ~results.fBehaviorTestSuccess
            /\ ~results.fIsDirect
        BY <2>2, <2>4 DEF IsReadyToRun, BehaviorIsReady, IInv, PreChecked, Waiting, t
      <3>4. results.addrMapped = Mapped(RolePP) /\ nat.mapping # "Direct"
        BY <1>1, <3>3 DEF Sound, Learned
      <3>5. Mapped(RoleAP) = Mapped(RolePP) => nat.mapping = "EndpointIndependent"
        BY <1>1, <3>4, MappingTable DEF Configured, Mappings
      <3>6. /\ results'.addrMappingAP = Mapped(RoleAP)
            /\ IF Mapped(RoleAP) = Mapped(RolePP)
               THEN results'.fBehaviorTestSuccess = TRUE
                       /\ results'.behavior = "EndpointIndependent"
               ELSE results'.fBehaviorTestSuccess = results.fBehaviorTestSuccess
            /\ \A f \in ResultFields \ {"addrMappingAP", "fBehaviorTestSuccess", "behavior"} :
                  results'[f] = results[f]
            /\ results' = [f \in ResultFields |-> results'[f]]
        BY <1>1, <3>1, <3>2, <3>4 DEF Behavior2Response, Sound, ResultTypes, ResultFields
      <3>7. ResultTypes'
        <4>1. results'.fBehaviorTestSuccess \in BOOLEAN
          BY <1>1, <3>6, Zenon DEF Sound, ResultTypes
        <4>2. QED
          BY <1>1, <3>6, <4>1 DEF Sound, ResultTypes, ResultFields
      <3>8. Learned'
        <4>1. \A r : Mapped(r)' = Mapped(r)
          BY DEF Mapped, MappedAddress, config
        <4>2. Mapped(RoleAP) = Mapped(RolePP) => results'.fBehaviorTestSuccess
          BY <3>6
        <4>3. QED
          BY <1>1, <3>6, <4>1, <4>2 DEF Sound, Learned, ResultFields, config
      <3>9. VerdictIsSound' /\ Stands
        BY <1>1, <3>3, <3>5, <3>6 DEF Sound, VerdictIsSound, ResultFields, Stands, config
      <3>10. QED
        BY <1>3, <3>7, <3>8, <3>9 DEF Sound, t
    <2>5. CASE t = "behavior3"
      <3>1. results' = Behavior3Response(reply)
        BY <1>3, <2>5
      <3>2. reply.mapped = Mapped(RoleAA)
        BY <1>1, <2>1, <2>5, AnswerToTest DEF Target
      <3>3. ~results.fBehaviorTestSuccess /\ results.addrMappingAP.ip # ZeroIP
        BY <2>2, <2>5 DEF IsReadyToRun, BehaviorIsReady
      <3>4. results.addrMappingAP = Mapped(RoleAP) /\ Mapped(RoleAP) # Mapped(RolePP)
        BY <1>1, <3>3 DEF Sound, Learned
      <3>5. nat.mapping = IF Mapped(RoleAA) = Mapped(RoleAP)
                          THEN "AddressDependent" ELSE "AddressAndPortDependent"
        BY <1>1, <3>4, MappingTable DEF Configured, Mappings
      <3>6. /\ results'.fBehaviorTestSuccess = TRUE /\ results'.behavior = nat.mapping
            /\ \A f \in ResultFields \ {"fBehaviorTestSuccess", "behavior"} :
                  results'[f] = results[f]
            /\ results' = [f \in ResultFields |-> results'[f]]
        BY <1>1, <3>1, <3>2, <3>4, <3>5 DEF Behavior3Response, Sound, ResultTypes, ResultFields
      <3>7. ResultTypes'
        BY <1>1, <3>6 DEF Sound, ResultTypes, ResultFields
      <3>8. Learned'
        BY <1>1, <3>6 DEF Sound, Learned, ResultFields, Mapped, MappedAddress, config
      <3>9. VerdictIsSound' /\ Stands
        BY <1>1, <3>3, <3>6 DEF Sound, VerdictIsSound, ResultFields, Stands, config
      <3>10. QED
        BY <1>3, <3>7, <3>8, <3>9 DEF Sound, t
    <2>6. CASE t \in {"filtering2", "filtering3"}
      <3>1. FourSockets(tsa) /\ ~results.fFilteringTestSuccess
        BY <1>1, <2>2, <2>6 DEF IsReadyToRun, FilteringIsReady, Sound, Learned
      <3>2. /\ reply.dest = Mapped(RolePP)
            /\ reply.from = ServerAddress(IF t = "filtering2" THEN RoleAA ELSE RolePA)
        BY <1>1, <2>1, <2>6, <3>1, AnswerToTest
      <3>3. /\ t = "filtering2" => nat.filtering = "EndpointIndependent"
            /\ t = "filtering3" => nat.filtering \in {"EndpointIndependent", "AddressDependent"}
        BY <2>6, <3>2, FilterHolds DEF t
      <3>4. /\ results'.fFilteringTestSuccess = TRUE
            /\ results'.filtering = IF t = "filtering2" THEN "EndpointIndependent"
                                    ELSE "AddressDependent"
            /\ results'.fGotTest2Response \in BOOLEAN
            /\ \A f \in ResultFields \ {"fFilteringTestSuccess", "filtering", "fGotTest2Response"} :
                  results'[f] = results[f]
            /\ results' = [f \in ResultFields |-> results'[f]]
        BY <1>1, <1>3, <2>6
           DEF Filtering2Response, Filtering3Response, Sound, ResultTypes, ResultFields
      <3>5. ResultTypes'
        BY <1>1, <3>4 DEF Sound, ResultTypes, ResultFields
      <3>6. Learned'
        BY <1>1, <3>4 DEF Sound, Learned, ResultFields, Mapped, MappedAddress, config
      <3>7. Permissive(results'.filtering) <= Permissive(nat.filtering)
        BY <2>6, <3>3, <3>4 DEF Permissive
      <3>8. VerdictIsSound' /\ Stands
        BY <1>1, <3>1, <3>4, <3>7 DEF Sound, VerdictIsSound, ResultFields, Stands, config
      <3>9. QED
        BY <1>3, <3>5, <3>6, <3>8 DEF Sound, t
    <2>7. QED
      BY <2>1, <2>3, <2>4, <2>5, <2>6 DEF Tests
  <1>4. QED
    BY <1>2, <1>3 DEF ProcessResponse

-----------------------------------------------------------------------------

(* The invariant in the parts the steps below disturb one at a time.       *)
LEMMA Parts ==
    IInv <=> /\ Configured /\ Sound /\ Ids /\ Traffic /\ Waiting /\ PreChecked
             /\ nTestIndex \in Nat \ {0} /\ fPreCheckRunOnTest \in BOOLEAN
             /\ transid \in [Tests -> Nat] /\ pc \in {"next", "select", "done"}
  BY DEF IInv, Sound, Types

LEMMA SameTraffic ==
    ASSUME Traffic, UNCHANGED <<config, transid, requests, replies, permits>>
    PROVE  Traffic'
  <1>1. \A q : Answers(AsReceived(q))' = Answers(AsReceived(q))
                  /\ MappedAddress(q.dest)' = MappedAddress(q.dest)
    BY DEF config, Answers, AsReceived, MappedAddress
  <1>2. \A t \in Tests : Started(t)' = Started(t) /\ Asking(t)' = Asking(t)
    BY DEF Started, Asking
  <1>3. QED
    BY <1>1, <1>2 DEF Traffic

(* A step of the client that sends nothing and keeps to the test.          *)
LEMMA SameTest ==
    ASSUME IInv, UNCHANGED <<config, nTestIndex, transid, requests, replies, permits>>,
           Sound', pc' \in {"next", "select", "done"}, fPreCheckRunOnTest' \in BOOLEAN,
           Waiting', PreChecked'
    PROVE  IInv'
  <1>1. Configured' /\ Ids'
    BY DEF IInv, Configured, Ids, Started, config
  <1>2. Traffic'
    BY SameTraffic DEF IInv
  <1>3. /\ nTestIndex' \in Nat \ {0} /\ fPreCheckRunOnTest' \in BOOLEAN
        /\ transid' \in [Tests -> Nat]
    BY DEF IInv, Types
  <1>4. QED
    BY <1>1, <1>2, <1>3 DEF IInv, Sound, Types

LEMMA StepPreCheck ==
    ASSUME IInv, PreCheck
    PROVE  IInv' /\ Stands
  <1>1. /\ pc = "next" /\ nTestIndex <= Len(testlist) /\ ~fPreCheckRunOnTest
        /\ UNCHANGED <<config, pc, nTestIndex, transid, requests, replies, permits>>
        /\ PreRunCheck(CurrentTest)
    BY DEF PreCheck, Running
  <1>2. CurrentTest \in Tests
    <2>1. nTestIndex \in 1..Len(testlist)
      BY <1>1, TestListOrder DEF IInv, Configured, Types
    <2>2. QED
      BY <2>1, TestListOrder DEF IInv, Configured, CurrentTest
  <1>3. Configured /\ Sound
    BY Parts
  <1>4. Sound' /\ Stands /\ SameBinding
    BY <1>1, <1>2, <1>3, PreRunCheckIsSound
  <1>5. CurrentTest' = CurrentTest
    BY <1>1 DEF CurrentTest, config
  <1>6. Waiting'
    BY <1>1 DEF Waiting
  <1>7. PreChecked'
    <2>1. CurrentTest = "behavior2" /\ CurrentTest \notin completed' =>
             ~(results.fBindingTestSuccess /\ results.fIsDirect)
      BY <1>1 DEF PreRunCheck
    <2>2. QED
      BY <1>4, <1>5, <2>1 DEF PreChecked, SameBinding
  <1>8. fPreCheckRunOnTest' \in BOOLEAN
    BY Zenon DEF PreCheck
  <1>9. pc' \in {"next", "select", "done"}
    BY <1>1
  <1>10. QED
    BY <1>1, <1>4, <1>6, <1>7, <1>8, <1>9, SameTest

LEMMA StepNextTest ==
    ASSUME IInv, NextTest
    PROVE  IInv' /\ Stands
  <1>1. /\ pc = "next" /\ nTestIndex' = nTestIndex + 1
        /\ UNCHANGED <<config, pc, transid, results, requests, replies, permits>>
    BY DEF NextTest, Running
  <1>2. fPreCheckRunOnTest' = FALSE
    BY Zenon DEF NextTest
  <1>3. Configured /\ Sound /\ nTestIndex \in Nat \ {0} /\ transid \in [Tests -> Nat]
    BY Parts
  <1>4. Configured' /\ Sound' /\ Stands
    BY <1>1, <1>3, SameResults
  <1>5. nTestIndex' \in Nat \ {0} /\ transid' \in [Tests -> Nat] /\ pc' = "next"
    BY <1>1, <1>3
  <1>6. Ids'
    <2>1. \A t \in Tests : transid[t] <= nTestIndex => transid[t] <= nTestIndex'
      BY <1>1, <1>3
    <2>2. UNCHANGED <<testlist, transid>>
      BY <1>1 DEF config
    <2>3. QED
      BY <2>1, <2>2 DEF IInv, Ids, Started
  <1>7. Traffic'
    BY <1>1, SameTraffic DEF IInv
  <1>8. Waiting' /\ PreChecked' /\ fPreCheckRunOnTest' \in BOOLEAN
    BY <1>1, <1>2, Zenon DEF Waiting, PreChecked
  <1>9. IInv'
    BY <1>4, <1>5, <1>6, <1>7, <1>8 DEF IInv, Types, Sound
  <1>10. QED
    BY <1>4, <1>9

(* The client waits again, gives up on time, or is done.                   *)
LEMMA StepQuiet ==
    ASSUME IInv, UNCHANGED <<config, logic, requests, replies, permits>>,
           pc' \in {"next", "select", "done"},
           pc' = "select" => nTestIndex <= Len(testlist) /\ fPreCheckRunOnTest /\ CanRun
    PROVE  IInv' /\ Stands
  <1>1. UNCHANGED <<config, results, completed, nTestIndex, fPreCheckRunOnTest, transid>>
    BY DEF logic
  <1>2. Configured /\ Sound /\ fPreCheckRunOnTest \in BOOLEAN
    BY Parts
  <1>3. Sound' /\ Stands
    BY <1>1, <1>2, SameResults
  <1>4. Waiting'
    BY <1>1 DEF Waiting, config, CanRun, CurrentTest, IsReadyToRun, BehaviorIsReady,
                FilteringIsReady
  <1>5. PreChecked'
    BY <1>1 DEF IInv, PreChecked, config, CurrentTest
  <1>6. fPreCheckRunOnTest' \in BOOLEAN
    BY <1>1, <1>2
  <1>7. QED
    BY <1>1, <1>3, <1>4, <1>5, <1>6, SameTest

LEMMA StepGiveUp ==
    ASSUME IInv, GiveUp
    PROVE  IInv' /\ Stands
  <1>1. /\ pc = "next" /\ nTestIndex <= Len(testlist) /\ CanRun
        /\ UNCHANGED <<config, pc, nTestIndex, fPreCheckRunOnTest, transid, requests,
                       replies, permits>>
        /\ NotifyTimeout(CurrentTest)
    BY DEF GiveUp, Running
  <1>2. CurrentTest \in Tests
    <2>1. nTestIndex \in 1..Len(testlist)
      BY <1>1, TestListOrder DEF IInv, Configured, Types
    <2>2. QED
      BY <2>1, TestListOrder DEF IInv, Configured, CurrentTest
  <1>3. Configured /\ Sound /\ fPreCheckRunOnTest \in BOOLEAN
    BY Parts
  <1>4. Sound' /\ Stands
    BY <1>1, <1>2, <1>3, NotifyTimeoutIsSound DEF CanRun
  <1>5. Waiting'
    BY <1>1 DEF Waiting
  <1>6. PreChecked'
    <2>1. CurrentTest' = CurrentTest
      BY <1>1 DEF CurrentTest, config
    <2>2. CurrentTest \in completed'
      BY <1>1 DEF NotifyTimeout
    <2>3. QED
      BY <2>1, <2>2 DEF PreChecked
  <1>7. fPreCheckRunOnTest' \in BOOLEAN /\ pc' \in {"next", "select", "done"}
    BY <1>1, <1>3
  <1>8. QED
    BY <1>1, <1>4, <1>5, <1>6, <1>7, SameTest

LEMMA StepReceive ==
    ASSUME IInv, NEW reply \in replies, NEW waited, Receive(reply, waited)
    PROVE  IInv' /\ Stands
  <1>1. /\ pc = "select" /\ pc' = "next" /\ GetsIn(reply.dest, reply.from)
        /\ ProcessResponse(CurrentTest, reply)
        /\ UNCHANGED <<config, nTestIndex, fPreCheckRunOnTest, transid, requests, replies,
                       permits>>
    BY DEF Receive
  <1>2. Sound' /\ Stands /\ (CurrentTest \notin completed' => UNCHANGED results)
    BY <1>1, ProcessResponseIsSound
  <1>3. Waiting'
    BY <1>1 DEF Waiting
  <1>4. PreChecked'
    <2>1. CurrentTest' = CurrentTest
      BY <1>1 DEF CurrentTest, config
    <2>2. CurrentTest \in completed => CurrentTest \in completed'
      BY <1>1 DEF ProcessResponse
    <2>3. QED
      BY <1>1, <1>2, <2>1, <2>2 DEF IInv, PreChecked, config
  <1>5. fPreCheckRunOnTest' \in BOOLEAN /\ pc' \in {"next", "select", "done"}
    BY <1>1, Parts
  <1>6. QED
    BY <1>1, <1>2, <1>3, <1>4, <1>5, SameTest

LEMMA StepSendRequest ==
    ASSUME IInv, SendRequest
    PROVE  IInv' /\ Stands
  <1> DEFINE t == CurrentTest
             id == StartBindingRequest(CurrentTest)
  <1>1. /\ pc = "next" /\ pc' = "select" /\ nTestIndex <= Len(testlist) /\ CanRun
        /\ transid' = [transid EXCEPT ![t] = id]
        /\ requests' = requests \cup {GetMessage(t)}
        /\ UNCHANGED <<config, results, completed, nTestIndex, fPreCheckRunOnTest, replies,
                       permits>>
    BY DEF SendRequest, Running
  <1>2. fPreCheckRunOnTest
    BY DEF SendRequest
  <1>3. /\ Configured /\ Sound /\ fPreCheckRunOnTest \in BOOLEAN
        /\ nTestIndex \in Nat \ {0} /\ transid \in [Tests -> Nat]
    BY Parts
  <1>4. nTestIndex \in 1..Len(testlist) /\ t \in Tests /\ testlist[nTestIndex] = t
    <2>1. nTestIndex \in 1..Len(testlist)
      BY <1>1, <1>3, TestListOrder DEF Configured
    <2>2. QED
      BY <1>3, <2>1, TestListOrder DEF Configured, CurrentTest
  <1>5. id = IF Started(t) THEN transid[t] ELSE nTestIndex
    BY DEF StartBindingRequest, Started
  <1>6. GetMessage(t) = [transid |-> id, dest |-> ServerAddress(Target(t)),
                         changeIP |-> t = "filtering2",
                         changePort |-> t \in {"filtering2", "filtering3"}]
    <2>1. Dest(t) = ServerAddress(Target(t))
      <3>1. CASE t \in {"behavior2", "behavior3"}
        <4>1. results.fHasOtherAddress
          BY <1>1, <3>1 DEF CanRun, IsReadyToRun, BehaviorIsReady
        <4>2. QED
          BY <1>3, <3>1, <4>1 DEF Sound, Learned, Dest, Target
      <3>2. CASE t \notin {"behavior2", "behavior3"}
        BY <3>2 DEF Dest, Target, addrServer
      <3>3. QED
        BY <3>1, <3>2
    <2>2. QED
      BY <2>1 DEF GetMessage
  <1> HIDE DEF t, id
  <1>7. Configured' /\ Sound' /\ Stands
    BY <1>1, <1>3, SameResults
  <1>8. transid' \in [Tests -> Nat] /\ transid'[t] = id /\ id # 0
        /\ \A u \in Tests : u # t => transid'[u] = transid[u]
    BY <1>1, <1>3, <1>4, <1>5 DEF Started
  <1>9. \A u \in Tests : Started(u) => transid'[u] = transid[u]
    BY <1>5, <1>8
  <1>10. Ids'
    <2> SUFFICES ASSUME NEW u \in Tests, transid'[u] # 0
                 PROVE  /\ transid'[u] <= nTestIndex /\ transid'[u] \in 1..Len(testlist)
                        /\ testlist[transid'[u]] = u
      BY <1>1 DEF Ids, Started, config
    <2>1. CASE Started(u)
      BY <1>9, <2>1 DEF IInv, Ids
    <2>2. CASE ~Started(u)
      <3>1. u = t /\ transid'[u] = nTestIndex
        BY <1>5, <1>8, <2>2 DEF Started
      <3>2. QED
        BY <1>3, <1>4, <3>1
    <2>3. QED
      BY <2>1, <2>2
  <1>11. Traffic'
    <2>1. ASSUME NEW q \in requests' PROVE \E u \in Tests : Started(u)' /\ q = Asking(u)'
      <3>1. CASE q \in requests
        <4>1. PICK u \in Tests : Started(u) /\ q = Asking(u)
          BY <3>1 DEF IInv, Traffic
        <4>2. transid'[u] = transid[u]
          BY <1>9, <4>1
        <4>3. QED
          BY <4>1, <4>2 DEF Started, Asking
      <3>2. CASE q = GetMessage(t)
        <4>1. PICK u \in Tests : u = t
          BY <1>4
        <4>2. transid'[u] = id /\ id # 0
          BY <1>8, <4>1
        <4>3. q = Asking(u)' /\ Started(u)'
          BY <1>6, <3>2, <4>1, <4>2 DEF Started, Asking
        <4>4. QED
          BY <4>3
      <3>3. QED
        BY <1>1, <3>1, <3>2
    <2>2. \A q : Answers(AsReceived(q))' = Answers(AsReceived(q))
                     /\ MappedAddress(q.dest)' = MappedAddress(q.dest)
      BY <1>1 DEF config, Answers, AsReceived, MappedAddress
    <2>3. \A r \in replies' : \E q \in requests' : r \in Answers(AsReceived(q))'
      BY <1>1, <2>2 DEF IInv, Traffic
    <2>4. \A p \in permits' : \E q \in requests' : p = <<MappedAddress(q.dest)', q.dest>>
      BY <1>1, <2>2 DEF IInv, Traffic
    <2>5. QED
      BY <2>1, <2>3, <2>4 DEF Traffic
  <1>12. Waiting'
    BY <1>1, <1>2 DEF Waiting, config, CanRun, CurrentTest, IsReadyToRun, BehaviorIsReady,
                      FilteringIsReady
  <1>13. PreChecked'
    BY <1>1 DEF IInv, PreChecked, config, CurrentTest
  <1>14. /\ nTestIndex' \in Nat \ {0} /\ fPreCheckRunOnTest' \in BOOLEAN
         /\ pc' \in {"next", "select", "done"}
    BY <1>1, <1>3
  <1>15. IInv'
    BY <1>7, <1>8, <1>10, <1>11, <1>12, <1>13, <1>14 DEF IInv, Types, Sound
  <1>16. QED
    BY <1>7, <1>15

(* A request reaches the server.                                           *)
LEMMA StepServerReceives ==
    ASSUME IInv, NEW q \in requests, ServerReceives(q)
    PROVE  IInv' /\ Stands
  <1>1. /\ permits' = permits \cup {<<MappedAddress(q.dest), q.dest>>}
        /\ replies' = replies \cup Answers(AsReceived(q))
        /\ UNCHANGED <<config, pc, results, completed, nTestIndex, fPreCheckRunOnTest,
                       transid, requests>>
    BY DEF ServerReceives, logic
  <1>2. /\ Configured /\ Sound /\ fPreCheckRunOnTest \in BOOLEAN
        /\ nTestIndex \in Nat \ {0} /\ transid \in [Tests -> Nat]
        /\ pc \in {"next", "select", "done"}
    BY Parts
  <1>3. Configured' /\ Sound' /\ Stands
    BY <1>1, <1>2, SameResults
  <1>4. Ids' /\ PreChecked'
    BY <1>1 DEF IInv, Ids, Started, PreChecked, CurrentTest, config
  <1>5. Waiting'
    BY <1>1 DEF IInv, Waiting, config, CanRun, CurrentTest, IsReadyToRun, BehaviorIsReady,
                FilteringIsReady
  <1>6. Traffic'
    <2>1. \A x : Answers(AsReceived(x))' = Answers(AsReceived(x))
                     /\ MappedAddress(x.dest)' = MappedAddress(x.dest)
      BY <1>1 DEF config, Answers, AsReceived, MappedAddress
    <2>2. \A t \in Tests : Started(t)' = Started(t) /\ Asking(t)' = Asking(t)
      BY <1>1 DEF Started, Asking
    <2>3. \A x \in requests' : \E t \in Tests : Started(t)' /\ x = Asking(t)'
      BY <1>1, <2>2 DEF IInv, Traffic
    <2>4. \A r \in replies' : \E x \in requests' : r \in Answers(AsReceived(x))'
      BY <1>1, <2>1 DEF IInv, Traffic
    <2>5. \A p \in permits' : \E x \in requests' : p = <<MappedAddress(x.dest)', x.dest>>
      BY <1>1, <2>1 DEF IInv, Traffic
    <2>6. QED
      BY <2>3, <2>4, <2>5 DEF Traffic
  <1>7. QED
    BY <1>1, <1>2, <1>3, <1>4, <1>5, <1>6 DEF IInv, Types, Sound

LEMMA StepInvariant == IInv /\ [Next]_vars => IInv' /\ Stands
  <1> SUFFICES ASSUME IInv, [Next]_vars PROVE IInv' /\ Stands
    OBVIOUS
  <1>1. CASE KeepWaiting
    BY <1>1, StepQuiet DEF KeepWaiting, Running
  <1>2. CASE ResultsReady
    BY <1>2, StepQuiet DEF ResultsReady
  <1>3. CASE SelectTimeout
    BY <1>3, StepQuiet DEF SelectTimeout
  <1>4. CASE UNCHANGED vars
    <2>1. UNCHANGED <<config, logic, requests, replies, permits, pc>>
      BY <1>4 DEF vars
    <2>2. pc \in {"next", "select", "done"} /\ Waiting
      BY Parts
    <2>3. QED
      BY <2>1, <2>2, StepQuiet DEF Waiting
  <1>5. CASE PreCheck \/ NextTest \/ GiveUp \/ SendRequest
    BY <1>5, StepPreCheck, StepNextTest, StepGiveUp, StepSendRequest
  <1>6. ASSUME NEW r \in replies, NEW waited, Receive(r, waited) PROVE IInv' /\ Stands
    BY <1>6, StepReceive
  <1>7. ASSUME NEW q \in requests, ServerReceives(q) PROVE IInv' /\ Stands
    BY <1>7, StepServerReceives
  <1>8. QED
    BY <1>1, <1>2, <1>3, <1>4, <1>5, <1>6, <1>7 DEF Next, GetNextMessage, Wait

LEMMA Invariant == Spec => []IInv
  <1>1. IInv /\ [Next]_vars => IInv'
    BY StepInvariant
  <1>2. QED
    BY InitInvariant, <1>1, PTL DEF Spec

-----------------------------------------------------------------------------

(* CStunClientLogic never reports a mapping behaviour the NAT has not, nor *)
(* a filter more permissive than the NAT's, whatever the network loses,    *)
(* repeats, delays or overtakes: a response counts for the test that has   *)
(* its transaction id, and no test sends to where a filtering test is to   *)
(* be answered from.                                                       *)
THEOREM SoundTheorem == Spec => []VerdictIsSound
  <1>1. IInv => VerdictIsSound
    BY DEF IInv
  <1>2. QED
    BY <1>1, Invariant, PTL

(* What a test has found stands: later responses, and the NotifyTimeout of *)
(* the tests that follow, come only to tests that have nothing to report.  *)
THEOREM StandsTheorem == Spec => VerdictStands
  <1>1. IInv /\ [Next]_vars =>
           [/\ results.fBehaviorTestSuccess =>
                  results'.fBehaviorTestSuccess /\ results'.behavior = results.behavior
            /\ results.fFilteringTestSuccess =>
                  results'.fFilteringTestSuccess
                     /\ results'.filtering = results.filtering]_vars
    BY StepInvariant DEF Stands
  <1>2. QED
    BY <1>1, Invariant, PTL DEF Spec, VerdictStands

-----------------------------------------------------------------------------
(* Completeness: what the client finds out when no test is given up while  *)
(* its answer could still come.                                            *)

(* Whether the filter of the NAT lets the answer to a test in.             *)
GetsThrough(test) ==
    CASE test = "filtering2" -> nat.filtering = "EndpointIndependent"
      [] test = "filtering3" -> nat.filtering # "AddressAndPortDependent"
      [] OTHER -> TRUE

(* The server has four sockets with their own addresses, or advertises     *)
(* none.                                                                   *)
Uniform ==
    FourSockets(tsa) => \/ \A r \in Roles : tsa[r].addr = ServerAddress(r)
                        \/ \A r \in Roles : tsa[r].addr = NoAddress

(* What the client could only have learnt from a full server.              *)
Known ==
    /\ results.fHasOtherAddress => Full
    /\ results.fBehaviorTestSuccess => Full \/ nat.mapping = "Direct"
    /\ results.fFilteringTestSuccess => Full
    /\ results.fGotTest2Response => results.fFilteringTestSuccess

(* A reply is on its way only after a request that opened the NAT for it.  *)
Permitted ==
    \A r \in replies : \E q \in requests :
        r \in Answers(AsReceived(q)) /\ <<MappedAddress(q.dest), q.dest>> \in permits

(* A test that has asked has its request among those sent.                 *)
Sent ==
    nTestIndex <= Len(testlist) /\ sendCount # 0 =>
        Started(CurrentTest) /\ Asking(CurrentTest) \in requests

(* A test that has its answer or was given up.                             *)
Past(t) ==
    t \in completed \/ \E i \in 1..Len(testlist) : i < nTestIndex /\ testlist[i] = t

(* What a test that is past has found out.                                 *)
Told(t) ==
    CASE t = "binding1" -> results.fBindingTestSuccess /\ (Full => results.fHasOtherAddress)
      [] t = "filtering2" ->
            Full => results.fFilteringTestSuccess \/ nat.filtering # "EndpointIndependent"
      [] t = "filtering3" -> Full => results.fFilteringTestSuccess
      [] t = "behavior2" ->
            Full \/ nat.mapping = "Direct" =>
               results.fBehaviorTestSuccess \/ results.addrMappingAP.ip # ZeroIP
      [] t = "behavior3" ->
            Full \/ nat.mapping = "Direct" => results.fBehaviorTestSuccess

Complete ==
    timely => /\ \A t \in Tests : Past(t) => Told(t)
              /\ results.fFilteringTestSuccess => results.filtering = nat.filtering

CInv ==
    /\ sendCount \in Nat
    /\ pc = "done" => nTestIndex > Len(testlist)
    /\ Uniform /\ Known /\ Permitted /\ Sent /\ Complete

-----------------------------------------------------------------------------

(* A response to the test that has asked gets through the NAT unless the   *)
(* test is one the filter stops, for the request of the test has opened    *)
(* the way for it.                                                         *)
LEMMA ReplyGetsIn ==
    ASSUME IInv, CInv, nTestIndex <= Len(testlist), CanRun, sendCount # 0,
           GetsThrough(CurrentTest), NEW reply \in replies,
           reply.transid = transid[CurrentTest]
    PROVE  GetsIn(reply.dest, reply.from)
  <1> DEFINE t == CurrentTest
  <1>1. t \in Tests /\ Started(t) /\ CanRun
    <2>1. nTestIndex \in 1..Len(testlist)
      BY TestListOrder DEF IInv, Configured, Types
    <2>2. Started(t)
      BY <2>1 DEF CInv, Sent
    <2>3. QED
      BY <2>1, <2>2, TestListOrder DEF IInv, Configured, CurrentTest
  <1>2. PICK q \in requests : /\ reply \in Answers(AsReceived(q))
                              /\ <<MappedAddress(q.dest), q.dest>> \in permits
    BY DEF CInv, Permitted
  <1>3. PICK u \in Tests : Started(u) /\ q = Asking(u)
    BY DEF IInv, Traffic
  <1>4. u = t
    <2>1. reply.transid = transid[u]
      BY <1>2, <1>3, AnswerToTest DEF IInv
    <2>2. testlist[transid[u]] = u /\ testlist[transid[t]] = t
      BY <1>1, <1>3 DEF IInv, Ids
    <2>3. QED
      BY <2>1, <2>2
  <1> HIDE DEF t
  <1>5. <<Mapped(Target(t)), ServerAddress(Target(t))>> \in permits
    BY <1>2, <1>3, <1>4 DEF Asking, Mapped
  <1>6. reply.dest = Mapped(Target(t)) /\ nat.filtering \in Filterings
    BY <1>1, <1>2, <1>3, <1>4, AnswerToTest DEF IInv, Configured
  <1>7. CASE t \notin {"filtering2", "filtering3"}
    <2>1. reply.from = ServerAddress(Target(t))
      BY <1>1, <1>2, <1>3, <1>4, <1>7, AnswerToTest DEF IInv
    <2>2. QED
      BY <1>5, <1>6, <2>1 DEF GetsIn, Filterings
  <1>8. CASE t \in {"filtering2", "filtering3"}
    <2>1. FourSockets(tsa)
      BY <1>1, <1>8 DEF CanRun, IsReadyToRun, FilteringIsReady, IInv, Learned, t
    <2>2. /\ Target(t) = RolePP
          /\ reply.from = ServerAddress(IF t = "filtering2" THEN RoleAA ELSE RolePA)
      BY <1>1, <1>2, <1>3, <1>4, <1>8, <2>1, AnswerToTest DEF IInv, Target
    <2>3. CASE t = "filtering2"
      BY <1>5, <1>6, <2>3 DEF GetsIn, GetsThrough, t
    <2>4. CASE t = "filtering3"
      <3>1. ServerAddress(RolePA).ip = ServerAddress(RolePP).ip
        BY DEF ServerAddress
      <3>2. reply.from.ip = ServerAddress(Target(t)).ip
        BY <2>2, <2>4, <3>1
      <3>3. nat.filtering \in {"EndpointIndependent", "AddressDependent"}
        BY <1>6, <2>4 DEF GetsThrough, Filterings, t
      <3>4. QED
        BY <1>5, <1>6, <3>2, <3>3 DEF GetsIn
    <2>5. QED
      BY <1>8, <2>3, <2>4
  <1>9. QED
    BY <1>7, <1>8

LEMMA AnswerIsComing ==
    ASSUME IInv, CInv, nTestIndex <= Len(testlist), CanRun, sendCount # 0,
           GetsThrough(CurrentTest)
    PROVE  AnswerComes
  <1>1. Asking(CurrentTest) \in requests
    BY DEF CInv, Sent
  <1>2. Asking(CurrentTest).transid = transid[CurrentTest]
    BY DEF Asking
  <1>3. CASE \A r \in replies : r.transid # transid[CurrentTest]
    BY <1>1, <1>2, <1>3 DEF AnswerComes
  <1>4. ASSUME NEW r \in replies, r.transid = transid[CurrentTest] PROVE AnswerComes
    BY <1>4, ReplyGetsIn DEF AnswerComes
  <1>5. QED
    BY <1>3, <1>4

(* A test that is given up although its answer could come ends timely: a   *)
(* test given up otherwise is one whose answer the filter stops.           *)
LEMMA GivenUpIsFiltered ==
    ASSUME IInv, CInv, GiveUp, timely'
    PROVE  timely /\ ~GetsThrough(CurrentTest)
  <1>1. /\ nTestIndex <= Len(testlist) /\ CanRun /\ ~(sendCount < MaxAttempts)
        /\ timely /\ ~AnswerComes
    BY DEF GiveUp, Running, AttemptsLeft
  <1>2. sendCount # 0
    BY <1>1, NatAssumption DEF NatAssumption, CInv
  <1>3. QED
    BY <1>1, <1>2, AnswerIsComing

(* What a step that keeps to the test may do to what the tests have found. *)
Grows ==
    /\ results.fBindingTestSuccess => results'.fBindingTestSuccess
    /\ Full /\ results.fHasOtherAddress => results'.fHasOtherAddress
    /\ results.addrMappingAP.ip # ZeroIP => results'.addrMappingAP.ip # ZeroIP

LEMMA ToldStays ==
    ASSUME UNCHANGED config, Stands, Grows, NEW t \in Tests, Told(t)
    PROVE  Told(t)'
  <1>1. Full' = Full /\ nat' = nat
    BY DEF config, Full, FourSockets, HasAddress
  <1>2. CASE t = "binding1"
    BY <1>1, <1>2 DEF Told, Grows
  <1>3. CASE t \in {"filtering2", "filtering3"}
    BY <1>1, <1>3 DEF Told, Stands
  <1>4. CASE t \in {"behavior2", "behavior3"}
    BY <1>1, <1>4 DEF Told, Grows, Stands
  <1>5. QED
    BY <1>2, <1>3, <1>4 DEF Tests

(* A step that leaves the results and the tests alone.                     *)
LEMMA SameVerdict ==
    ASSUME Known, Complete, UNCHANGED <<config, results, completed, nTestIndex>>,
           timely' => timely
    PROVE  Known' /\ Complete'
  <1>1. /\ Full' = Full /\ nat' = nat
        /\ \A t \in Tests : Past(t)' = Past(t) /\ Told(t)' = Told(t)
    BY DEF config, Full, FourSockets, HasAddress, Past, Told
  <1>2. QED
    BY <1>1 DEF Known, Complete

(* A step that may complete the current test.                              *)
LEMMA TestOver ==
    ASSUME Complete, UNCHANGED <<config, nTestIndex>>, Stands,
           completed' \subseteq completed \cup {CurrentTest}, timely' => timely,
           timely' =>
              /\ Grows
              /\ \A t \in Tests : t = CurrentTest /\ t \in completed' => Told(t)'
              /\ results'.fFilteringTestSuccess => results'.filtering = nat.filtering
    PROVE  Complete'
  <1> SUFFICES ASSUME timely' PROVE Complete'
    BY DEF Complete
  <1>1. ASSUME NEW t \in Tests, Past(t)' PROVE Told(t)'
    <2>1. CASE Past(t)
      BY <2>1, ToldStays DEF Complete
    <2>2. CASE t \in completed' /\ t \notin completed
      BY <2>2
    <2>3. QED
      BY <1>1, <2>1, <2>2 DEF Past, config
  <1>2. nat' = nat
    BY DEF config
  <1>3. QED
    BY <1>1, <1>2 DEF Complete

(* The current test is the first of the list or comes after it.            *)
LEMMA BindingIsPast ==
    ASSUME IInv, nTestIndex <= Len(testlist)
    PROVE  /\ nTestIndex \in 1..Len(testlist) /\ CurrentTest \in Tests
           /\ CurrentTest # "binding1" => Past("binding1")
           /\ CurrentTest = "filtering3" => Past("filtering2")
           /\ CurrentTest = "behavior3" => Past("behavior2")
  <1>1. nTestIndex \in 1..Len(testlist) /\ Len(testlist) \in Nat \ {0}
    BY TestListOrder DEF IInv, Configured, Types
  <1>2. CurrentTest \in Tests
    BY <1>1, TestListOrder DEF IInv, Configured, CurrentTest
  <1>3. ASSUME CurrentTest # "binding1" PROVE Past("binding1")
    <2>1. testlist[1] = "binding1" /\ 1 \in 1..Len(testlist)
      BY <1>1, TestListOrder DEF IInv, Configured
    <2>2. 1 < nTestIndex
      BY <1>1, <1>3, <2>1 DEF CurrentTest
    <2>3. QED
      BY <2>1, <2>2 DEF Past
  <1>4. ASSUME NEW t \in Tests, nTestIndex > 1, testlist[nTestIndex - 1] = t PROVE Past(t)
    <2>1. nTestIndex - 1 \in 1..Len(testlist) /\ nTestIndex - 1 < nTestIndex
      BY <1>1, <1>4
    <2>2. QED
      BY <1>4, <2>1 DEF Past
  <1>5. /\ CurrentTest = "filtering3" => nTestIndex > 1 /\ testlist[nTestIndex - 1] = "filtering2"
        /\ CurrentTest = "behavior3" => nTestIndex > 1 /\ testlist[nTestIndex - 1] = "behavior2"
    BY <1>1, TestListOrder DEF IInv, Configured, CurrentTest
  <1>6. QED
    BY <1>1, <1>2, <1>3, <1>4, <1>5 DEF Tests
(* A test that is passed over has nothing to find.                         *)
LEMMA SkippedIsTold ==
    ASSUME IInv, CInv, timely, nTestIndex <= Len(testlist), fPreCheckRunOnTest, ~CanRun
    PROVE  Told(CurrentTest)
  <1> DEFINE t == CurrentTest
  <1>1. /\ t \in Tests /\ Complete /\ Known /\ Configured /\ Learned
        /\ \A u \in Tests : Past(u) => Told(u)
    BY BindingIsPast DEF CInv, IInv, Complete
  <1>2. CASE t \in completed
    BY <1>1, <1>2 DEF Past
  <1>3. CASE t \notin completed
    <2>1. ~IsReadyToRun(t)
      BY <1>3 DEF CanRun
    <2>2. t # "binding1"
      BY <1>3, <2>1 DEF IsReadyToRun
    <2>3. results.fBindingTestSuccess /\ (Full => results.fHasOtherAddress)
      <3>1. Told("binding1")
        BY <1>1, <2>2, BindingIsPast DEF Tests
      <3>2. QED
        BY <3>1 DEF Told
    <2>4. CASE t \in {"filtering2", "filtering3"}
      <3>1. ~FilteringIsReady
        BY <1>3, <2>1, <2>4 DEF IsReadyToRun
      <3>2. Full => results.fFilteringTestSuccess
        BY <1>1, <2>3, <3>1 DEF FilteringIsReady, Known
      <3>3. QED
        BY <2>4, <3>2 DEF Told
    <2>5. CASE t = "behavior2"
      <3>1. ~BehaviorIsReady
        BY <1>3, <2>1, <2>5 DEF IsReadyToRun
      <3>2. nat.mapping # "Direct"
        BY <1>1, <1>3, <2>3, <2>5 DEF IInv, PreChecked, Learned
      <3>3. QED
        BY <2>3, <2>5, <3>1, <3>2 DEF BehaviorIsReady, Told
    <2>6. CASE t = "behavior3"
      <3>1. Told("behavior2")
        BY <1>1, <2>6, BindingIsPast DEF Tests
      <3>2. results.addrMappingAP.ip # ZeroIP /\ nat.mapping = "Direct" =>
               results.fBehaviorTestSuccess
        BY <1>1, MappingTable DEF Configured, Learned
      <3>3. ~(BehaviorIsReady /\ results.addrMappingAP.ip # ZeroIP)
        BY <1>3, <2>1, <2>6 DEF IsReadyToRun
      <3>4. QED
        BY <2>3, <2>6, <3>1, <3>2, <3>3 DEF BehaviorIsReady, Told
    <2>7. QED
      BY <1>1, <2>2, <2>4, <2>5, <2>6 DEF Tests
  <1>4. QED
    BY <1>2, <1>3

LEMMA NextTestCompletes ==
    ASSUME IInv, CInv, NextTest
    PROVE  Known' /\ Complete'
  <1>1. /\ nTestIndex <= Len(testlist) /\ nTestIndex' = nTestIndex + 1 /\ ~CanRun
        /\ UNCHANGED <<config, results, completed, timely>>
    BY DEF NextTest, Running
  <1>2. fPreCheckRunOnTest
    BY DEF NextTest
  <1>3. /\ Full' = Full /\ nat' = nat /\ testlist' = testlist
        /\ \A t \in Tests : Told(t)' = Told(t)
    BY <1>1 DEF config, Full, FourSockets, HasAddress, Told
  <1>4. Known'
    BY <1>1, <1>3 DEF CInv, Known
  <1>5. ASSUME timely, NEW t \in Tests, Past(t)' PROVE Told(t)
    <2>1. CASE Past(t)
      BY <1>5, <2>1 DEF CInv, Complete
    <2>2. CASE ~Past(t)
      <3>1. PICK i \in 1..Len(testlist) : i < nTestIndex + 1 /\ testlist[i] = t
        BY <1>1, <1>3, <1>5, <2>2 DEF Past
      <3>2. ~(i < nTestIndex) /\ i \in Nat /\ nTestIndex \in Nat
        BY <1>1, <2>2, <3>1, BindingIsPast DEF Past
      <3>3. t = CurrentTest
        BY <3>1, <3>2 DEF CurrentTest
      <3>4. QED
        BY <1>1, <1>2, <1>5, <3>3, SkippedIsTold
    <2>3. QED
      BY <2>1, <2>2
  <1>6. QED
    BY <1>1, <1>3, <1>4, <1>5 DEF CInv, Complete

LEMMA PreCheckCompletes ==
    ASSUME IInv, CInv, Stands, PreCheck
    PROVE  Known' /\ Complete'
  <1>1. /\ nTestIndex <= Len(testlist) /\ PreRunCheck(CurrentTest)
        /\ UNCHANGED <<config, nTestIndex, timely>>
    BY DEF PreCheck, Running
  <1>2. CASE UNCHANGED <<completed, results>>
    BY <1>1, <1>2, SameVerdict DEF CInv
  <1>3. CASE /\ CurrentTest = "behavior2" /\ results.fBindingTestSuccess /\ results.fIsDirect
             /\ completed' = completed \cup {CurrentTest}
             /\ results' = [results EXCEPT !.behavior = "Direct", !.fBehaviorTestSuccess = TRUE]
    <2>1. nat.mapping = "Direct" /\ ResultTypes
      BY <1>3 DEF IInv, Learned, Types
    <2>2. /\ results'.fBehaviorTestSuccess
          /\ \A f \in ResultFields \ {"behavior", "fBehaviorTestSuccess"} :
                results'[f] = results[f]
      BY <1>3, <2>1 DEF ResultTypes, ResultFields
    <2>3. Full' = Full /\ nat' = nat
      BY <1>1 DEF config, Full, FourSockets, HasAddress
    <2>4. Known'
      BY <2>1, <2>2, <2>3 DEF CInv, Known, ResultFields
    <2>5. Grows
      BY <2>2 DEF Grows, ResultFields
    <2>6. Told("behavior2")'
      BY <2>2 DEF Told
    <2>7. timely => (results'.fFilteringTestSuccess => results'.filtering = nat.filtering)
      BY <2>2 DEF CInv, Complete, ResultFields
    <2>8. Complete
      BY DEF CInv
    <2>9. QED
      BY <1>1, <1>3, <2>4, <2>5, <2>6, <2>7, <2>8, TestOver
  <1>4. QED
    BY <1>1, <1>2, <1>3 DEF PreRunCheck
(* A test that runs after the binding test runs against a full server.     *)
LEMMA ReadyIsFull ==
    ASSUME Known, CanRun, CurrentTest \in Tests, CurrentTest # "binding1"
    PROVE  Full
  BY DEF CanRun, IsReadyToRun, BehaviorIsReady, FilteringIsReady, Known, Tests

LEMMA GiveUpCompletes ==
    ASSUME IInv, CInv, Stands, GiveUp
    PROVE  Known' /\ Complete'
  <1> DEFINE t == CurrentTest
  <1>1. /\ nTestIndex <= Len(testlist) /\ CanRun /\ NotifyTimeout(t)
        /\ UNCHANGED <<config, nTestIndex>> /\ (timely' => timely)
    BY DEF GiveUp, Running
  <1>2. t \in Tests /\ completed' = completed \cup {t} /\ ResultTypes /\ Known /\ Complete
    BY <1>1, BindingIsPast DEF NotifyTimeout, IInv, Types, CInv
  <1>3. Full' = Full /\ nat' = nat /\ nat.filtering \in Filterings
    BY <1>1 DEF config, Full, FourSockets, HasAddress, IInv, Configured
  <1>4. CASE t = "filtering2"
    <2>1. results' = results
      BY <1>1, <1>4 DEF NotifyTimeout
    <2>2. Known' /\ Grows
      BY <1>2, <1>3, <2>1 DEF Known, Grows
    <2>3. timely' => nat.filtering # "EndpointIndependent"
      BY <1>4, GivenUpIsFiltered DEF GetsThrough
    <2>4. timely' => Told("filtering2")'
      BY <1>3, <2>3 DEF Told
    <2>5. timely' => (results'.fFilteringTestSuccess => results'.filtering = nat.filtering)
      BY <1>1, <1>2, <2>1 DEF Complete
    <2>6. QED
      BY <1>1, <1>2, <1>4, <2>2, <2>4, <2>5, TestOver
  <1>5. CASE t = "filtering3"
    <2>1. results' = [results EXCEPT !.fFilteringTestSuccess = TRUE,
                                     !.filtering = "AddressAndPortDependent"]
      BY <1>1, <1>5 DEF NotifyTimeout
    <2>2. /\ results'.fFilteringTestSuccess /\ results'.filtering = "AddressAndPortDependent"
          /\ \A f \in ResultFields \ {"fFilteringTestSuccess", "filtering"} :
                results'[f] = results[f]
      BY <1>2, <2>1 DEF ResultTypes, ResultFields
    <2>3. Full
      BY <1>1, <1>2, <1>5, ReadyIsFull
    <2>4. Known' /\ Grows /\ Told("filtering3")'
      BY <1>2, <1>3, <2>2, <2>3 DEF Known, Grows, Told, ResultFields
    <2>5. timely' => nat.filtering = "AddressAndPortDependent"
      BY <1>5, GivenUpIsFiltered DEF GetsThrough
    <2>6. QED
      BY <1>1, <1>2, <1>5, <2>2, <2>4, <2>5, TestOver
  <1>6. CASE t \notin {"filtering2", "filtering3"}
    <2>1. ~timely'
      BY <1>6, GivenUpIsFiltered DEF GetsThrough
    <2>2. \/ results' = [results EXCEPT !.fBindingTestSuccess = FALSE]
          \/ results' = [results EXCEPT !.fBehaviorTestSuccess = FALSE]
      BY <1>1, <1>2, <1>6 DEF NotifyTimeout, Tests
    <2>3. /\ results'.fBehaviorTestSuccess => results.fBehaviorTestSuccess
          /\ \A f \in ResultFields \ {"fBindingTestSuccess", "fBehaviorTestSuccess"} :
                results'[f] = results[f]
      BY <1>2, <2>2, Zenon DEF ResultTypes, ResultFields
    <2>4. Known'
      BY <1>2, <1>3, <2>3 DEF Known, ResultFields
    <2>5. QED
      BY <1>1, <2>1, <2>4 DEF Complete
  <1>7. QED
    BY <1>4, <1>5, <1>6
LEMMA BindingCompletes ==
    ASSUME IInv, CInv, UNCHANGED config, NEW reply,
           reply \in Answers(AsReceived(Asking("binding1"))), results' = BindingResponse(reply)
    PROVE  /\ Known' /\ Grows /\ Told("binding1")'
           /\ results'.fFilteringTestSuccess = results.fFilteringTestSuccess
           /\ results'.filtering = results.filtering
  <1>1. Full' = Full /\ nat' = nat /\ Configured /\ ResultTypes /\ Known
    BY DEF config, Full, FourSockets, HasAddress, IInv, Types, CInv
  <1>2. /\ results'.fBindingTestSuccess = TRUE
        /\ results'.fHasOtherAddress = (reply.other # NoAddress)
        /\ \A f \in ResultFields \ {"fBindingTestSuccess", "fIsDirect", "addrMapped",
                                      "fHasOtherAddress", "addrAA", "addrAP"} :
              results'[f] = results[f]
    BY <1>1 DEF BindingResponse, ResultTypes, ResultFields
  <1>3. /\ Full => reply.other # NoAddress
        /\ reply.other # NoAddress => FourSockets(tsa) /\ reply.other = tsa[RoleAA].addr
    BY <1>1, AnswerToTest DEF Tests
  <1>4. reply.other # NoAddress => Full
    <2>1. ASSUME reply.other # NoAddress PROVE Full
      <3>1. FourSockets(tsa) /\ tsa[RoleAA].addr # NoAddress /\ RoleAA \in Roles
        BY <1>3, <2>1 DEF Roles, RoleAA
      <3>2. \A r \in Roles : tsa[r].addr = ServerAddress(r)
        BY <3>1 DEF CInv, Uniform
      <3>3. \A r \in Roles : ServerAddress(r).ip # ZeroIP
        BY DEF ServerAddress, ZeroIP
      <3>4. QED
        BY <3>1, <3>2, <3>3 DEF Full
    <2>2. QED
      BY <2>1
  <1>5. Known'
    BY <1>1, <1>2, <1>4 DEF Known, ResultFields
  <1>6. Grows /\ Told("binding1")'
    BY <1>1, <1>2, <1>3 DEF Grows, Told, ResultFields
  <1>7. QED
    BY <1>2, <1>5, <1>6 DEF ResultFields

LEMMA BehaviorCompletes ==
    ASSUME IInv, CInv, UNCHANGED config, NEW t \in {"behavior2", "behavior3"}, Full,
           NEW reply, reply \in Answers(AsReceived(Asking(t))),
           results' = IF t = "behavior2" THEN Behavior2Response(reply)
                                         ELSE Behavior3Response(reply)
    PROVE  /\ Known' /\ Grows /\ Told(t)'
           /\ results'.fFilteringTestSuccess = results.fFilteringTestSuccess
           /\ results'.filtering = results.filtering
  <1>1. Full' = Full /\ nat' = nat /\ Configured /\ ResultTypes /\ Known
    BY DEF config, Full, FourSockets, HasAddress, IInv, Types, CInv
  <1>2. \A f \in ResultFields \ {"addrMappingAP", "fBehaviorTestSuccess", "behavior"} :
           results'[f] = results[f]
    BY <1>1 DEF Behavior2Response, Behavior3Response, ResultTypes, ResultFields
  <1>3. Known'
    BY <1>1, <1>2 DEF Known, ResultFields
  <1>4. CASE t = "behavior2"
    <2>1. reply.mapped.ip # ZeroIP
      <3>1. reply.mapped = Mapped(Target(t)) /\ Target(t) \in Roles
        BY <1>1, <1>4, AnswerToTest DEF Tests, Target, Roles, RoleAP
      <3>2. QED
        BY <1>1, <3>1, MappingTable DEF Configured
    <2>2. results'.addrMappingAP = reply.mapped
      BY <1>1, <1>4 DEF Behavior2Response, ResultTypes, ResultFields
    <2>3. Told(t)'
      BY <1>4, <2>1, <2>2 DEF Told
    <2>4. Grows
      BY <1>2, <2>1, <2>2 DEF Grows, ResultFields
    <2>5. QED
      BY <1>2, <1>3, <2>3, <2>4 DEF ResultFields
  <1>5. CASE t = "behavior3"
    <2>1. results'.fBehaviorTestSuccess /\ results'.addrMappingAP = results.addrMappingAP
      BY <1>1, <1>5 DEF Behavior3Response, ResultTypes, ResultFields
    <2>2. Told(t)' /\ Grows
      BY <1>2, <1>5, <2>1 DEF Told, Grows, ResultFields
    <2>3. QED
      BY <1>2, <1>3, <2>2 DEF ResultFields
  <1>6. QED
    BY <1>4, <1>5

LEMMA FilteringCompletes ==
    ASSUME IInv, CInv, VerdictIsSound', UNCHANGED config,
           NEW t \in {"filtering2", "filtering3"}, t = CurrentTest, Full,
           nTestIndex <= Len(testlist), ~results.fFilteringTestSuccess,
           results' = IF t = "filtering2" THEN Filtering2Response ELSE Filtering3Response
    PROVE  /\ Known' /\ Grows /\ Told(t)'
           /\ timely => results'.filtering = nat.filtering
  <1>1. /\ Full' = Full /\ nat' = nat /\ nat.filtering \in Filterings /\ ResultTypes /\ Known
    BY DEF config, Full, FourSockets, HasAddress, IInv, Configured, Types, CInv
  <1>2. /\ results'.fFilteringTestSuccess
        /\ results'.filtering = IF t = "filtering2" THEN "EndpointIndependent"
                                ELSE "AddressDependent"
        /\ \A f \in ResultFields \ {"fFilteringTestSuccess", "filtering", "fGotTest2Response"} :
              results'[f] = results[f]
    BY <1>1 DEF Filtering2Response, Filtering3Response, ResultTypes, ResultFields
  <1>3. Known' /\ Grows /\ Told(t)'
    BY <1>1, <1>2 DEF Known, Grows, Told, ResultFields
  <1>4. Permissive(results'.filtering) <= Permissive(nat.filtering)
    BY <1>1, <1>2 DEF VerdictIsSound
  <1>5. CASE t = "filtering2"
    BY <1>1, <1>2, <1>3, <1>4, <1>5 DEF Permissive, Filterings
  <1>6. CASE t = "filtering3"
    <2>1. timely => nat.filtering # "EndpointIndependent"
      <3>1. timely => Told("filtering2")
        BY <1>6, BindingIsPast DEF CInv, Complete, Tests
      <3>2. QED
        BY <3>1 DEF Told
    <2>2. QED
      BY <1>1, <1>2, <1>3, <1>4, <1>6, <2>1 DEF Permissive, Filterings
  <1>7. QED
    BY <1>5, <1>6

LEMMA ReceiveCompletes ==
    ASSUME IInv, IInv', CInv, Stands, NEW reply \in replies, NEW waited, Receive(reply, waited)
    PROVE  Known' /\ Complete'
  <1> DEFINE t == CurrentTest
  <1>1. /\ pc = "select" /\ ProcessResponse(t, reply) /\ UNCHANGED <<config, nTestIndex>>
        /\ timely' => timely
    BY DEF Receive
  <1>2. Known /\ Complete /\ nTestIndex <= Len(testlist) /\ CanRun /\ VerdictIsSound'
    BY <1>1 DEF CInv, IInv, Waiting
  <1>3. CASE UNCHANGED <<completed, results>>
    BY <1>1, <1>2, <1>3, SameVerdict
  <1>4. CASE /\ BasicReaderValidation(t, reply)
             /\ completed' = completed \cup {t}
             /\ results' = CASE t = "binding1" -> BindingResponse(reply)
                              [] t = "behavior2" -> Behavior2Response(reply)
                              [] t = "behavior3" -> Behavior3Response(reply)
                              [] t = "filtering2" -> Filtering2Response
                              [] t = "filtering3" -> Filtering3Response
    <2>1. t \in Tests /\ reply \in Answers(AsReceived(Asking(t)))
      BY <1>1, <1>4, ReplyIsHonest
    <2>2. PICK u \in Tests : u = t
      BY <2>1
    <2>3. u # "binding1" => Full
      BY <1>2, <2>1, <2>2, ReadyIsFull
    <2>4. completed' = completed \cup {u} /\ reply \in Answers(AsReceived(Asking(u)))
      BY <1>4, <2>1, <2>2
    <2>5. /\ Known' /\ Grows /\ Told(u)'
          /\ timely => (results'.fFilteringTestSuccess => results'.filtering = nat.filtering)
      <3>1. CASE u = "binding1"
        <4>1. results' = BindingResponse(reply)
          BY <1>4, <2>2, <3>1
        <4>2. /\ Known' /\ Grows /\ Told("binding1")'
              /\ results'.fFilteringTestSuccess = results.fFilteringTestSuccess
              /\ results'.filtering = results.filtering
          BY <1>1, <2>4, <3>1, <4>1, BindingCompletes
        <4>3. QED
          BY <1>2, <3>1, <4>2 DEF Complete
      <3>2. CASE u \in {"behavior2", "behavior3"}
        <4>1. results' = IF u = "behavior2" THEN Behavior2Response(reply)
                                            ELSE Behavior3Response(reply)
          BY <1>4, <2>2, <3>2
        <4>2. /\ Known' /\ Grows /\ Told(u)'
              /\ results'.fFilteringTestSuccess = results.fFilteringTestSuccess
              /\ results'.filtering = results.filtering
          BY <1>1, <2>3, <2>4, <3>2, <4>1, BehaviorCompletes
        <4>3. QED
          BY <1>2, <4>2 DEF Complete
      <3>3. CASE u \in {"filtering2", "filtering3"}
        <4>1. results' = IF u = "filtering2" THEN Filtering2Response ELSE Filtering3Response
          BY <1>4, <2>2, <3>3
        <4>2. ~results.fFilteringTestSuccess
          BY <1>2, <2>2, <3>3 DEF CanRun, IsReadyToRun, FilteringIsReady
        <4>3. /\ Known' /\ Grows /\ Told(u)'
              /\ timely => results'.filtering = nat.filtering
          BY <1>1, <1>2, <2>2, <2>3, <3>3, <4>1, <4>2, FilteringCompletes
        <4>4. QED
          BY <4>3
      <3>4. QED
        BY <3>1, <3>2, <3>3 DEF Tests
    <2>6. \A v \in Tests : v = t /\ v \in completed' => Told(v)'
      <3>1. ASSUME NEW v \in Tests, v = t PROVE Told(v)'
        <4>1. v = u
          BY <2>2, <3>1
        <4>2. QED
          BY <2>5, <4>1
      <3>2. QED
        BY <3>1
    <2>7. completed' \subseteq completed \cup {t}
      BY <2>2, <2>4
    <2>8. timely' =>
             (results'.fFilteringTestSuccess => results'.filtering = nat.filtering)
      BY <1>1, <2>5
    <2>9. Complete'
      BY <1>1, <1>2, <2>5, <2>6, <2>7, <2>8, TestOver
    <2>10. QED
      BY <2>5, <2>9
  <1>5. QED
    BY <1>1, <1>3, <1>4 DEF ProcessResponse
LEMMA InitComplete == Init => CInv
  <1> SUFFICES ASSUME Init PROVE CInv
    OBVIOUS
  <1>1. sendCount = 0 /\ sendCount \in Nat /\ pc = "next"
    BY DEF Init
  <1>2. Uniform
    <2>1. PICK sockets \in SocketSets, known \in BOOLEAN :
             tsa = [r \in Roles |-> [fValid |-> r \in sockets,
                                     addr |-> IF known /\ r \in sockets THEN ServerAddress(r)
                                              ELSE NoAddress]]
      BY DEF Init
    <2>2. ASSUME FourSockets(tsa), NEW r \in Roles
          PROVE  tsa[r].addr = IF known THEN ServerAddress(r) ELSE NoAddress
      BY <2>1, <2>2 DEF FourSockets, HasAddress
    <2>3. QED
      BY <2>2 DEF Uniform
  <1>3. Known /\ Complete
    <2>1. /\ ~results.fHasOtherAddress /\ ~results.fBehaviorTestSuccess
          /\ ~results.fFilteringTestSuccess /\ ~results.fGotTest2Response
      BY DEF Init, NoResults
    <2>2. \A t \in Tests : ~Past(t)
      BY DEF Init, Past
    <2>3. QED
      BY <2>1, <2>2 DEF Known, Complete
  <1>4. Permitted /\ Sent
    BY <1>1 DEF Init, Permitted, Sent
  <1>5. QED
    BY <1>1, <1>2, <1>3, <1>4 DEF CInv

(* A step that keeps to the test and its last request.                     *)
LEMMA SameRequest ==
    ASSUME CInv, UNCHANGED <<config, nTestIndex, sendCount, transid>>,
           requests \subseteq requests', permits \subseteq permits'
    PROVE  /\ Uniform' /\ sendCount' \in Nat
           /\ replies' = replies => Permitted'
           /\ nTestIndex' <= Len(testlist)' /\ sendCount' # 0 =>
                 Started(CurrentTest)' /\ Asking(CurrentTest)' \in requests'
  <1>1. Uniform' /\ sendCount' \in Nat
    BY DEF CInv, Uniform, config, FourSockets, HasAddress
  <1>2. \A q : Answers(AsReceived(q))' = Answers(AsReceived(q))
                  /\ MappedAddress(q.dest)' = MappedAddress(q.dest)
    BY DEF config, Answers, AsReceived, MappedAddress
  <1>3. replies' = replies => Permitted'
    BY <1>2 DEF CInv, Permitted
  <1>4. Started(CurrentTest)' = Started(CurrentTest) /\ Asking(CurrentTest)' = Asking(CurrentTest)
    BY DEF config, CurrentTest, Started, Asking
  <1>5. QED
    BY <1>1, <1>3, <1>4 DEF CInv, Sent, config

LEMMA PreCheckKeepsComplete ==
    ASSUME IInv, CInv, Stands, PreCheck
    PROVE  CInv'
  <1>1. /\ UNCHANGED <<config, pc, nTestIndex, sendCount, transid, requests, replies, permits>>
        /\ pc = "next"
    BY DEF PreCheck, Running
  <1>2. Known' /\ Complete'
    BY PreCheckCompletes
  <1>3. Uniform' /\ sendCount' \in Nat /\ Permitted' /\ Sent'
    BY <1>1, SameRequest DEF Sent
  <1>4. QED
    BY <1>1, <1>2, <1>3 DEF CInv

LEMMA GiveUpKeepsComplete ==
    ASSUME IInv, CInv, Stands, GiveUp
    PROVE  CInv'
  <1>1. /\ UNCHANGED <<config, pc, nTestIndex, sendCount, transid, requests, replies, permits>>
        /\ pc = "next"
    BY DEF GiveUp, Running
  <1>2. Known' /\ Complete'
    BY GiveUpCompletes
  <1>3. Uniform' /\ sendCount' \in Nat /\ Permitted' /\ Sent'
    BY <1>1, SameRequest DEF Sent
  <1>4. QED
    BY <1>1, <1>2, <1>3 DEF CInv

LEMMA NextTestKeepsComplete ==
    ASSUME IInv, CInv, NextTest
    PROVE  CInv'
  <1>1. /\ UNCHANGED <<config, pc, requests, replies, permits>>
        /\ pc = "next" /\ sendCount' = 0
    BY DEF NextTest, Running
  <1>2. Known' /\ Complete'
    BY NextTestCompletes
  <1>3. Uniform' /\ Permitted'
    <2>1. Uniform'
      BY <1>1 DEF CInv, Uniform, config, FourSockets, HasAddress
    <2>2. \A q : Answers(AsReceived(q))' = Answers(AsReceived(q))
                    /\ MappedAddress(q.dest)' = MappedAddress(q.dest)
      BY <1>1 DEF config, Answers, AsReceived, MappedAddress
    <2>3. QED
      BY <1>1, <2>1, <2>2 DEF CInv, Permitted
  <1>4. Sent' /\ sendCount' \in Nat
    BY <1>1 DEF Sent
  <1>5. QED
    BY <1>1, <1>2, <1>3, <1>4 DEF CInv

(* A step of the client's loop that does not touch its logic: time passes, *)
(* and a wait that ends without a packet gives nothing up.                 *)
LEMMA QuietKeepsComplete ==
    ASSUME CInv, UNCHANGED <<config, timely, logic, requests, replies, permits>>,
           pc' = "done" => nTestIndex > Len(testlist)
    PROVE  CInv'
  <1>1. UNCHANGED <<nTestIndex, sendCount, completed, transid, results>>
    BY DEF logic
  <1>2. Known' /\ Complete'
    BY <1>1, SameVerdict DEF CInv
  <1>3. Uniform' /\ sendCount' \in Nat /\ Permitted' /\ Sent'
    BY <1>1, SameRequest DEF Sent
  <1>4. pc' = "done" => nTestIndex' > Len(testlist)'
    BY <1>1 DEF config
  <1>5. QED
    BY <1>2, <1>3, <1>4 DEF CInv

LEMMA ReceiveKeepsComplete ==
    ASSUME IInv, IInv', CInv, Stands, NEW reply \in replies, NEW waited,
           Receive(reply, waited)
    PROVE  CInv'
  <1>1. /\ UNCHANGED <<config, nTestIndex, sendCount, transid, requests, replies, permits>>
        /\ pc' = "next"
    BY DEF Receive
  <1>2. Known' /\ Complete'
    BY ReceiveCompletes
  <1>3. Uniform' /\ sendCount' \in Nat /\ Permitted' /\ Sent'
    BY <1>1, SameRequest DEF Sent
  <1>4. QED
    BY <1>1, <1>2, <1>3 DEF CInv

LEMMA ServerKeepsComplete ==
    ASSUME CInv, NEW q \in requests, ServerReceives(q)
    PROVE  CInv'
  <1>1. /\ permits' = permits \cup {<<MappedAddress(q.dest), q.dest>>}
        /\ replies' = replies \cup Answers(AsReceived(q))
        /\ UNCHANGED <<config, timely, pc, logic, requests>>
    BY DEF ServerReceives
  <1>2. UNCHANGED <<nTestIndex, sendCount, completed, transid, results>>
    BY <1>1 DEF logic
  <1>3. Known' /\ Complete'
    BY <1>1, <1>2, SameVerdict DEF CInv
  <1>4. Uniform' /\ sendCount' \in Nat /\ Sent'
    BY <1>1, <1>2, SameRequest DEF Sent
  <1>5. Permitted'
    <2>1. \A x : Answers(AsReceived(x))' = Answers(AsReceived(x))
                    /\ MappedAddress(x.dest)' = MappedAddress(x.dest)
      BY <1>1 DEF config, Answers, AsReceived, MappedAddress
    <2>2. QED
      BY <1>1, <2>1 DEF CInv, Permitted
  <1>6. pc' = "done" => nTestIndex' > Len(testlist)'
    BY <1>1, <1>2 DEF CInv, config
  <1>7. QED
    BY <1>3, <1>4, <1>5, <1>6 DEF CInv

LEMMA SendKeepsComplete ==
    ASSUME IInv, IInv', CInv, SendRequest
    PROVE  CInv'
  <1>1. /\ UNCHANGED <<config, timely, nTestIndex, completed, results, replies, permits>>
        /\ nTestIndex <= Len(testlist) /\ CanRun
        /\ transid' = [transid EXCEPT ![CurrentTest] = StartBindingRequest(CurrentTest)]
        /\ requests' = requests \cup {GetMessage(CurrentTest)}
        /\ sendCount' = sendCount + 1 /\ pc' = "select"
    BY DEF SendRequest, Running
  <1>2. CurrentTest \in Tests /\ nTestIndex \in 1..Len(testlist)
    BY <1>1, BindingIsPast
  <1>3. Known' /\ Complete'
    BY <1>1, SameVerdict DEF CInv
  <1>4. Uniform' /\ Permitted'
    <2>1. Uniform'
      BY <1>1 DEF CInv, Uniform, config, FourSockets, HasAddress
    <2>2. \A q : Answers(AsReceived(q))' = Answers(AsReceived(q))
                    /\ MappedAddress(q.dest)' = MappedAddress(q.dest)
      BY <1>1 DEF config, Answers, AsReceived, MappedAddress
    <2>3. QED
      BY <1>1, <2>1, <2>2 DEF CInv, Permitted
  <1>5. sendCount' \in Nat /\ sendCount' # 0
    BY <1>1 DEF CInv
  <1>6. Sent'
    <2>1. PICK u \in Tests : u = CurrentTest
      BY <1>2
    <2>2. CurrentTest' = u
      BY <1>1, <2>1 DEF config, CurrentTest
    <2>3. GetMessage(u) \in requests'
      BY <1>1, <2>1
    <2>4. transid'[u] = StartBindingRequest(u) /\ transid'[u] # 0
      BY <1>1, <1>2, <2>1 DEF IInv, Types, StartBindingRequest
    <2>5. Dest(u) = ServerAddress(Target(u))
      <3>1. u \in {"behavior2", "behavior3"} => results.fHasOtherAddress
        BY <1>1, <2>1 DEF CanRun, IsReadyToRun, BehaviorIsReady
      <3>2. QED
        BY <3>1 DEF IInv, Learned, Dest, Target, addrServer
    <2>6. GetMessage(u) = Asking(u)'
      BY <2>4, <2>5 DEF GetMessage, Asking
    <2>7. Started(u)' /\ Asking(u)' \in requests'
      BY <2>3, <2>4, <2>6 DEF Started
    <2>8. Started(CurrentTest)' /\ Asking(CurrentTest)' \in requests'
      BY <2>2, <2>7 DEF Started, Asking
    <2>9. QED
      BY <1>5, <2>8 DEF Sent
  <1>7. QED
    BY <1>1, <1>3, <1>4, <1>5, <1>6 DEF CInv

LEMMA StepComplete == IInv /\ IInv' /\ Stands /\ CInv /\ [Next]_vars => CInv'
  <1> SUFFICES ASSUME IInv, IInv', Stands, CInv, [Next]_vars PROVE CInv'
    OBVIOUS
  <1>1. CASE KeepWaiting
    BY <1>1, QuietKeepsComplete DEF KeepWaiting
  <1>2. CASE ResultsReady
    BY <1>2, QuietKeepsComplete DEF ResultsReady
  <1>3. CASE SelectTimeout
    BY <1>3, QuietKeepsComplete DEF SelectTimeout
  <1>4. CASE UNCHANGED vars
    BY <1>4, QuietKeepsComplete DEF vars, CInv
  <1>5. CASE PreCheck \/ NextTest \/ GiveUp \/ SendRequest
    BY <1>5, PreCheckKeepsComplete, NextTestKeepsComplete, GiveUpKeepsComplete,
       SendKeepsComplete
  <1>6. ASSUME NEW r \in replies, NEW waited \in 0..(WaitLimit - 1), Receive(r, waited)
        PROVE  CInv'
    BY <1>6, ReceiveKeepsComplete
  <1>7. ASSUME NEW q \in requests, ServerReceives(q) PROVE CInv'
    BY <1>7, ServerKeepsComplete
  <1>8. QED
    BY <1>1, <1>2, <1>3, <1>4, <1>5, <1>6, <1>7 DEF Next, GetNextMessage, Wait

(* What the invariant says of the end.                                     *)
LEMMA EndIsComplete == IInv /\ CInv => VerdictIsComplete
  <1> SUFFICES ASSUME IInv, CInv, timely, pc = "done"
               PROVE  /\ results.fBindingTestSuccess
                      /\ Asked("filtering2") => results.fFilteringTestSuccess = Full
                      /\ Asked("behavior2") =>
                            results.fBehaviorTestSuccess = (Full \/ nat.mapping = "Direct")
                      /\ results.fFilteringTestSuccess => results.filtering = nat.filtering
    BY DEF VerdictIsComplete
  <1>1. /\ Complete /\ Known /\ ResultTypes /\ nTestIndex > Len(testlist)
        /\ Len(testlist) \in Nat \ {0} /\ nTestIndex \in Nat
    BY TestListOrder DEF CInv, IInv, Types, Configured
  <1>2. \A i \in 1..Len(testlist) : testlist[i] \in Tests /\ Told(testlist[i])
    <2>1. \A i \in 1..Len(testlist) : testlist[i] \in Tests /\ i < nTestIndex
      BY <1>1, TestListOrder DEF IInv, Configured
    <2>2. QED
      BY <1>1, <2>1 DEF Complete, Past
  <1>3. Told("binding1")
    <2>1. testlist[1] = "binding1" /\ 1 \in 1..Len(testlist)
      BY <1>1, TestListOrder DEF IInv, Configured
    <2>2. QED
      BY <1>2, <2>1
  <1>4. ASSUME Asked("filtering2") PROVE results.fFilteringTestSuccess = Full
    <2>1. PICK i \in 1..Len(testlist) : testlist[i] = "filtering2"
      BY <1>4 DEF Asked
    <2>2. i < Len(testlist) /\ testlist[i + 1] = "filtering3"
      BY <2>1, TestListOrder DEF IInv, Configured
    <2>3. i + 1 \in 1..Len(testlist)
      BY <1>1, <2>2
    <2>4. Told("filtering3")
      BY <1>2, <2>2, <2>3
    <2>5. Full => results.fFilteringTestSuccess
      BY <2>4 DEF Told
    <2>6. results.fFilteringTestSuccess => Full
      BY <1>1 DEF Known
    <2>7. Full \in BOOLEAN /\ results.fFilteringTestSuccess \in BOOLEAN
      BY <1>1 DEF Full, ResultTypes
    <2>8. QED
      BY <2>5, <2>6, <2>7
  <1>5. ASSUME Asked("behavior2")
        PROVE  results.fBehaviorTestSuccess = (Full \/ nat.mapping = "Direct")
    <2>1. PICK i \in 1..Len(testlist) : testlist[i] = "behavior2"
      BY <1>5 DEF Asked
    <2>2. i < Len(testlist) /\ testlist[i + 1] = "behavior3"
      BY <2>1, TestListOrder DEF IInv, Configured
    <2>3. i + 1 \in 1..Len(testlist)
      BY <1>1, <2>2
    <2>4. Told("behavior3")
      BY <1>2, <2>2, <2>3
    <2>5. Full \/ nat.mapping = "Direct" => results.fBehaviorTestSuccess
      BY <2>4 DEF Told
    <2>6. results.fBehaviorTestSuccess => Full \/ nat.mapping = "Direct"
      BY <1>1 DEF Known
    <2>7. results.fBehaviorTestSuccess \in BOOLEAN
      BY <1>1 DEF ResultTypes
    <2>8. QED
      BY <2>5, <2>6, <2>7
  <1>6. results.fBindingTestSuccess
    BY <1>3 DEF Told
  <1>7. results.fFilteringTestSuccess => results.filtering = nat.filtering
    BY <1>1 DEF Complete
  <1>8. QED
    BY <1>4, <1>5, <1>6, <1>7

(* When CStunClientLogic gives up no test whose answer could still come it *)
(* finds all there is to find, after however many waits and repetitions: a *)
(* test that can be answered is not given up, and one that is passed over  *)
(* or has its answer filtered had nothing to tell.                         *)
THEOREM CompleteTheorem == Spec => []VerdictIsComplete
  <1>1. Spec => [](IInv /\ CInv)
    <2>1. IInv /\ CInv /\ [Next]_vars => (IInv /\ CInv)'
      BY StepInvariant, StepComplete
    <2>2. Init => IInv /\ CInv
      BY InitInvariant, InitComplete
    <2>3. QED
      BY <2>1, <2>2, PTL DEF Spec
  <1>2. QED
    BY <1>1, EndIsComplete, PTL

=============================================================================
