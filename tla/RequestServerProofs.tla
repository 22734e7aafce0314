------------------------- MODULE RequestServerProofs -------------------------
(***************************************************************************)
(* Proofs about the request handler for any set of socket configurations:  *)
(* which socket a response leaves from, which addresses it carries, and    *)
(* what may be relied on in later requests.                                *)
(***************************************************************************)
EXTENDS RequestServer, TLAPS

(* Some configuration of sockets, whose own addresses are known or not, and *)
(* of what is advertised for them.                                         *)
Configured ==
    \E sockets \in SocketSets, known \in BOOLEAN :
        tsa = TransportAddressSet(sockets, known, advertised)

Messages ==
    {Message(r, kind, connected, options, localKnown) :
        r \in {q \in Roles : tsa[q].fValid}, kind \in Kinds, connected \in BOOLEAN,
        options \in SUBSET Options, localKnown \in BOOLEAN}

Answered ==
    \/ msg = NoMessage /\ responses = {}
    \/ /\ msg \in Messages /\ auth \in AuthAnswers
       /\ responses = ProcessRequest(msg, tsa, auth)

(* Only a server with all four sockets announces an OTHER-ADDRESS.         *)
PromiseIsFounded == promised => FourSockets(tsa)

IInv == Configured /\ Answered /\ PromiseIsFounded

-----------------------------------------------------------------------------

(* What the two exclusive-ors of socketrole.h do to each role.             *)
LEMMA SwapTable ==
    /\ SocketRoleSwapPort(0) = 1 /\ SocketRoleSwapPort(1) = 0
    /\ SocketRoleSwapPort(2) = 3 /\ SocketRoleSwapPort(3) = 2
    /\ SocketRoleSwapIP(0) = 2 /\ SocketRoleSwapIP(1) = 3
    /\ SocketRoleSwapIP(2) = 0 /\ SocketRoleSwapIP(3) = 1
  BY DEF SocketRoleSwapPort, SocketRoleSwapIP

(* The two swaps stay among the roles.                                     *)
LEMMA SwapsAreRoles ==
    ASSUME NEW r \in Roles
    PROVE  SocketRoleSwapPort(r) \in Roles /\ SocketRoleSwapIP(r) \in Roles
  <1>1. r \in {0, 1, 2, 3}
    BY DEF Roles
  <1>2. QED
    BY <1>1, SwapTable DEF Roles

(* The opposite of a role differs from it in interface and in port.        *)
LEMMA OppositeDiffers ==
    ASSUME NEW r \in Roles, NEW s, s = SocketRoleSwapIP(SocketRoleSwapPort(r))
    PROVE  /\ s \in Roles
           /\ RealAddress(s).ip # RealAddress(r).ip
           /\ RealAddress(s).port # RealAddress(r).port
  <1>1. r \in {0, 1, 2, 3}
    BY DEF Roles
  <1>2. s \in Roles
    BY SwapsAreRoles
  <1>3. s = CASE r = 0 -> 3 [] r = 1 -> 2 [] r = 2 -> 1 [] r = 3 -> 0
    BY <1>1, SwapTable
  <1>4. QED
    BY <1>1, <1>2, <1>3 DEF RealAddress, Interface, RolePP, RolePA, RoleAP

(* An entry of the transport address set.                                  *)
LEMMA Entry ==
    ASSUME Configured, NEW r \in Roles
    PROVE  \E valid, known \in BOOLEAN :
              /\ tsa[r].fValid = valid
              /\ tsa[r].addr = IF valid
                               THEN AddSocket(ListenAddress(r, known),
                                              advertised[Interface(r)])
                               ELSE NoAddress
  <1>1. PICK sockets \in SocketSets, known \in BOOLEAN :
             tsa = TransportAddressSet(sockets, known, advertised)
    BY DEF Configured
  <1> DEFINE announced == AddSocket(ListenAddress(r, known), advertised[Interface(r)])
             valid == r \in sockets
  <1>2. tsa[r] = [fValid |-> valid, addr |-> IF valid THEN announced ELSE NoAddress]
    BY <1>1 DEF TransportAddressSet
  <1>3. valid \in BOOLEAN
    OBVIOUS
  <1> HIDE DEF announced, valid
  <1>4. /\ tsa[r].fValid = valid
        /\ tsa[r].addr = IF valid THEN announced ELSE NoAddress
    BY <1>2, <1>3
  <1>5. QED
    BY <1>3, <1>4 DEF announced

(* What the server knows of a socket's address is its public address.      *)
LEMMA KnownIsPublic ==
    ASSUME Configured, NEW r \in Roles, tsa[r].addr.ip # ZeroIP
    PROVE  tsa[r].fValid /\ tsa[r].addr = PublicAddress(r)
  <1> DEFINE ip == advertised[Interface(r)]
  <1>1. PICK valid, known \in BOOLEAN :
              /\ tsa[r].fValid = valid
              /\ tsa[r].addr = IF valid THEN AddSocket(ListenAddress(r, known), ip)
                               ELSE NoAddress
    BY Entry
  <1>2. tsa[r].fValid /\ tsa[r].addr = AddSocket(ListenAddress(r, known), ip)
    BY <1>1 DEF NoAddress
  <1>3. CASE ip = ZeroIP
    BY <1>2, <1>3 DEF AddSocket, ListenAddress, RealAddress, PublicAddress
  <1>4. CASE ip # ZeroIP
    BY <1>2, <1>4 DEF AddSocket, ListenAddress, RealAddress, PublicAddress
  <1>5. QED
    BY <1>3, <1>4

(* Where a server does not know its address, nothing is advertised for it. *)
LEMMA UnknownIsReal ==
    ASSUME Configured, NEW r \in Roles, tsa[r].fValid, tsa[r].addr.ip = ZeroIP
    PROVE  RealAddress(r) = PublicAddress(r)
  <1>1. PICK known \in BOOLEAN :
           tsa[r].addr = AddSocket(ListenAddress(r, known), advertised[Interface(r)])
    BY Entry
  <1>2. advertised[Interface(r)] = ZeroIP
    BY <1>1 DEF AddSocket, ListenAddress, RealAddress
  <1>3. QED
    BY <1>2 DEF PublicAddress

(* The socket asked for is one of the four.                                *)
LEMMA OutputIsRole ==
    ASSUME NEW m, m.role \in Roles
    PROVE  SocketOutput(m) \in Roles
  BY SwapsAreRoles DEF SocketOutput

(* Without a change request it is the one the request arrived on.          *)
LEMMA NoChangeNoMove ==
    ASSUME NEW m, ~WantsChange(m)
    PROVE  SocketOutput(m) = m.role
  BY DEF SocketOutput, WantsChange

(* The fields of a message the proofs look at.                             *)
LEMMA MessageFields ==
    ASSUME NEW m \in Messages
    PROVE  /\ m.role \in Roles /\ tsa[m.role].fValid
           /\ m.local \in {RealAddress(m.role), NoAddress}
           /\ m.changeIP \in BOOLEAN /\ m.changePort \in BOOLEAN
           /\ m.integrityOk \in BOOLEAN /\ m.connected \in BOOLEAN
           /\ m.padding \in BOOLEAN
  <1>1. PICK r \in {q \in Roles : tsa[q].fValid}, kind \in Kinds, connected \in BOOLEAN,
             options \in SUBSET Options, localKnown \in BOOLEAN :
             m = Message(r, kind, connected, options, localKnown)
    BY DEF Messages
  <1>2. QED
    BY <1>1 DEF Message

-----------------------------------------------------------------------------

LEMMA InitInvariant == Init => IInv
  <1> SUFFICES ASSUME Init PROVE IInv
    OBVIOUS
  <1>1. Configured
    <2>1. PICK sockets \in SocketSets, known \in BOOLEAN :
             tsa = TransportAddressSet(sockets, known, advertised)
      BY DEF Init
    <2>2. QED
      BY <2>1 DEF Configured
  <1>2. Answered /\ PromiseIsFounded
    BY DEF Init, Answered, PromiseIsFounded
  <1>3. QED
    BY <1>1, <1>2 DEF IInv

(* A response that carries an OTHER-ADDRESS comes from four sockets.       *)
LEMMA OtherNeedsFour ==
    ASSUME NEW m, NEW answer, NEW r \in ProcessRequest(m, tsa, answer),
           r.other # NoAddress
    PROVE  FourSockets(tsa)
  <1>1. CASE r = BuildErrorResponse(m, ErrorCode(m, tsa, answer))
    BY <1>1 DEF BuildErrorResponse
  <1>2. CASE r = ProcessBindingRequest(m, tsa, answer)
    BY <1>2 DEF ProcessBindingRequest, OtherAddress
  <1>3. QED
    BY <1>1, <1>2 DEF ProcessRequest

LEMMA StepInvariant == IInv /\ [Next]_vars => IInv'
  <1> SUFFICES ASSUME IInv, [Next]_vars PROVE IInv'
    OBVIOUS
  <1> USE DEF IInv
  <1>1. CASE NextMessage
    BY <1>1 DEF NextMessage, Configured, Answered, PromiseIsFounded
  <1>2. CASE Receive
    <2>1. PICK m \in Messages, answer \in AuthAnswers :
             ProcessRequestAndSendResponse(m, answer)
      BY <1>2 DEF Receive, Messages
    <2>2. Configured' /\ Answered'
      BY <2>1 DEF ProcessRequestAndSendResponse, Configured, Answered, Messages
    <2>3. PromiseIsFounded'
      BY <2>1, OtherNeedsFour DEF ProcessRequestAndSendResponse, PromiseIsFounded
    <2>4. QED
      BY <2>2, <2>3
  <1>3. CASE UNCHANGED vars
    BY <1>3 DEF vars, Configured, Answered, Messages, PromiseIsFounded
  <1>4. QED
    BY <1>1, <1>2, <1>3 DEF Next

LEMMA Invariant == Spec => []IInv
  <1>1. QED
    BY InitInvariant, StepInvariant, PTL DEF Spec

-----------------------------------------------------------------------------

(* A response is an error, or the answer to a request without one.         *)
LEMMA ResponseCases ==
    ASSUME IInv, NEW r \in responses
    PROVE  /\ msg \in Messages /\ auth \in AuthAnswers
           /\ \/ /\ ErrorCode(msg, tsa, auth) # 0
                 /\ r = BuildErrorResponse(msg, ErrorCode(msg, tsa, auth))
              \/ /\ ErrorCode(msg, tsa, auth) = 0
                 /\ r = ProcessBindingRequest(msg, tsa, auth)
  BY DEF IInv, Answered, ProcessRequest

(* What a request without an error has been checked for.                   *)
LEMMA NoErrorMeans ==
    ASSUME NEW m, NEW answer, ErrorCode(m, tsa, answer) = 0
    PROVE  ValidateAuth(m, answer) = 0 /\ BindingError(m, tsa) = 0
  BY DEF ErrorCode, BadRequest

(* Every response leaves through a socket the server has.                  *)
LEMMA OutputLemma == IInv => OutputSocketExists
  <1> SUFFICES ASSUME IInv, NEW r \in responses
               PROVE  tsa[r.role].fValid /\ (r.code # 0 => r.role = msg.role)
    BY DEF OutputSocketExists
  <1>1. msg \in Messages
    BY ResponseCases
  <1>2. CASE r = BuildErrorResponse(msg, ErrorCode(msg, tsa, auth))
    BY <1>1, <1>2, MessageFields DEF BuildErrorResponse
  <1>3. CASE /\ ErrorCode(msg, tsa, auth) = 0
             /\ r = ProcessBindingRequest(msg, tsa, auth)
    <2>1. r.role = SocketOutput(msg) /\ r.code = 0
      BY <1>3 DEF ProcessBindingRequest
    <2>2. BindingError(msg, tsa) = 0
      BY <1>3, NoErrorMeans
    <2>3. CASE WantsChange(msg)
      BY <2>1, <2>2, <2>3 DEF BindingError, BadRequest, HasAddress
    <2>4. CASE ~WantsChange(msg)
      BY <1>1, <2>1, <2>4, NoChangeNoMove, MessageFields
    <2>5. QED
      BY <2>1, <2>3, <2>4
  <1>4. QED
    BY <1>2, <1>3, ResponseCases

LEMMA TruthLemma == IInv => AddressesAreTrue
  <1> DEFINE OtherIsTrue(r) ==
                \E s \in Roles :
                    /\ tsa[s].fValid /\ r.other = PublicAddress(s)
                    /\ RealAddress(s).ip # RealAddress(msg.role).ip
                    /\ RealAddress(s).port # RealAddress(msg.role).port
  <1> SUFFICES ASSUME IInv, NEW r \in responses
               PROVE  /\ r.origin # NoAddress => r.origin = PublicAddress(r.role)
                      /\ r.other # NoAddress => OtherIsTrue(r)
    BY OutputLemma DEF AddressesAreTrue
  <1>1. msg \in Messages /\ Configured
    BY ResponseCases DEF IInv
  <1>2. CASE r = BuildErrorResponse(msg, ErrorCode(msg, tsa, auth))
    BY <1>2 DEF BuildErrorResponse
  <1>3. CASE r = ProcessBindingRequest(msg, tsa, auth)
    <2>1. /\ r.role = SocketOutput(msg) /\ r.origin = Origin(msg, tsa)
          /\ r.other = OtherAddress(msg, tsa)
      BY <1>3 DEF ProcessBindingRequest
    <2>2. msg.role \in Roles /\ SocketOutput(msg) \in Roles
      BY <1>1, MessageFields, OutputIsRole
    <2>3. r.origin # NoAddress => r.origin = PublicAddress(r.role)
      <3>1. CASE tsa[SocketOutput(msg)].addr.ip # ZeroIP
        BY <1>1, <2>1, <2>2, <3>1, KnownIsPublic DEF Origin
      <3>2. CASE tsa[SocketOutput(msg)].addr.ip = ZeroIP
        <4>1. r.origin # NoAddress => r.role = msg.role /\ r.origin = RealAddress(msg.role)
          BY <1>1, <2>1, <3>2, MessageFields DEF Origin
        <4>2. r.role = msg.role => RealAddress(msg.role) = PublicAddress(msg.role)
          BY <1>1, <2>1, <2>2, <3>2, MessageFields, UnknownIsReal
        <4>3. QED
          BY <4>1, <4>2
      <3>3. QED
        BY <3>1, <3>2
    <2>4. ASSUME r.other # NoAddress
          PROVE  OtherIsTrue(r)
      <3>1. /\ r.other = tsa[SocketOther(msg)].addr
            /\ tsa[SocketOther(msg)].addr.ip # ZeroIP
        BY <2>1, <2>4 DEF OtherAddress, IsIPAddressZeroOrInvalid
      <3>2. SocketOther(msg) \in Roles
        BY <2>2, SwapsAreRoles DEF SocketOther
      <3>3. /\ tsa[SocketOther(msg)].fValid
            /\ r.other = PublicAddress(SocketOther(msg))
        BY <1>1, <3>1, <3>2, KnownIsPublic
      <3>4. /\ RealAddress(SocketOther(msg)).ip # RealAddress(msg.role).ip
            /\ RealAddress(SocketOther(msg)).port # RealAddress(msg.role).port
        BY <2>2, OppositeDiffers DEF SocketOther
      <3>5. QED
        BY <3>2, <3>3, <3>4
    <2>5. QED
      BY <2>3, <2>4
  <1>4. QED
    BY <1>2, <1>3, ResponseCases

LEMMA AuthorizedLemma == IInv => OnlyAuthorizedIsServed
  <1> SUFFICES ASSUME IInv, NEW r \in responses, r.code = 0
               PROVE  \/ auth \in {"none", "Allow"} /\ ~r.integrity
                      \/ auth = "AllowConditional" /\ msg.integrityOk /\ r.integrity
    BY DEF OnlyAuthorizedIsServed
  <1>1. ErrorCode(msg, tsa, auth) = 0 /\ r = ProcessBindingRequest(msg, tsa, auth)
    BY ResponseCases DEF BuildErrorResponse
  <1>2. ValidateAuth(msg, auth) = 0 /\ auth \in AuthAnswers
    BY <1>1, NoErrorMeans, ResponseCases
  <1>3. r.integrity = (auth = "AllowConditional")
    BY <1>1 DEF ProcessBindingRequest
  <1>4. \/ auth \in {"none", "Allow"}
        \/ auth = "AllowConditional" /\ msg.integrityOk
    BY <1>2 DEF ValidateAuth, AuthAnswers, BadRequest, StaleNonce, NotAuthorized
  <1>5. QED
    BY <1>3, <1>4

LEMMA HonouredLemma == IInv => OtherAddressIsHonoured
  <1> SUFFICES ASSUME IInv, promised, msg # NoMessage,
                      msg.class = "Request", msg.type = "Binding", ~msg.connected,
                      msg.responsePort = <<>>, auth \in {"none", "Allow"}
               PROVE  \E r \in responses : r.code = 0 /\ r.role = SocketOutput(msg)
    BY DEF OtherAddressIsHonoured
  <1>1. msg \in Messages /\ responses = ProcessRequest(msg, tsa, auth)
    BY DEF IInv, Answered
  <1>2. HasAddress(tsa, SocketOutput(msg))
    BY <1>1, MessageFields, OutputIsRole DEF IInv, PromiseIsFounded, FourSockets
  <1>3. BindingError(msg, tsa) = 0
    BY <1>1, <1>2 DEF BindingError
  <1>4. ValidateAuth(msg, auth) = 0
    BY DEF ValidateAuth
  <1>5. ErrorCode(msg, tsa, auth) = 0
    BY <1>3, <1>4 DEF ErrorCode
  <1>6. responses = {ProcessBindingRequest(msg, tsa, auth)}
    BY <1>1, <1>5 DEF ProcessRequest
  <1>7. QED
    BY <1>6 DEF ProcessBindingRequest

-----------------------------------------------------------------------------

(* A CHANGE-REQUEST is only carried out with a socket the server has, and  *)
(* an error never moves: CStunSocketThread sends on a valid handle.        *)
(* RESPONSE-ORIGIN is the public address of the socket the response leaves *)
(* from: what AddSocket was told to advertise for it, or its own address,  *)
(* which recvfromex may have had to find out.  OTHER-ADDRESS is the one of *)
(* the socket opposite to where the request arrived, also when             *)
(* ProcessBindingRequest moves the response to another socket.             *)
THEOREM TruthTheorem == Spec => []AddressesAreTrue
  <1>1. QED
    BY Invariant, TruthLemma, PTL

(* ValidateAuth lets nothing through that the provider has not allowed,    *)
(* and a conditional permission needs, and gets, MESSAGE-INTEGRITY.        *)
THEOREM AuthorizedTheorem == Spec => []OnlyAuthorizedIsServed
  <1>1. QED
    BY Invariant, AuthorizedLemma, PTL

(* Once some response has carried an OTHER-ADDRESS, every datagram that    *)
(* asks for a change of address or port is answered as it asks.            *)
THEOREM HonouredTheorem == Spec => []OtherAddressIsHonoured
  <1>1. QED
    BY Invariant, HonouredLemma, PTL
=============================================================================
