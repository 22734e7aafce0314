--------------------------- MODULE RequestServer ---------------------------
(***************************************************************************)
(* A server that answers every message with CStunRequestHandler: the       *)
(* receive-process-send part of CStunSocketThread and CTCPStunThread       *)
(* (stunsocketthread.cpp, tcpserver.cpp), over any configuration of        *)
(* sockets and any message the reader can validate.                        *)
(***************************************************************************)
EXTENDS RequestHandler

CONSTANTS
    SocketSets,     \* the sets of roles a server may be configured with
    AdvertisedIPs,  \* what may be advertised for an interface, ZeroIP being nothing
    NoMessage

VARIABLES
    advertised,     \* addrPrimaryAdvertised and addrAlternateAdvertised
    tsa,            \* the TransportAddressSet, fixed when the server starts
    msg, auth,      \* the message being answered and what the provider said of it
    responses,      \* what is sent for it
    promised        \* some response has carried an OTHER-ADDRESS

vars == <<advertised, tsa, msg, auth, responses, promised>>

(* -------- addresses ------------------------------------------------------ *)

Interfaces == {"P", "A"}        \* the primary and the alternate one

Interface(r) == IF r \in {RolePP, RolePA} THEN "P" ELSE "A"

(* The address the socket of a role really has.                             *)
RealAddress(r) == [ip |-> Interface(r),
                   port |-> IF r \in {RolePP, RoleAP} THEN <<"p">> ELSE <<"a">>]

(* A socket bound to INADDR_ANY does not know its own address.              *)
ListenAddress(r, known) ==
    IF known THEN RealAddress(r) ELSE [RealAddress(r) EXCEPT !.ip = ZeroIP]

AddSocket_KeepsListenIP(addrListen, ipAdvertise) == addrListen

(* What is advertised for the interface replaces the IP address, not the    *)
(* port.                                                                    *)
AddSocket(addrListen, ipAdvertise) ==
    IF ipAdvertise # ZeroIP THEN [addrListen EXCEPT !.ip = ipAdvertise] ELSE addrListen

TransportAddressSet(sockets, known, ips) ==
    [r \in Roles |-> [fValid |-> r \in sockets,
                      addr |-> IF r \in sockets
                               THEN AddSocket(ListenAddress(r, known), ips[Interface(r)])
                               ELSE NoAddress]]

(* -------- the server ----------------------------------------------------- *)

Client == [ip |-> "client", port |-> <<"c">>]

(* A validated message that arrived on a socket; recvfromex tells the local *)
(* address it was sent to where the platform supports it.                   *)
Message(r, kind, connected, options, localKnown) ==
    [role |-> r, connected |-> connected, class |-> kind[1], type |-> kind[2], transid |-> 1,
     responsePort |-> IF "responsePort" \in options THEN <<"r">> ELSE <<>>,
     padding |-> "padding" \in options,
     changeIP |-> "changeIP" \in options, changePort |-> "changePort" \in options,
     integrityOk |-> "integrityOk" \in options,
     remote |-> Client, local |-> IF localKnown THEN RealAddress(r) ELSE NoAddress]

Kinds == {<<"Request", "Binding">>, <<"Request", "Other">>, <<"Indication", "Binding">>}
Options == {"responsePort", "padding", "changeIP", "changePort", "integrityOk"}

Init ==
    /\ advertised \in [Interfaces -> AdvertisedIPs]
    /\ \E sockets \in SocketSets, known \in BOOLEAN :
          tsa = TransportAddressSet(sockets, known, advertised)
    /\ msg = NoMessage
    /\ auth = "none"
    /\ responses = {}
    /\ promised = FALSE

ProcessRequestAndSendResponse(m, answer) ==
    /\ msg' = m
    /\ auth' = answer
    /\ responses' = ProcessRequest(m, tsa, answer)
    /\ promised' = (promised \/ \E r \in responses' : r.other # NoAddress)
    /\ UNCHANGED <<advertised, tsa>>

NextMessage ==
    /\ msg # NoMessage
    /\ msg' = NoMessage
    /\ auth' = "none"
    /\ responses' = {}
    /\ UNCHANGED <<advertised, tsa, promised>>

Receive ==
    /\ msg = NoMessage
    /\ \E r \in {q \in Roles : tsa[q].fValid}, kind \in Kinds, connected \in BOOLEAN,
          options \in SUBSET Options, localKnown \in BOOLEAN, answer \in AuthAnswers :
          \E m \in {Message(r, kind, connected, options, localKnown)} :
              ProcessRequestAndSendResponse(m, answer)

Next == Receive \/ NextMessage

Spec == Init /\ [][Next]_vars

(* -------- properties ---------------------------------------------------- *)

(* Once a response has told a client of an OTHER-ADDRESS, a datagram that   *)
(* asks for a change of address or port, on whichever socket it arrives, is *)
(* answered from the socket it asks for and not with an error: a client may *)
(* take the attribute as the promise that its NAT tests will work.          *)
OtherAddressIsHonoured ==
    (/\ promised /\ msg # NoMessage
     /\ msg.class = "Request" /\ msg.type = "Binding" /\ ~msg.connected
     /\ msg.responsePort = <<>> /\ auth \in {"none", "Allow"}) =>
    \E r \in responses : r.code = 0 /\ r.role = SocketOutput(msg)

(* A response leaves through a socket the server has, so the socket handle  *)
(* CStunSocketThread sends on is a valid one (its two ASSERTs), and an      *)
(* error through the socket the request arrived on.                         *)
OutputSocketExists ==
    \A r \in responses :
        /\ tsa[r.role].fValid
        /\ r.code # 0 => r.role = msg.role

(* The address by which the server wants its socket to be known: the one    *)
(* advertised for its interface, if there is one, and else its own.         *)
PublicAddress(r) ==
    IF advertised[Interface(r)] = ZeroIP THEN RealAddress(r)
    ELSE [RealAddress(r) EXCEPT !.ip = advertised[Interface(r)]]

(* What a response says of addresses fits the socket it leaves from: there  *)
(* is one, RESPONSE-ORIGIN is its public address, and OTHER-ADDRESS that of *)
(* the socket on the other interface and the other port from where the      *)
(* request arrived (RFC 5780), even when a CHANGE-REQUEST moves the         *)
(* response, and whichever addresses the server knows or was told.          *)
AddressesAreTrue ==
    /\ OutputSocketExists
    /\ \A r \in responses :
          /\ r.origin # NoAddress => r.origin = PublicAddress(r.role)
          /\ r.other # NoAddress =>
                \E s \in Roles :
                    /\ tsa[s].fValid /\ r.other = PublicAddress(s)
                    /\ RealAddress(s).ip # RealAddress(msg.role).ip
                    /\ RealAddress(s).port # RealAddress(msg.role).port

(* No request is served that its provider did not let pass: a conditional   *)
(* permission needs the right MESSAGE-INTEGRITY and is answered with one.   *)
OnlyAuthorizedIsServed ==
    \A r \in responses : r.code = 0 =>
        \/ auth \in {"none", "Allow"} /\ ~r.integrity
        \/ auth = "AllowConditional" /\ msg.integrityOk /\ r.integrity
=============================================================================
