--------------------------- MODULE RequestHandler ---------------------------
(***************************************************************************)
(* CStunRequestHandler (stuncore/messagehandler.cpp): what a STUN server   *)
(* answers to a message its reader has validated.  The handler keeps no    *)
(* state between messages; ProcessRequest is an operator of the message,   *)
(* of the sockets the server has and of what the authentication provider   *)
(* says.  It is used by NatDiscovery and checked by RequestServer.         *)
(*                                                                         *)
(* An address is a record of an IP address and a port.  A message carries  *)
(* what the reader finds in it; attributes are in the message or not, and  *)
(* how they are laid out in its bytes is left out.                         *)
(***************************************************************************)
EXTENDS Naturals

(* -------- socket roles (stuncore/socketrole.h) --------------------------- *)

RolePP == 0     \* primary address, primary port
RolePA == 1     \* primary address, alternate port
RoleAP == 2     \* alternate address, primary port
RoleAA == 3     \* alternate address, alternate port
Roles  == 0..3

SocketRoleSwapPort(r) == IF r % 2 = 0 THEN r + 1 ELSE r - 1    \* r ^ 1
SocketRoleSwapIP(r)   == (r + 2) % 4                           \* r ^ 2

(* -------- addresses ------------------------------------------------------ *)

ZeroIP == "0.0.0.0"
NoAddress == [ip |-> ZeroIP, port |-> <<>>]

(* tsa[r] is the TransportAddress of role r: its address, and whether the   *)
(* server has a socket for it.                                              *)
HasAddress(tsa, r) == tsa[r].fValid

IsIPAddressZeroOrInvalid(tsa, r) == ~(HasAddress(tsa, r) /\ tsa[r].addr.ip # ZeroIP)

(* -------- authentication ------------------------------------------------- *)

BadRequest   == 400
NotAuthorized == 401
StaleNonce   == 438

(* What DoAuthCheck may answer, "none" when there is no provider and        *)
(* "failed" when it returns an error.                                       *)
AuthAnswers == {"none", "failed", "Allow", "AllowConditional", "StaleNonce", "Reject",
                "Unauthorized"}

ValidateAuth_IgnoresIntegrity(msg, auth) ==
    CASE auth \in {"none", "Allow", "AllowConditional"} -> 0
      [] auth \in {"failed", "Reject"} -> BadRequest
      [] auth = "StaleNonce" -> StaleNonce
      [] auth = "Unauthorized" -> NotAuthorized

(* The error code authentication leaves, 0 if the request may pass.         *)
ValidateAuth(msg, auth) ==
    CASE auth \in {"none", "Allow"} -> 0
      [] auth \in {"failed", "Reject"} -> BadRequest
      [] auth = "StaleNonce" -> StaleNonce
      [] auth = "Unauthorized" -> NotAuthorized
      [] auth = "AllowConditional" -> IF msg.integrityOk THEN 0 ELSE NotAuthorized

(* -------- the binding request -------------------------------------------- *)

WantsChange(msg) == msg.changeIP \/ msg.changePort

(* The socket the response is asked to leave from.                          *)
SocketOutput(msg) ==
    LET r == IF msg.changeIP THEN SocketRoleSwapIP(msg.role) ELSE msg.role
    IN  IF msg.changePort THEN SocketRoleSwapPort(r) ELSE r

BindingError(msg, tsa) ==
    IF \/ msg.responsePort # <<>> /\ msg.padding
       \/ WantsChange(msg) /\ (~HasAddress(tsa, SocketOutput(msg)) \/ msg.connected)
    THEN BadRequest ELSE 0

FourSockets_NotNeeded(tsa) == TRUE

FourSockets(tsa) == \A r \in Roles : HasAddress(tsa, r)

SocketOther_OfOutput(msg) == SocketRoleSwapIP(SocketRoleSwapPort(SocketOutput(msg)))

(* Always the opposite of where the request was received.                   *)
SocketOther(msg) == SocketRoleSwapIP(SocketRoleSwapPort(msg.role))

OtherAddress(msg, tsa) ==
    IF FourSockets(tsa) /\ ~IsIPAddressZeroOrInvalid(tsa, SocketOther(msg))
    THEN tsa[SocketOther(msg)].addr ELSE NoAddress

(* The address the response leaves from, as far as the server knows it.     *)
Origin(msg, tsa) ==
    LET addr == tsa[SocketOutput(msg)].addr
    IN  IF addr.ip # ZeroIP THEN addr
        ELSE IF SocketOutput(msg) = msg.role /\ msg.local.ip # ZeroIP THEN msg.local
        ELSE NoAddress

(* -------- the whole request ---------------------------------------------- *)

ErrorCode(msg, tsa, auth) ==
    IF \/ msg.responsePort # <<>> /\ msg.connected
       \/ msg.type # "Binding"
    THEN BadRequest
    ELSE IF ValidateAuth(msg, auth) # 0 THEN ValidateAuth(msg, auth)
    ELSE BindingError(msg, tsa)

(* Where the response goes: the response port is honoured for errors too.   *)
Destination(msg) ==
    IF msg.responsePort # <<>> /\ ~msg.connected
    THEN [msg.remote EXCEPT !.port = msg.responsePort] ELSE msg.remote

BuildErrorResponse_MovesSocket(msg, code) ==
    [code |-> code, transid |-> msg.transid, role |-> SocketOutput(msg),
     dest |-> Destination(msg), mapped |-> NoAddress, origin |-> NoAddress,
     other |-> NoAddress, integrity |-> FALSE]

(* An error leaves through the socket the request arrived on.              *)
BuildErrorResponse(msg, code) ==
    [code |-> code, transid |-> msg.transid, role |-> msg.role, dest |-> Destination(msg),
     mapped |-> NoAddress, origin |-> NoAddress, other |-> NoAddress, integrity |-> FALSE]

ProcessBindingRequest(msg, tsa, auth) ==
    [code |-> 0, transid |-> msg.transid, role |-> SocketOutput(msg), dest |-> Destination(msg),
     mapped |-> msg.remote, origin |-> Origin(msg, tsa), other |-> OtherAddress(msg, tsa),
     integrity |-> auth = "AllowConditional"]

(* The responses to a message: one to a request, none to anything else.     *)
ProcessRequest(msg, tsa, auth) ==
    IF msg.class # "Request" THEN {}
    ELSE IF ErrorCode(msg, tsa, auth) # 0
    THEN {BuildErrorResponse(msg, ErrorCode(msg, tsa, auth))}
    ELSE {ProcessBindingRequest(msg, tsa, auth)}
=============================================================================
