---------------------------- MODULE StunMessage ----------------------------
(***************************************************************************)
(* A message on its way: written by any sequence of the builder's methods, *)
(* sent from the buffer its sender attached, perhaps changed on the way,   *)
(* and fed to a reader either as one datagram or, as CTCPStunThread does,  *)
(* in pieces never larger than what the reader says it needs.              *)
(***************************************************************************)
EXTENDS StunReader

CONSTANTS
    Addresses,      \* the addresses that are written
    Changes, Ports, Errors, Realms, TypeLists, Paddings,
                    \* what else is written, by kind of attribute
    Keys,           \* message integrity keys
    Classes,        \* message classes
    TransactionIds,
    MaxAdded        \* bound on the attributes written

(* Values a caller passes: addresses with the words of their family, which *)
(* the exclusive or with a transaction id turns into others and back;      *)
(* strings and lists of types that fit an attribute.                       *)
WellFormedAddress == [family : {IPv4}, port : Nat, ip : [1..2 -> Nat]]
                     \cup [family : {IPv6}, port : Nat, ip : [1..8 -> Nat]]

ASSUME AddressAssumption ==
    /\ Addresses \subseteq WellFormedAddress
    /\ \A transid \in TransactionIds :
          /\ transid \in [1..8 -> Nat]
          /\ \A addr \in Addresses :
                LET mapped == ApplyStunXorMap(addr, transid)
                IN  /\ mapped \in WellFormedAddress
                    /\ ApplyStunXorMap(mapped, transid) = addr

ASSUME ValueAssumption ==
    /\ Changes \subseteq [fChangeIP : BOOLEAN, fChangePort : BOOLEAN]
    /\ Ports \subseteq Nat /\ Keys \subseteq Nat /\ MaxAdded \in Nat
    /\ Errors \subseteq 300..600
    /\ \A realm \in Realms :
          /\ realm \in Seq(Nat \ {0}) /\ Len(realm) \in 1..31
          /\ 2 * Len(realm) + 2 <= MAX_STUN_ATTRIBUTE_SIZE
    /\ \A types \in TypeLists :
          types \in Seq(Nat) /\ types # <<>> /\ 2 * Len(types) + 2 <= MAX_STUN_ATTRIBUTE_SIZE
    /\ \A size \in Paddings : size \in Nat /\ size % 2 = 0
    /\ MAX_STUN_ATTRIBUTE_SIZE >= 20

(* What a caller may add, and with which value.                            *)
Additions ==
    [kind : {"mapped", "xor", "origin", "other"}, value : Addresses]
    \cup [kind : {"change"}, value : Changes]
    \cup [kind : {"port"}, value : Ports]
    \cup [kind : {"error"}, value : Errors]
    \cup [kind : {"realm"}, value : Realms]
    \cup [kind : {"unknown"}, value : TypeLists]
    \cup [kind : {"padding"}, value : Paddings]
    \cup [kind : {"integrity"}, value : Keys]
    \cup [kind : {"fingerprint"}, value : {0}]

VARIABLES
    builder,        \* the CStunMessageBuilder
    added,          \* what was added, in order
    wire,           \* the message as it arrives, <<>> while it is being built
    altered,        \* it is not what was sent
    delivered,      \* words of it the reader was given
    reader          \* the CStunMessageReader

vars == <<builder, added, wire, altered, delivered, reader>>

(* The handler answers in legacy mode exactly when the id has no cookie.   *)
Init ==
    /\ \E class \in Classes, transid \in TransactionIds :
          builder = AddHeader(class, transid, SubSeq(transid, 1, 2) # STUN_COOKIE,
                              MAX_STUN_MESSAGE_SIZE)
    /\ added = <<>>
    /\ wire = <<>>
    /\ altered = FALSE
    /\ delivered = 0
    /\ reader = NewReader(TRUE)

AddTo(b, a) ==
    CASE a.kind = "mapped" -> AddMappedAddress(b, a.value)
      [] a.kind = "xor" -> AddXorMappedAddress(b, a.value)
      [] a.kind = "origin" -> AddResponseOriginAddress(b, a.value)
      [] a.kind = "other" -> AddOtherAddress(b, a.value)
      [] a.kind = "change" -> AddChangeRequest(b, a.value)
      [] a.kind = "port" -> AddResponsePort(b, a.value)
      [] a.kind = "error" -> AddErrorCode(b, a.value, <<14, 15, 16>>)
      [] a.kind = "realm" -> AddStringAttribute(b, STUN_ATTRIBUTE_REALM, a.value)
      [] a.kind = "unknown" -> AddUnknownAttributes(b, a.value)
      [] a.kind = "padding" -> AddPaddingAttribute(b, a.value)
      [] a.kind = "integrity" -> AddMessageIntegrityImpl(b, a.value)
      [] a.kind = "fingerprint" -> AddFingerprintAttribute(b)

Add ==
    /\ wire = <<>>
    /\ Len(added) < MaxAdded
    /\ \E a \in Additions :
          /\ builder' = AddTo(builder, a)
          /\ added' = Append(added, a)
    /\ UNCHANGED <<wire, altered, delivered, reader>>

Built == GetResult(builder)

Send ==
    /\ wire = <<>>
    /\ builder' = Built
    /\ wire' = AttachedContent(builder'.stream)
    /\ UNCHANGED <<added, altered, delivered, reader>>

(* -------- the network ------------------------------------------------------ *)

(* A word is changed, the end is lost, something follows the message, an   *)
(* attribute is appended, or the last eight bytes are taken off.           *)
Alterations ==
    {[wire EXCEPT ![i] = (@ + 1) % 65536] : i \in DOMAIN wire}
    \cup {Front(wire), wire \o <<32802, 0>>, [wire \o <<32802, 0>> EXCEPT ![2] = @ + 4]}
    \cup (IF Len(wire) > 14 /\ wire[2] >= 8
          THEN {[SubSeq(wire, 1, Len(wire) - 4) EXCEPT ![2] = @ - 8]} ELSE {})

Alter ==
    /\ wire # <<>> /\ ~altered /\ delivered = 0
    /\ wire' \in Alterations
    /\ altered' = TRUE
    /\ UNCHANGED <<builder, added, delivered, reader>>

Deliver(n) ==
    /\ reader' = AddBytes(reader, SubSeq(wire, delivered + 1, delivered + n))
    /\ delivered' = delivered + n
    /\ UNCHANGED <<builder, added, wire, altered>>

(* recvfromex puts the whole datagram into the buffer.                     *)
DeliverDatagram == delivered = 0 /\ wire # <<>> /\ Deliver(Len(wire))

DeliverPiece ==
    /\ ~altered
    /\ \E n \in {HowManyBytesNeeded(reader) \div 4, HowManyBytesNeeded(reader) \div 2} :
          n > 0 /\ delivered + n <= Len(wire) /\ Deliver(n)

Next == Add \/ Send \/ Alter \/ DeliverDatagram \/ DeliverPiece

Spec == Init /\ [][Next]_vars

(* -------- what a reader should find --------------------------------------- *)

ValuesOf(kind) ==
    LET I == {i \in DOMAIN added : added[i].kind = kind}
    IN  IF I = {} THEN {} ELSE {added[CHOOSE i \in I : \A j \in I : j <= i].value}

(* What the limits of the reader and of the sender's buffer let through;   *)
(* an odd number of unknown types leaves the message unaligned.            *)
Sendable ==
    /\ GetSize(Built.stream) <= MAX_STUN_MESSAGE_SIZE
    /\ Len(added) <= MAX_NUM_ATTRIBUTES
    /\ \A i \in DOMAIN added : added[i].kind = "padding" =>
          added[i].value + Padding(added[i].value) <= MAX_STUN_ATTRIBUTE_SIZE
    /\ \A i \in DOMAIN added : added[i].kind = "unknown" =>
          builder.legacy \/ Len(added[i].value) % 2 = 0

Arrived == wire # <<>> /\ delivered = Len(wire)

(* -------- properties ------------------------------------------------------- *)

(* Whatever is written within the limits is read back, whole or in pieces: *)
(* the reader validates it and its getters return the newest value of each *)
(* kind, XORed addresses restored and legacy types and padding understood. *)
(* RESPONSE-PORT alone cannot be read back from a legacy message, whose    *)
(* padding makes it four bytes long.                                       *)
RoundTrip ==
    Arrived /\ ~altered /\ Sendable =>
        /\ reader.state = "BodyValidated"
        /\ reader.transid = builder.transid
        /\ GetMappedAddress(reader) = ValuesOf("mapped")
        /\ GetXorMappedAddress(reader) = ValuesOf("xor")
        /\ GetResponseOriginAddress(reader) = ValuesOf("origin")
        /\ GetOtherAddress(reader) = ValuesOf("other")
        /\ GetChangeRequest(reader) = ValuesOf("change")
        /\ ~builder.legacy => GetResponsePort(reader) = ValuesOf("port")
        /\ GetErrorCode(reader) = ValuesOf("error")
        /\ GetStringAttributeByType(reader, STUN_ATTRIBUTE_REALM, 65) = ValuesOf("realm")
        /\ GetPaddingAttributeSize(reader) = {n + Padding(n) : n \in ValuesOf("padding")}

(* A validated message is covered exactly by its header and its            *)
(* attributes, which lie one after the other inside it and are no more     *)
(* than the table holds, however the message was changed on the way: every *)
(* getter that respects an attribute's size reads bytes of the message.    *)
AttributesCoverMessage ==
    reader.state = "BodyValidated" =>
        LET A == reader.attributes
            End(i) == IF i = 0 THEN STUN_HEADER_SIZE
                      ELSE A[i].offset + A[i].size + Padding(A[i].size)
        IN  /\ Len(A) <= MAX_NUM_ATTRIBUTES
            /\ \A i \in DOMAIN A : A[i].offset = End(i - 1) + 4
            /\ End(Len(A)) = GetSize(reader.stream)
            /\ End(Len(A)) = reader.msgLength + STUN_HEADER_SIZE

(* A reader that is not done says how many bytes it needs: at least one,   *)
(* and never one beyond the end of the message it is in, so that a TCP     *)
(* thread that receives no more than that leaves the bytes of a next       *)
(* message alone and never spoils the present one.                         *)
NeededStaysInMessage ==
    ~altered /\ wire # <<>> /\ Sendable =>
        /\ reader.state # "ParseError"
        /\ reader.state # "BodyValidated" => HowManyBytesNeeded(reader) > 0
        /\ 2 * delivered + HowManyBytesNeeded(reader) <= 2 * Len(wire)

(* The attribute that can seal the message: the last, or the last but a    *)
(* fingerprint.                                                            *)
Signer ==
    LET n == Len(added)
    IN  IF n > 1 /\ added[n].kind = "fingerprint" THEN n - 1 ELSE n

(* What was sealed validates: integrity under the key it was made with,    *)
(* when it is last or followed by a fingerprint alone, whose addition      *)
(* changed the length it signed; a fingerprint when it is last.            *)
SealsHold ==
    Arrived /\ ~altered /\ Sendable /\ added # <<>> =>
        /\ \A k \in Keys : added[Signer] = [kind |-> "integrity", value |-> k] =>
              ValidateMessageIntegrity(reader, k)
        /\ added[Len(added)].kind = "fingerprint" => IsFingerprintAttributeValid(reader)

(* Nothing else does: not under another key, nor with more behind the      *)
(* integrity attribute than a fingerprint; and what validates was not      *)
(* changed on the way, as far as it is signed.                             *)
OnlySealsHold ==
    /\ Arrived /\ ~altered /\ Sendable =>
          /\ \A k \in Keys : ValidateMessageIntegrity(reader, k) =>
                added # <<>> /\ added[Signer] = [kind |-> "integrity", value |-> k]
          /\ IsFingerprintAttributeValid(reader) =>
                added # <<>> /\ added[Len(added)].kind = "fingerprint"
    /\ \A k \in Keys : ValidateMessageIntegrity(reader, k) =>
          \A a \in Lookup(reader, STUN_ATTRIBUTE_MESSAGEINTEGRITY) :
              /\ Peek(reader.stream, 0) = Peek(builder.stream, 0)
              /\ Bytes(reader.stream, 4, a.offset - 4) = Bytes(builder.stream, 4, a.offset - 4)
=============================================================================
