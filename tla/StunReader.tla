---------------------------- MODULE StunReader ----------------------------
(***************************************************************************)
(* CStunMessageReader (stuncore/stunreader.cpp): a reader takes the bytes  *)
(* of a message in pieces, validates the header as soon as it has it and   *)
(* the attributes once the body is complete.  A reader is a record; every  *)
(* operator is one method.                                                 *)
(*                                                                         *)
(* The hash table of attributes appears as the sequence of what was        *)
(* inserted: a lookup by type finds the newest entry, as FastHash does.    *)
(***************************************************************************)
EXTENDS StunBuilder

CONSTANTS
    MAX_STUN_MESSAGE_SIZE, MAX_STUN_ATTRIBUTE_SIZE, MAX_NUM_ATTRIBUTES

ASSUME ReaderAssumption ==
    {MAX_STUN_MESSAGE_SIZE, MAX_STUN_ATTRIBUTE_SIZE, MAX_NUM_ATTRIBUTES} \subseteq Nat

(* Reset, followed by the Attach every caller does.                        *)
NewReader(allowLegacy) ==
    [state |-> "HeaderNotRead", stream |-> Attach(MAX_STUN_MESSAGE_SIZE), attributes |-> <<>>,
     msgLength |-> 0, msgClass |-> "Invalid", transid |-> <<>>, allowLegacy |-> allowLegacy]

HowManyBytesNeeded_WholeHeader(r) ==
    CASE r.state = "HeaderNotRead" -> STUN_HEADER_SIZE
      [] r.state = "HeaderValidated" -> r.msgLength + STUN_HEADER_SIZE - GetSize(r.stream)
      [] OTHER -> 0

HowManyBytesNeeded(r) ==
    CASE r.state = "HeaderNotRead" -> STUN_HEADER_SIZE - GetSize(r.stream)
      [] r.state = "HeaderValidated" -> r.msgLength + STUN_HEADER_SIZE - GetSize(r.stream)
      [] OTHER -> 0

(* -------- parsing --------------------------------------------------------- *)

ClassOf(msgType) ==
    CASE (msgType \div 16) % 2 = 0 /\ (msgType \div 256) % 2 = 0 -> "Request"
      [] (msgType \div 16) % 2 = 1 /\ (msgType \div 256) % 2 = 0 -> "Indication"
      [] (msgType \div 16) % 2 = 0 /\ (msgType \div 256) % 2 = 1 -> "SuccessResponse"
      [] OTHER -> "FailureResponse"

IsMessageLegacyFormat(r) == SubSeq(r.transid, 1, 2) # STUN_COOKIE

ReadHeader(r) ==
    LET msgType == Peek(r.stream, 0)
        header == [r EXCEPT !.msgLength = Peek(r.stream, 2),
                            !.transid = Bytes(r.stream, 4, STUN_HEADER_SIZE),
                            !.msgClass = ClassOf(msgType)]
        valid == /\ msgType < 16384
                 /\ header.msgLength % 4 = 0
                 /\ r.allowLegacy \/ ~IsMessageLegacyFormat(header)
                 /\ header.msgLength <= MAX_STUN_MESSAGE_SIZE
    IN  IF ~valid THEN [r EXCEPT !.state = "ParseError"]
        ELSE [header EXCEPT !.state = IF header.msgLength = 0 THEN "BodyValidated"
                                      ELSE "HeaderValidated"]

(* One pass of the loop of ReadBody, which ends at the end of the stream   *)
(* or at the first failure: type, length, the value skipped, and whatever  *)
(* padding its length asks for.                                            *)
ReadAttribute(r) ==
    LET stream == r.stream
        type == Peek(stream, stream.pos)
        size == Peek(stream, stream.pos + 2)
        extent == 4 + size + Padding(size)
    IN  IF r.state # "HeaderValidated" THEN r
        ELSE IF stream.pos = GetSize(stream) THEN [r EXCEPT !.state = "BodyValidated"]
        ELSE IF \/ ~CanRead(stream, 4)
                \/ size > MAX_STUN_ATTRIBUTE_SIZE
                \/ Len(r.attributes) = MAX_NUM_ATTRIBUTES
                \/ ~CanSeek(stream, extent)
        THEN [r EXCEPT !.state = "ParseError"]
        ELSE [r EXCEPT !.stream = SeekRelative(@, extent),
                       !.attributes = Append(@, [type |-> type, size |-> size,
                                                 offset |-> stream.pos + 4])]

(* The passes that succeed are no more than the table holds.               *)
ReadBody(r) ==
    LET after[n \in 0..(MAX_NUM_ATTRIBUTES + 1)] ==
            IF n = 0 THEN [r EXCEPT !.stream = SeekDirect(@, STUN_HEADER_SIZE)]
            ELSE ReadAttribute(after[n - 1])
    IN  after[MAX_NUM_ATTRIBUTES + 1]

Advance_TooManyAccepted(r) ==
    LET headerRead == IF r.state = "HeaderNotRead" /\ GetSize(r.stream) >= STUN_HEADER_SIZE
                      THEN ReadHeader(r) ELSE r
        whole == headerRead.msgLength + STUN_HEADER_SIZE
    IN  IF headerRead.state = "HeaderValidated" /\ GetSize(r.stream) >= whole
        THEN ReadBody(headerRead) ELSE headerRead

(* One step after the bytes were appended: the header once it is there,    *)
(* the body once it is complete; a byte too many spoils the message.       *)
Advance(r) ==
    LET headerRead == IF r.state = "HeaderNotRead" /\ GetSize(r.stream) >= STUN_HEADER_SIZE
                      THEN ReadHeader(r) ELSE r
        size == GetSize(r.stream)
        whole == headerRead.msgLength + STUN_HEADER_SIZE
    IN  CASE headerRead.state \in {"HeaderValidated", "BodyValidated"} /\ size > whole ->
                [headerRead EXCEPT !.state = "ParseError"]
          [] headerRead.state = "HeaderValidated" /\ size = whole -> ReadBody(headerRead)
          [] OTHER -> headerRead

AddBytes(r, words) ==
    IF r.state = "ParseError" \/ words = <<>> THEN r
    ELSE Advance([r EXCEPT !.stream = Write(SeekDirect(@, GetSize(@)), words)])

(* -------- attributes ------------------------------------------------------ *)

Indexes(r, type) == {i \in DOMAIN r.attributes : r.attributes[i].type = type}

(* The newest attribute of a type, as a set of at most one.                *)
Lookup(r, type) ==
    LET I == Indexes(r, type)
    IN  IF I = {} THEN {} ELSE {r.attributes[CHOOSE i \in I : \A j \in I : j <= i]}

Value(r, a) == Bytes(r.stream, a.offset, a.offset + a.size)

WordAt(r, a, offset) == Peek(r.stream, a.offset + offset)

(* GetMappedAddress of stunutils.cpp on the bytes of an attribute.         *)
AddressIn(r, a) ==
    LET ipLength == IF a.size >= 4 /\ WordAt(r, a, 0) % 256 = IPv4 THEN 4 ELSE 16
    IN  IF a.size < 4 + ipLength THEN {}
        ELSE {[family |-> IF ipLength = 4 THEN IPv4 ELSE IPv6, port |-> WordAt(r, a, 2),
               ip |-> Bytes(r.stream, a.offset + 4, a.offset + 4 + ipLength)]}

GetAddressHelper(r, type) == UNION {AddressIn(r, a) : a \in Lookup(r, type)}

GetMappedAddress(r) == GetAddressHelper(r, STUN_ATTRIBUTE_MAPPEDADDRESS)

(* The attribute of RFC 5389, or else its RFC 3489 predecessor.            *)
WithFallback(found, legacy) == IF found # {} THEN found ELSE legacy

GetOtherAddress(r) ==
    WithFallback(GetAddressHelper(r, STUN_ATTRIBUTE_OTHER_ADDRESS),
                 GetAddressHelper(r, STUN_ATTRIBUTE_CHANGEDADDRESS))

GetResponseOriginAddress(r) ==
    WithFallback(GetAddressHelper(r, STUN_ATTRIBUTE_RESPONSE_ORIGIN),
                 GetAddressHelper(r, STUN_ATTRIBUTE_SOURCEADDRESS))

GetXorMappedAddress(r) ==
    {ApplyStunXorMap(addr, r.transid) : addr \in
        WithFallback(GetAddressHelper(r, STUN_ATTRIBUTE_XORMAPPEDADDRESS),
                     GetAddressHelper(r, STUN_ATTRIBUTE_XORMAPPEDADDRESS_OPTIONAL))}

GetResponsePort(r) ==
    {WordAt(r, a, 0) : a \in {b \in Lookup(r, STUN_ATTRIBUTE_RESPONSE_PORT) : b.size = 2}}

GetChangeRequest(r) ==
    {[fChangeIP |-> (WordAt(r, a, 2) \div 4) % 2 = 1,
      fChangePort |-> (WordAt(r, a, 2) \div 2) % 2 = 1] :
        a \in {b \in Lookup(r, STUN_ATTRIBUTE_CHANGEREQUEST) : b.size = 4}}

GetPaddingAttributeSize(r) == {a.size : a \in Lookup(r, STUN_ATTRIBUTE_PADDING)}

GetErrorCode(r) ==
    {(((WordAt(r, a, 2) \div 256) % 8) * 100) + (WordAt(r, a, 2) % 256) :
        a \in Lookup(r, STUN_ATTRIBUTE_ERRORCODE)}

(* A string ends at its first zero, so legacy padding is not part of it.   *)
Terminated(words) ==
    LET zeros == {i \in DOMAIN words : words[i] = 0}
    IN  IF zeros = {} THEN words ELSE SubSeq(words, 1, Min(zeros) - 1)

GetStringAttributeByType(r, type, size) ==
    {Terminated(Value(r, a)) : a \in {b \in Lookup(r, type) : b.size < size}}

(* -------- seals ------------------------------------------------------------ *)

IsFingerprintAttributeValid(r) ==
    /\ r.state = "BodyValidated"
    /\ \E a \in Lookup(r, STUN_ATTRIBUTE_FINGERPRINT) :
          /\ a.size = 4
          /\ WordAt(r, a, 0) = Checksum(0, Bytes(r.stream, 0, GetSize(r.stream) - 8))
          /\ WordAt(r, a, 2) = 0

IsLast(r, a) == a = Last(r.attributes)

FollowedByFingerprint_AnyAttribute(r, a) ==
    Len(r.attributes) > 1 /\ a = r.attributes[Len(r.attributes) - 1]

FollowedByFingerprint(r, a) ==
    /\ Len(r.attributes) > 1
    /\ a = r.attributes[Len(r.attributes) - 1]
    /\ Last(r.attributes).type = STUN_ATTRIBUTE_FINGERPRINT

SignedBytes_Unadjusted(r, a) == Bytes(r.stream, 0, a.offset - 4)

(* What the integrity attribute signs: all before it, with the length the  *)
(* header had before a fingerprint was appended.                           *)
SignedBytes(r, a) ==
    LET length == IF IsLast(r, a) THEN Peek(r.stream, 2) ELSE Peek(r.stream, 2) - 8
    IN  [Bytes(r.stream, 0, a.offset - 4) EXCEPT ![2] = length]

ValidateMessageIntegrity(r, key) ==
    /\ r.state = "BodyValidated"
    /\ \E a \in Lookup(r, STUN_ATTRIBUTE_MESSAGEINTEGRITY) :
          /\ a.size = 20
          /\ IsLast(r, a) \/ FollowedByFingerprint(r, a)
          /\ Value(r, a) = <<Checksum(key, SignedBytes(r, a))>> \o Zeros(18)
=============================================================================
