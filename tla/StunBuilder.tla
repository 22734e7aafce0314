---------------------------- MODULE StunBuilder ----------------------------
(***************************************************************************)
(* CStunMessageBuilder (stuncore/stunbuilder.cpp): how a STUN message is   *)
(* laid out.  A builder is the record of its stream, its transaction id    *)
(* and its mode; every operator is one method and returns the builder      *)
(* after it.                                                               *)
(*                                                                         *)
(* Numbers are small, types are the real ones.  A string is a sequence of  *)
(* words without zero; a checksum is a polynomial over the words, with the *)
(* key as its seed for HMAC.                                               *)
(***************************************************************************)
EXTENDS DataStream, SequencesExt

CONSTANT
    XorWord(_, _)   \* exclusive or of two words

(* -------- stuntypes.h ---------------------------------------------------- *)

STUN_ATTRIBUTE_MAPPEDADDRESS     == 1
STUN_ATTRIBUTE_CHANGEREQUEST     == 3
STUN_ATTRIBUTE_SOURCEADDRESS     == 4
STUN_ATTRIBUTE_CHANGEDADDRESS    == 5
STUN_ATTRIBUTE_MESSAGEINTEGRITY  == 8
STUN_ATTRIBUTE_ERRORCODE         == 9
STUN_ATTRIBUTE_UNKNOWNATTRIBUTES == 10
STUN_ATTRIBUTE_REALM             == 20
STUN_ATTRIBUTE_XORMAPPEDADDRESS  == 32
STUN_ATTRIBUTE_PADDING           == 38
STUN_ATTRIBUTE_RESPONSE_PORT     == 39
STUN_ATTRIBUTE_XORMAPPEDADDRESS_OPTIONAL == 32800
STUN_ATTRIBUTE_FINGERPRINT       == 32808
STUN_ATTRIBUTE_RESPONSE_ORIGIN   == 32811
STUN_ATTRIBUTE_OTHER_ADDRESS     == 32812

STUN_HEADER_SIZE == 20
STUN_COOKIE == <<8466, 42050>>

(* -------- addresses and checksums ---------------------------------------- *)

(* An address is its family, its port and the words of its IP address.     *)
IPv4 == 1
IPv6 == 2

(* Port and address are combined with the bytes of the transaction id.     *)
ApplyStunXorMap(addr, transid) ==
    [addr EXCEPT !.port = XorWord(@, transid[1]),
                 !.ip = [i \in DOMAIN @ |-> XorWord(@[i], transid[i])]]

Checksum(seed, words) ==
    LET sum[n \in 0..Len(words)] ==
            IF n = 0 THEN seed ELSE ((sum[n - 1] * 31) + words[n]) % 65521
    IN  sum[Len(words)]

(* -------- building ------------------------------------------------------- *)

AddHeader(class, transid, legacy, allocated) ==
    LET type == 1 + (IF class \in {2, 3} THEN 256 ELSE 0) + (IF class \in {1, 3} THEN 16 ELSE 0)
    IN  [stream |-> Write(Attach(allocated), <<type, 0>> \o transid),
         transid |-> transid, legacy |-> legacy]

Put(b, words) == [b EXCEPT !.stream = Write(@, words)]

AddAttributeHeader(b, type, size) == Put(b, <<type, size>>)

Padding(size) == IF size % 4 # 0 THEN 4 - (size % 4) ELSE 0

Zeros(size) == [i \in 1..(size \div 2) |-> 0]

AddAttribute_Unpadded(b, type, words) ==
    Put(AddAttributeHeader(b, type, 2 * Len(words)), words)

(* RFC 3489 clients know nothing of padding: for them it is part of the    *)
(* attribute, for the others it follows it.                                *)
AddAttribute(b, type, words) ==
    LET size == 2 * Len(words)
        sizeheader == IF b.legacy THEN size + Padding(size) ELSE size
    IN  Put(Put(AddAttributeHeader(b, type, sizeheader), words), Zeros(Padding(size)))

AddStringAttribute(b, type, str) == IF str = <<>> THEN b ELSE AddAttribute(b, type, str)

AddErrorCode(b, number, reason) ==
    IF number < 300 \/ number > 600 \/ 2 * Len(reason) >= 128 THEN b
    ELSE AddAttribute(b, STUN_ATTRIBUTE_ERRORCODE,
                      <<0, ((number \div 100) * 256) + (number % 100)>> \o reason)

(* For RFC 3489 the last of an odd number of types is repeated; otherwise  *)
(* nothing is added, and the attribute ends off the 4-byte boundary.  The  *)
(* caller's array is written as it is, and types are the words that makes. *)
AddUnknownAttributes(b, types) ==
    LET fPad == b.legacy /\ Len(types) % 2 = 1
        words == IF fPad THEN Append(types, Last(types)) ELSE types
    IN  Put(AddAttributeHeader(b, STUN_ATTRIBUTE_UNKNOWNATTRIBUTES, 2 * Len(words)), words)

AddMappedAddressImpl(b, type, addr) ==
    Put(AddAttributeHeader(b, type, IF addr.family = IPv4 THEN 8 ELSE 20),
        <<addr.family, addr.port>> \o addr.ip)

AddXorMappedAddress(b, addr) ==
    AddMappedAddressImpl(b, IF b.legacy THEN STUN_ATTRIBUTE_XORMAPPEDADDRESS_OPTIONAL
                            ELSE STUN_ATTRIBUTE_XORMAPPEDADDRESS,
                         ApplyStunXorMap(addr, b.transid))

AddMappedAddress(b, addr) == AddMappedAddressImpl(b, STUN_ATTRIBUTE_MAPPEDADDRESS, addr)

AddResponseOriginAddress(b, addr) ==
    AddMappedAddressImpl(b, IF b.legacy THEN STUN_ATTRIBUTE_SOURCEADDRESS
                            ELSE STUN_ATTRIBUTE_RESPONSE_ORIGIN, addr)

AddOtherAddress(b, addr) ==
    AddMappedAddressImpl(b, IF b.legacy THEN STUN_ATTRIBUTE_CHANGEDADDRESS
                            ELSE STUN_ATTRIBUTE_OTHER_ADDRESS, addr)

AddResponsePort(b, port) == AddAttribute(b, STUN_ATTRIBUTE_RESPONSE_PORT, <<port>>)

AddPaddingAttribute(b, size) ==
    LET rounded == size + Padding(size)
    IN  Put(AddAttributeHeader(b, STUN_ATTRIBUTE_PADDING, rounded), Zeros(rounded))

AddChangeRequest(b, change) ==
    AddAttribute(b, STUN_ATTRIBUTE_CHANGEREQUEST,
        <<0, (IF change.fChangeIP THEN 4 ELSE 0) + (IF change.fChangePort THEN 2 ELSE 0)>>)

(* The length in the header counts what follows the header.                *)
FixLengthField(b) ==
    [b EXCEPT !.stream =
        SeekDirect(Write(SeekDirect(@, 2), <<GetSize(@) - STUN_HEADER_SIZE>>), @.pos)]

(* A seal is the checksum of all that precedes its attribute, the header   *)
(* with a length that includes it: written as zeros, then filled in.       *)
Seal(b, type, words, seed) ==
    LET dummy == FixLengthField(AddAttribute(b, type, Zeros(2 * words)))
        end == GetSize(dummy.stream)
        value == end - 2 * words
        sum == Checksum(seed, Bytes(dummy.stream, 0, value - 4))
    IN  [dummy EXCEPT !.stream =
            SeekDirect(Write(SeekDirect(@, value), <<sum>>), end)]

(* Both sides derive the key the same way: the password itself, or the     *)
(* digest of user:realm:password.                                          *)
ShortTermKey(password) == Checksum(1, password)

LongTermKey(user, realm, password) ==
    Checksum(0, user \o <<58>> \o realm \o <<58>> \o password)

AddFingerprintAttribute(b) == Seal(b, STUN_ATTRIBUTE_FINGERPRINT, 2, 0)

AddMessageIntegrityImpl(b, key) == Seal(b, STUN_ATTRIBUTE_MESSAGEINTEGRITY, 10, key)

GetResult(b) == FixLengthField(b)
=============================================================================
