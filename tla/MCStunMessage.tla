--------------------------- MODULE MCStunMessage ---------------------------
EXTENDS StunMessage, Bitwise

ExclusiveOr(a, b) == a ^^ b

(* An IPv4 and an IPv6 address.                                            *)
TwoAddresses == {[family |-> IPv4, port |-> 5, ip |-> <<3, 4>>],
                 [family |-> IPv6, port |-> 6, ip |-> <<1, 2, 3, 4, 5, 6, 7, 8>>]}

(* One of RFC 5389 and one of RFC 3489.                                    *)
TwoTransactionIds == {STUN_COOKIE \o <<1, 2, 3, 4, 5, 6>>, <<9, 9, 1, 2, 3, 4, 5, 6>>}

ChangeOfAddress == {[fChangeIP |-> TRUE, fChangePort |-> FALSE]}

OneRealm == {<<11, 12, 13>>}

(* An odd and an even number of types.                                     *)
TwoTypeLists == {<<77>>, <<77, 78>>}

(* The same password as a short-term and as a long-term credential.        *)
TwoKeys == {ShortTermKey(<<21, 22>>), LongTermKey(<<23>>, <<24>>, <<21, 22>>)}
=============================================================================
