SPECIFICATION Spec
CONSTANTS
    MAX_STUN_MESSAGE_SIZE = 80
    MAX_STUN_ATTRIBUTE_SIZE = 40
    MAX_NUM_ATTRIBUTES = 3
    Addresses <- TwoAddresses
    XorWord <- ExclusiveOr
    TransactionIds <- TwoTransactionIds
    Changes <- ChangeOfAddress
    Ports = {7}
    Errors = {438}
    Realms <- OneRealm
    TypeLists <- TwoTypeLists
    Paddings = {6, 42}
    Keys <- TwoKeys
    MaxAdded = 3
    Classes = {3}
CHECK_DEADLOCK FALSE
INVARIANT RoundTrip
INVARIANT AttributesCoverMessage
INVARIANT NeededStaysInMessage
INVARIANT SealsHold
INVARIANT OnlySealsHold
