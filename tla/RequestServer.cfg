SPECIFICATION Spec
CONSTANTS
    NoMessage = NoMessage
    SocketSets <- MCSocketSets
    AdvertisedIPs <- MCAdvertisedIPs
INVARIANT OtherAddressIsHonoured
INVARIANT AddressesAreTrue
INVARIANT OnlyAuthorizedIsServed
