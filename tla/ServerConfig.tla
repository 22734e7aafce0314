---------------------------- MODULE ServerConfig ----------------------------
(***************************************************************************)
(* From the options of one server to its configuration:                    *)
(* BuildServerConfigurationFromArgs of server/main.cpp, the choice of      *)
(* adapters of networkutils/adapters.cpp, and the addresses the server     *)
(* will announce (server.cpp, tcpserver.cpp).                              *)
(*                                                                         *)
(* An option that is not given is "" or Absent.  An address is a record of *)
(* an ip and a port; IP addresses are names.                               *)
(***************************************************************************)
EXTENDS Integers, Sequences

CONSTANTS
    Host,           \* getifaddrs: a sequence of [name, ip, family, usable],
                    \* usable being up and not a loopback adapter
    NumericIPs      \* what inet_pton accepts, by family: [{"4", "6"} -> set]

AllRoles == <<"PP", "PA", "AP", "AA">>
RoleSet  == {"PP", "PA", "AP", "AA"}

Absent == -1
AnyIP  == "any"             \* INADDR_ANY, the zero address
Address(ip, port) == [ip |-> ip, port |-> port]
NoAddr == Address("", 0)

DEFAULT_STUN_PORT == 3478

(* -------- adapters ------------------------------------------------------ *)

DefaultAdapters(family) ==
    SelectSeq(Host, LAMBDA a : a.family = family /\ a.usable)

HasAtLeastTwoAdapters(family) == Len(DefaultAdapters(family)) >= 2

(* The first default adapter is the primary one, the second the alternate. *)
GetBestAddressForSocketBind(fPrimary, family) ==
    DefaultAdapters(family)[IF fPrimary THEN 1 ELSE 2].ip

(* An adapter of that name, or else one with that address; the first of    *)
(* several.  Whether it is up is not asked.                                *)
Named(family, name) ==
    SelectSeq(Host, LAMBDA a : a.family = family /\ a.name = name)
        \o SelectSeq(Host, LAMBDA a : a.family = family /\ a.ip = name)

ResolveAdapterName(fPrimary, family, name) ==
    IF name = "" THEN GetBestAddressForSocketBind(fPrimary, family)
    ELSE Named(family, name)[1].ip

Resolves(fPrimary, family, name) ==
    IF name = "" THEN Len(DefaultAdapters(family)) >= (IF fPrimary THEN 1 ELSE 2)
    ELSE Named(family, name) # <<>>

(* -------- options ------------------------------------------------------- *)

IsFull(args)     == args.mode = "full"
Family(args)     == IF args.family = "" THEN "4" ELSE args.family
IsTCP(args)      == args.protocol = "tcp"
PrimaryPort(args) ==
    IF args.primaryport = Absent THEN DEFAULT_STUN_PORT ELSE args.primaryport
AltPort(args)    ==
    IF args.altport = Absent THEN DEFAULT_STUN_PORT + 1 ELSE args.altport

PrimaryIP(args) == ResolveAdapterName(TRUE, Family(args), args.primaryinterface)
AltIP(args)     == ResolveAdapterName(FALSE, Family(args), args.altinterface)

WordsAreKnown(args) ==
    /\ args.mode \in {"", "basic", "full"}
    /\ args.family \in {"", "4", "6"}
    /\ args.protocol \in {"", "udp", "tcp"}

ValidateNumber(n, max) == n \in 1..max

MaxConnectionsIsValid(args) ==
    args.maxconn # Absent /\ IsTCP(args) => ValidateNumber(args.maxconn, 100000)

PortsAreValid_NotCompared(args) ==
    ValidateNumber(PrimaryPort(args), 65535) /\ ValidateNumber(AltPort(args), 65535)

(* The two ports are compared in basic mode too, which uses only one.      *)
PortsAreValid(args) ==
    /\ ValidateNumber(PrimaryPort(args), 65535)
    /\ ValidateNumber(AltPort(args), 65535)
    /\ PrimaryPort(args) # AltPort(args)

InterfacesAreValid(args) ==
    IF IsFull(args)
    THEN /\ HasAtLeastTwoAdapters(Family(args))
         /\ Resolves(TRUE, Family(args), args.primaryinterface)
         /\ Resolves(FALSE, Family(args), args.altinterface)
         /\ PrimaryIP(args) # AltIP(args)
    ELSE args.primaryinterface # "" =>
            Resolves(TRUE, Family(args), args.primaryinterface)

(* In basic mode an alternate address is complained about and accepted:    *)
(* the check that should refuse it asks for a socket only full mode has.   *)
AdvertisedIsValid(args) ==
    \A ip \in {args.primaryadvertised, args.altadvertised} :
        ip # "" => ip \in NumericIPs[Family(args)]

Accepts(args) ==
    /\ WordsAreKnown(args)
    /\ MaxConnectionsIsValid(args)
    /\ PortsAreValid(args)
    /\ InterfacesAreValid(args)
    /\ AdvertisedIsValid(args)

(* -------- the configuration --------------------------------------------- *)

BasicSockets(args) ==
    [r \in RoleSet |->
        IF r # "PP" THEN NoAddr
        ELSE Address(IF args.primaryinterface = "" THEN AnyIP ELSE PrimaryIP(args),
                     PrimaryPort(args))]

FullSockets(args) ==
    [PP |-> Address(PrimaryIP(args), PrimaryPort(args)),
     PA |-> Address(PrimaryIP(args), AltPort(args)),
     AP |-> Address(AltIP(args), PrimaryPort(args)),
     AA |-> Address(AltIP(args), AltPort(args))]

(* No option sets fMultiThreadedMode.                                      *)
BuildServerConfiguration(args) ==
    [fTCP |-> IsTCP(args),
     fMultiThreadedMode |-> FALSE,
     nMaxConnections |-> IF IsTCP(args) /\ args.maxconn # Absent THEN args.maxconn ELSE 0,
     listen |-> IF IsFull(args) THEN FullSockets(args) ELSE BasicSockets(args),
     primaryAdvertised |-> args.primaryadvertised,
     alternateAdvertised |-> args.altadvertised,
     fEnableDosProtection |-> args.ddp]

Has(config, r) == config.listen[r] # NoAddr

Listed(config, r) == IF Has(config, r) THEN <<r>> ELSE <<>>

(* The roles a socket is configured for, in their order.                   *)
RolesOf(config) ==
    Listed(config, "PP") \o Listed(config, "PA")
        \o Listed(config, "AP") \o Listed(config, "AA")

(* Only the IP address of what is advertised counts.                       *)
AdvertisedPort(config, r) == config.listen[r].port

(* The address of a socket in the transport address set of the threads.    *)
TransportAddress(config, r) ==
    LET ip == IF r \in {"PP", "PA"} THEN config.primaryAdvertised
              ELSE config.alternateAdvertised
    IN  IF ip = "" THEN config.listen[r]
        ELSE Address(ip, AdvertisedPort(config, r))
=============================================================================
