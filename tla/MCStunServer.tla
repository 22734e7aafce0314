---------------------------- MODULE MCStunServer ----------------------------
EXTENDS StunServer

(* A host with a loopback adapter, two more for IPv4 and one for IPv6.     *)
Adapter(name, ip, family, usable) ==
    [name |-> name, ip |-> ip, family |-> family, usable |-> usable]

TwoAdapters ==
    << Adapter("lo", "127.0.0.1", "4", FALSE),
       Adapter("eth0", "10.0.0.1", "4", TRUE),
       Adapter("eth0", "fe80::1", "6", TRUE),
       Adapter("eth1", "10.0.0.2", "4", TRUE) >>

NumericAddresses ==
    [f \in {"4", "6"} |-> IF f = "4" THEN {"1.1.1.1", "2.2.2.2", "10.0.0.1"} ELSE {}]

Default ==
    [mode |-> "", family |-> "", protocol |-> "", maxconn |-> Absent,
     primaryport |-> Absent, altport |-> Absent,
     primaryinterface |-> "", altinterface |-> "",
     primaryadvertised |-> "", altadvertised |-> "", ddp |-> FALSE]

Full == [Default EXCEPT !.mode = "full"]

FullTCP == [Full EXCEPT !.protocol = "tcp"]

(* Options that are accepted, each for another reason.                     *)
Accepted ==
    { <<Default>>,
      <<[Default EXCEPT !.ddp = TRUE, !.primaryinterface = "eth1",
                        !.altadvertised = "1.1.1.1"]>>,
      <<[Full EXCEPT !.ddp = TRUE, !.primaryadvertised = "1.1.1.1",
                     !.altadvertised = "2.2.2.2"]>>,
      <<[FullTCP EXCEPT !.altadvertised = "10.0.0.1"]>>,
      <<Default, FullTCP>>,
      <<[FullTCP EXCEPT !.maxconn = 100000]>> }

(* Options that are refused, alone or after a server that was started.     *)
Refused ==
    { <<[Default EXCEPT !.mode = "half"]>>,
      <<[Default EXCEPT !.primaryport = DEFAULT_STUN_PORT + 1]>>,
      <<[Default EXCEPT !.primaryinterface = "eth9"]>>,
      <<[Full EXCEPT !.family = "6"]>>,
      <<[Full EXCEPT !.primaryport = 3479]>>,
      <<[Full EXCEPT !.altinterface = "10.0.0.1"]>>,
      <<[Full EXCEPT !.altadvertised = "eth0"]>>,
      <<FullTCP, [Default EXCEPT !.altport = 65536]>>,
      <<Default, [FullTCP EXCEPT !.maxconn = 100001]>> }

(* Two sockets with a thread each, sharing a limiter; four over TCP.       *)
TwoSockets ==
    [NoConfig EXCEPT
        !.fMultiThreadedMode = TRUE, !.fEnableDosProtection = TRUE,
        !.listen = [BasicSockets(Default) EXCEPT !.AA = Address("10.0.0.2", 3479)]]

FourOverTCP ==
    [BuildServerConfiguration(FullTCP) EXCEPT !.fMultiThreadedMode = TRUE]

MCOwnConfigs == {TwoSockets, FourOverTCP}

MCArgLists == Accepted \cup Refused
=============================================================================
