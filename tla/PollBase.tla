------------------------------ MODULE PollBase ------------------------------
(***************************************************************************)
(* What the two implementations of IPolling (networkutils/polling.h) have  *)
(* in common: the descriptors, their readiness, which the system decides,  *)
(* and the result of a call.  A set of event flags is a subset of Flags.   *)
(***************************************************************************)
EXTENDS Integers, Sequences, FiniteSets

CONSTANTS
    Fds,
    Flags,
    Interests,      \* the event sets callers ask for
    AlwaysReported, \* POLLHUP and POLLERR: reported whether asked for or not
    MaxSockets,     \* the argument of Initialize; also the size of _events
    NotWatched, NoFd

ASSUME PollAssumption ==
    /\ IsFiniteSet(Fds)
    /\ MaxSockets \in Nat
    /\ Interests \subseteq SUBSET Flags
    /\ AlwaysReported \subseteq Flags
    /\ NoFd \notin Fds
    /\ \A set \in Interests : set # NotWatched

VARIABLES
    ready,          \* what every descriptor is ready for
    ret             \* what the last call returned

Result(hr)      == [hr |-> hr, fd |-> NoFd, flags |-> {}]
Event(f, flags) == [hr |-> "S_OK", fd |-> f, flags |-> flags]

(* Data arrives or is read, buffers fill and drain, peers hang up.         *)
Readiness(f) == \E s \in SUBSET Flags : ready' = [ready EXCEPT ![f] = s]
=============================================================================
