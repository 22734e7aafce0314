-------------------------- MODULE PollingContract --------------------------
(***************************************************************************)
(* What IPolling (networkutils/polling.h) promises the thread that owns    *)
(* it: the events one system call fetched are owed to the caller, are      *)
(* handed out one by one, and nothing new is fetched before the last of    *)
(* them is.  The two implementations differ in one thing, what becomes of  *)
(* an event that is owed for a descriptor when it is removed: CPoll takes  *)
(* it back, CEpoll reports it all the same.                                *)
(***************************************************************************)
EXTENDS FiniteSets

CONSTANTS Fds, Interests, AlwaysReported, NotWatched, NoFd

VARIABLES
    type,           \* which implementation the caller asked for
    working,        \* the object is initialised
    watched,        \* the interest of every descriptor, or NotWatched
    owed,           \* the events fetched and not yet reported
    ready,          \* what every descriptor is ready for
    ret             \* what the last call returned

Result(hr)       == [hr |-> hr, fd |-> NoFd, flags |-> {}]
Event(f, flags)  == [hr |-> "S_OK", fd |-> f, flags |-> flags]

Watches(f) == watched[f] # NotWatched
Nothing    == [f \in Fds |-> {}]

(* What the system reports of a descriptor: an error whether asked or not. *)
Fetched ==
    [f \in Fds |-> IF Watches(f) THEN ready[f] \cap (watched[f] \cup AlwaysReported)
                   ELSE {}]

CInit ==
    /\ ~working
    /\ watched = [f \in Fds |-> NotWatched]
    /\ owed = Nothing
    /\ ret = Result("none")

COpen ==
    /\ ~working
    /\ ret' = Result("S_OK")
    /\ working' \in BOOLEAN
    /\ UNCHANGED <<watched, owed>>

CClose ==
    /\ ret' = Result("S_OK")
    /\ working' = FALSE
    /\ watched' = [f \in Fds |-> NotWatched]
    /\ owed' = Nothing

Refuse ==
    /\ ret'.hr \notin {"S_OK", "S_FALSE"}
    /\ ret'.fd = NoFd
    /\ UNCHANGED <<working, watched, owed>>

CAdd(f, interest) ==
    \/ /\ working /\ ~Watches(f)
       /\ ret' = Result("S_OK")
       /\ watched' = [watched EXCEPT ![f] = interest]
       /\ UNCHANGED <<working, owed>>
    \/ ~(working /\ ~Watches(f)) /\ Refuse

CChange(f, interest) ==
    \/ /\ working /\ Watches(f)
       /\ ret' = Result("S_OK")
       /\ watched' = [watched EXCEPT ![f] = interest]
       /\ UNCHANGED <<working, owed>>
    \/ ~(working /\ Watches(f)) /\ Refuse

CRemove(f) ==
    \/ /\ working /\ Watches(f)
       /\ ret' = Result("S_OK")
       /\ watched' = [watched EXCEPT ![f] = NotWatched]
       /\ owed' = IF type = "poll" THEN [owed EXCEPT ![f] = {}] ELSE owed
       /\ UNCHANGED working
    \/ ~(working /\ Watches(f)) /\ Refuse

(* One of the events that are owed is reported, and no longer owed.        *)
Report(all) ==
    \E f \in Fds :
       /\ all[f] # {}
       /\ ret' = Event(f, all[f])
       /\ owed' = [all EXCEPT ![f] = {}]

CWait ==
    \/ /\ working /\ owed # Nothing
       /\ Report(owed)
       /\ UNCHANGED <<working, watched>>
    \/ /\ working /\ owed = Nothing
       /\ Report(Fetched)
       /\ UNCHANGED <<working, watched>>
    \/ /\ working /\ owed = Nothing /\ Fetched = Nothing
       /\ ret' = Result("S_FALSE")
       /\ UNCHANGED <<working, watched, owed>>
    \/ (working => owed = Nothing) /\ Refuse

CNext ==
    \/ UNCHANGED <<working, watched, owed, ret>>       \* a descriptor gets ready
    \/ /\ UNCHANGED <<type, ready>>
       /\ \/ COpen \/ CClose \/ CWait
          \/ \E f \in Fds :
                \/ CRemove(f)
                \/ \E i \in Interests : CAdd(f, i) \/ CChange(f, i)

CSpec == CInit /\ [][CNext]_<<type, working, watched, owed, ready, ret>>
=============================================================================
