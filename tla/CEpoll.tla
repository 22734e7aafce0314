------------------------------- MODULE CEpoll -------------------------------
(***************************************************************************)
(* CEpoll (networkutils/polling.cpp), the implementation of IPolling over  *)
(* epoll(7).  The system keeps the watched descriptors; _events buffers    *)
(* what one epoll_wait returned, in an order the system chooses, and so is *)
(* the set of the events between _currentEventIndex and _pendingCount.     *)
(***************************************************************************)
EXTENDS PollBase

VARIABLES
    epollfd,        \* _epollfd # -1
    interest,       \* the system's: the event set of every watched descriptor
    events          \* _events, from _currentEventIndex to _pendingCount

evars == <<epollfd, interest, events>>

Unwatched == [f \in Fds |-> NotWatched]

EpollInit == epollfd = FALSE /\ interest = Unwatched /\ events = {}

(* Success is returned also when epoll_create failed.                      *)
EpollInitialize ==
    /\ epollfd' \in BOOLEAN
    /\ interest' = Unwatched
    /\ events' = {}
    /\ ret' = Result("S_OK")

EventsAfterClose_Kept == events

EventsAfterClose == {}

EpollClose ==
    /\ epollfd' = FALSE
    /\ interest' = Unwatched
    /\ events' = EventsAfterClose
    /\ ret' = Result("S_OK")

EpollRefuse(hr) == ret' = Result(hr) /\ UNCHANGED evars

(* epoll_ctl: a descriptor is added once, then changed or removed.         *)
EpollCtl(f, mustBeWatched, set) ==
    \/ ~epollfd /\ EpollRefuse("E_UNEXPECTED")
    \/ /\ epollfd /\ (interest[f] # NotWatched) # mustBeWatched
       /\ EpollRefuse("E_ERRNO")
    \/ /\ epollfd /\ (interest[f] # NotWatched) = mustBeWatched
       /\ interest' = [interest EXCEPT ![f] = set]
       /\ ret' = Result("S_OK")
       /\ UNCHANGED <<epollfd, events>>

EpollAdd(f, set) == EpollCtl(f, FALSE, set)

EpollChangeEventSet(f, set) == EpollCtl(f, TRUE, set)

(* An event of f that is still in the buffer stays there.                  *)
EpollRemove(f) == EpollCtl(f, TRUE, NotWatched)

(* epoll_wait: all that is ready fits, as no more than MaxSockets are watched. *)
EpollFetched ==
    {e \in {Event(f, ready[f] \cap (interest[f] \cup AlwaysReported)) :
            f \in {g \in Fds : interest[g] # NotWatched}} : e.flags # {}}

Deliver(buffer) ==
    \E e \in buffer : ret' = e /\ events' = buffer \ {e}

EpollWait ==
    \/ ~epollfd /\ EpollRefuse("E_UNEXPECTED")
    \/ /\ epollfd /\ events # {}
       /\ Deliver(events)
       /\ UNCHANGED <<epollfd, interest>>
    \/ /\ epollfd /\ events = {}
       /\ Deliver(EpollFetched)
       /\ UNCHANGED <<epollfd, interest>>
    \/ /\ epollfd /\ events = {} /\ EpollFetched = {}
       /\ EpollRefuse("S_FALSE")
    \/ /\ epollfd /\ events = {}
       /\ EpollRefuse("E_ERRNO")
=============================================================================
