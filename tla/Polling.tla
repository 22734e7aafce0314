------------------------------ MODULE Polling ------------------------------
(***************************************************************************)
(* IPolling and its two implementations, CPoll and CEpoll, under a caller  *)
(* that makes any sequence of calls the interface allows: it initialises   *)
(* an object that is closed, and never watches more descriptors than the   *)
(* maxSockets it announced.  CreatePollingInstance chose the type.         *)
(***************************************************************************)
EXTENDS CPoll, CEpoll

VARIABLE type       \* IPOLLING_TYPE_POLL or IPOLLING_TYPE_EPOLL

vars == <<ready, ret, pvars, evars, type>>

WatchedSlots(f) == {s \in DOMAIN fds : fds[s].fd = f}

Watched(f) ==
    IF type = "poll" THEN WatchedSlots(f) # {} ELSE interest[f] # NotWatched

HasRoom == Cardinality({f \in Fds : Watched(f)}) < MaxSockets

CreatePollingInstance == type \in {"poll", "epoll"}

Init ==
    /\ CreatePollingInstance
    /\ PollInit /\ EpollInit
    /\ ready = [f \in Fds |-> {}]
    /\ ret = Result("none")

Initialize ==
    \/ type = "poll" /\ ~fInitialized /\ PollInitialize /\ UNCHANGED evars
    \/ type = "epoll" /\ ~epollfd /\ EpollInitialize /\ UNCHANGED pvars

Close ==
    \/ type = "poll" /\ PollClose /\ UNCHANGED evars
    \/ type = "epoll" /\ EpollClose /\ UNCHANGED pvars

Add(f, set) ==
    /\ Watched(f) \/ HasRoom
    /\ \/ type = "poll" /\ PollAdd(f, set) /\ UNCHANGED evars
       \/ type = "epoll" /\ EpollAdd(f, set) /\ UNCHANGED pvars

Remove(f) ==
    \/ type = "poll" /\ PollRemove(f) /\ UNCHANGED evars
    \/ type = "epoll" /\ EpollRemove(f) /\ UNCHANGED pvars

ChangeEventSet(f, set) ==
    \/ type = "poll" /\ PollChangeEventSet(f, set) /\ UNCHANGED evars
    \/ type = "epoll" /\ EpollChangeEventSet(f, set) /\ UNCHANGED pvars

WaitForNextEvent ==
    \/ type = "poll" /\ PollWait /\ UNCHANGED evars
    \/ type = "epoll" /\ EpollWait /\ UNCHANGED pvars

Next ==
    \/ \E f \in Fds : Readiness(f) /\ UNCHANGED <<ret, pvars, evars, type>>
    \/ /\ UNCHANGED <<ready, type>>
       /\ \/ Initialize
          \/ Close
          \/ WaitForNextEvent
          \/ \E f \in Fds :
                \/ Remove(f)
                \/ \E set \in Interests : Add(f, set) \/ ChangeEventSet(f, set)

Spec == Init /\ [][Next]_vars

(* The thread returns to its wait after every event, and no signal         *)
(* interrupts every one of its waits.                                      *)
WaitCompletes ==
    /\ WaitForNextEvent /\ UNCHANGED <<ready, type>>
    /\ ret'.hr # "E_ERRNO"

FairSpec == Spec /\ WF_vars(WaitCompletes)

(* -------- properties ---------------------------------------------------- *)

(* The hash table finds every entry of the vector and nothing else, also   *)
(* after Remove has moved the last entry into a gap: otherwise Remove and  *)
(* ChangeEventSet work on the entry of another socket.                     *)
SlotsIndexed ==
    fInitialized =>
       /\ \A f \in Fds : hashtable[f] # NoSlot =>
             hashtable[f] \in DOMAIN fds /\ fds[hashtable[f]].fd = f
       /\ \A s \in DOMAIN fds : hashtable[fds[s].fd] = s

(* _unreadcount is never less than the number of entries with an unread    *)
(* event, whatever Remove took away: at zero FindNextEvent does not look,  *)
(* and the next poll would overwrite an event nobody has seen.             *)
UnreadCounted == Cardinality(UnreadSlots(fds)) =< unreadcount

OnlySlot(f) == CHOOSE s \in WatchedSlots(f) : TRUE

(* What the caller has a right to know of: whether the object works, the   *)
(* interest in every descriptor, and the events fetched but not reported.  *)
Works == IF type = "poll" THEN fInitialized ELSE epollfd

WatchedByPoll ==
    [f \in Fds |-> IF WatchedSlots(f) = {} THEN NotWatched ELSE fds[OnlySlot(f)].events]

WatchedFor == IF type = "poll" THEN WatchedByPoll ELSE interest

OwedByPoll ==
    [f \in Fds |-> IF WatchedSlots(f) = {} THEN {} ELSE fds[OnlySlot(f)].revents]

OwedByEpoll == [f \in Fds |-> UNION {e.flags : e \in {x \in events : x.fd = f}}]

Owed == IF type = "poll" THEN OwedByPoll ELSE OwedByEpoll

Contract == INSTANCE PollingContract
                WITH working <- Works, watched <- WatchedFor, owed <- Owed

(* Both implementations keep the contract of the interface: every fetched  *)
(* event is reported once, as it was fetched, before the next is fetched,  *)
(* and calls act on the descriptor they name.  Only CEpoll reports events  *)
(* of a descriptor that was removed after they were fetched.               *)
ImplementsContract == Contract!CSpec

(* A descriptor that stays watched and ready is reported again and again,  *)
(* however the others come and go: the rotation and the buffer starve none. *)
CanReport(f) ==
    /\ Watched(f)
    /\ IF type = "poll"
       THEN ready[f] \cap (fds[OnlySlot(f)].events \cup AlwaysReported) # {}
       ELSE ready[f] \cap (interest[f] \cup AlwaysReported) # {}

ReadyIsReported ==
    \A f \in Fds : (<>[]CanReport(f)) => []<>(ret.fd = f)
=============================================================================
