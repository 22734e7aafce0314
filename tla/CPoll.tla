------------------------------- MODULE CPoll -------------------------------
(***************************************************************************)
(* CPoll (networkutils/polling.cpp), the implementation of IPolling over   *)
(* poll(2).  A vector of entries is handed to poll, which marks those with *)
(* an event; a hash table finds the slot of a descriptor.  An event stays  *)
(* in its entry until FindNextEvent, which starts its search one slot      *)
(* further each time, comes across it.  Slots are numbered from 1 here.    *)
(***************************************************************************)
EXTENDS PollBase

VARIABLES
    fds,            \* _fds
    hashtable,      \* _hashtable: the slot of every descriptor, or NoSlot
    rotation,       \* _rotation
    unreadcount,    \* _unreadcount
    fInitialized    \* _fInitialized

pvars == <<fds, hashtable, rotation, unreadcount, fInitialized>>

NoSlot == 0
Empty  == [f \in Fds |-> NoSlot]

Entry(f, interest) == [fd |-> f, events |-> interest, revents |-> {}]

PollInit ==
    /\ fds = <<>>
    /\ hashtable = Empty
    /\ rotation = 0
    /\ unreadcount = 0
    /\ fInitialized = FALSE

PollInitialize ==
    /\ rotation' = 0
    /\ unreadcount' = 0
    /\ hashtable' = Empty
    /\ fInitialized' = TRUE
    /\ ret' = Result("S_OK")
    /\ UNCHANGED fds

PollClose ==
    /\ fds' = <<>>
    /\ fInitialized' = FALSE
    /\ ret' = Result("S_OK")
    /\ UNCHANGED <<hashtable, rotation, unreadcount>>

PollRefuse(hr) == ret' = Result(hr) /\ UNCHANGED pvars

(* Insert finds room: callers stay within the MaxSockets they announced.   *)
PollAdd(f, interest) ==
    \/ ~fInitialized /\ PollRefuse("E_FAIL")
    \/ fInitialized /\ hashtable[f] # NoSlot /\ PollRefuse("E_UNEXPECTED")
    \/ /\ fInitialized /\ hashtable[f] = NoSlot
       /\ fds' = Append(fds, Entry(f, interest))
       /\ hashtable' = [hashtable EXCEPT ![f] = Len(fds) + 1]
       /\ ret' = Result("S_OK")
       /\ UNCHANGED <<rotation, unreadcount, fInitialized>>

(* The checks both Remove and ChangeEventSet begin with.                   *)
Found(f) ==
    /\ fInitialized
    /\ fds # <<>>
    /\ hashtable[f] \in DOMAIN fds
    /\ fds[hashtable[f]].fd = f

IndexWithout_NotMoved(f) == [hashtable EXCEPT ![f] = NoSlot]

(* The last entry fills the gap, so its slot is corrected before f goes.   *)
IndexWithout(f) ==
    [hashtable EXCEPT ![fds[Len(fds)].fd] = hashtable[f], ![f] = NoSlot]

(* The entry leaves with its event; _unreadcount still counts it.          *)
PollRemove(f) ==
    \/ ~Found(f) /\ PollRefuse("E_FAIL")
    \/ /\ Found(f)
       /\ fds' = SubSeq([fds EXCEPT ![hashtable[f]] = fds[Len(fds)]], 1, Len(fds) - 1)
       /\ hashtable' = IndexWithout(f)
       /\ ret' = Result("S_OK")
       /\ UNCHANGED <<rotation, unreadcount, fInitialized>>

PollChangeEventSet(f, interest) ==
    \/ ~Found(f) /\ PollRefuse("E_FAIL")
    \/ /\ Found(f)
       /\ fds' = [fds EXCEPT ![hashtable[f]].events = interest]
       /\ ret' = Result("S_OK")
       /\ UNCHANGED <<hashtable, rotation, unreadcount, fInitialized>>

(* -------- WaitForNextEvent ---------------------------------------------- *)

(* Where the search starts: entries may have gone since the last one.      *)
Start == IF rotation >= Len(fds) THEN 0 ELSE rotation

Slot(i) == ((i + Start) % Len(fds)) + 1

Searched_AllButLast(list) == 0..(Len(list) - 2)

(* How far from Start the search goes: once around the list.               *)
Searched(list) == 0..(Len(list) - 1)

(* s is the first slot from Start on with an event: what the loop finds.   *)
IsNext(s, list) ==
    \E i \in Searched(list) :
       /\ s = Slot(i)
       /\ list[s].revents # {}
       /\ \A j \in 0..(i - 1) : list[Slot(j)].revents = {}

UnreadSlots(list) == {s \in DOMAIN list : list[s].revents # {}}

UnreadAfter_Reset(n) == 0

UnreadAfter(n) == n - 1

(* FindNextEvent in a list that has n unread events.                       *)
FindNextEvent(list, n) ==
    \E s \in UnreadSlots(list) :
       /\ IsNext(s, list)
       /\ ret' = Event(list[s].fd, list[s].revents)
       /\ fds' = [list EXCEPT ![s].revents = {}]
       /\ rotation' = Start + 1
       /\ unreadcount' = UnreadAfter(n)

HasUnread == unreadcount # 0 /\ UnreadSlots(fds) # {}

(* What a search that found nothing leaves behind: without an unread event *)
(* to look for it returned before it looked at the rotation.               *)
RotationAfterMiss == IF unreadcount = 0 THEN rotation ELSE Start

(* poll(2) writes the revents of every entry.                              *)
Polled ==
    [s \in DOMAIN fds |->
        [fds[s] EXCEPT !.revents =
            ready[fds[s].fd] \cap (fds[s].events \cup AlwaysReported)]]

(* A deadline passes, a signal interrupts: poll finds nothing or fails.    *)
PollFindsNothing ==
    \/ /\ UnreadSlots(Polled) = {}
       /\ fds' = Polled
       /\ ret' = Result("S_FALSE")
    \/ /\ ret' = Result("E_ERRNO")
       /\ UNCHANGED fds

PollWait ==
    \/ ~fInitialized /\ PollRefuse("E_FAIL")
    \/ fInitialized /\ fds = <<>> /\ PollRefuse("S_FALSE")
    \/ /\ fInitialized /\ fds # <<>> /\ HasUnread
       /\ FindNextEvent(fds, unreadcount)
       /\ UNCHANGED <<hashtable, fInitialized>>
    \/ /\ fInitialized /\ fds # <<>> /\ ~HasUnread
       /\ FindNextEvent(Polled, Cardinality(UnreadSlots(Polled)))
       /\ UNCHANGED <<hashtable, fInitialized>>
    \/ /\ fInitialized /\ fds # <<>> /\ ~HasUnread
       /\ PollFindsNothing
       /\ rotation' = RotationAfterMiss
       /\ unreadcount' = 0
       /\ UNCHANGED <<hashtable, fInitialized>>
=============================================================================
