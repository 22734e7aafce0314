# TLA+ models of the STUN server and client

This directory models stunserver from its options to its exit: the server
program, the UDP server with its threads, the TCP server thread, the two polling
implementations, the tables and the rate limiter the threads share, the message
builder and reader, the request handler, and the client that classifies the NAT
it is behind.  Every definition is translated from the source;
`PROJECT.json` maps each one to its file and lines, lists the runs, the mutant
that each property is known to catch, the hazards and the theorems.

    tlc -workers 2 -config TcpThreadLists.cfg MCTcpThread    # any run
    tlapm TcpThreadProofs.tla                                # any module of proofs

## 1. The system

The server (`server/main.cpp`) reads its configuration and creates, for each of
IPv4 and IPv6, a UDP server (`CStunServer`) or a TCP server (`CTCPServer`).  A
server has up to four sockets, one per *role*: primary or alternate address
crossed with primary or alternate port.  Its threads receive requests, ask the
shared rate limiter, parse the message (`CStunMessageReader`), let
`CStunRequestHandler` compute the response and the socket it leaves from, and
send it.  The client (`client/clientmain.cpp`) drives `CStunClientLogic`, which
runs a list of tests, each a request with retries, and derives from the answers
how the NAT maps and filters.

| Component | State | Operations | Interacts with | What is hard |
|---|---|---|---|---|
| TCP server thread (`CTCPStunThread`) | two hash tables of connections that swap roles, listening sockets on or off epoll, exit flag, pipe | Init, Start, Stop, Run; accept, receive, send, close, sweep | connection pool, polling, rate limiter, request handler; the main thread through flag and pipe | events that outlive their socket, descriptors reused, error paths after each of several steps, the connection limit, stopping |
| Connection pool (`CConnectionPool`) | free list | Get, Release, Reset, Grow | used by the TCP thread | objects lost on error paths |
| TCP server object (`CTCPServer`) | up to four threads | Initialize, Start, Stop | TCP threads | partial failure while starting |
| Server program (`main.cpp`) | configurations, list of servers | BuildServerConfigurationFromArgs, StartUDP, StartTCP, WaitForAppExitSignal, stop | both kinds of server, adapters | a failure after some servers have started |
| Polling (`CEpoll`, `CPoll`) | watched descriptors, undelivered events, slot table, rotation, count of unread events | Add, Remove, ChangeEventSet, WaitForNextEvent | kernel | undelivered events of removed descriptors; a removal moves another entry |
| UDP server and threads (`CStunServer`, `CStunSocketThread`) | four sockets, threads, exit flags, the sender kept from pass to pass | Initialize, Start, Stop, Run | rate limiter, request handler | shared sockets, waking threads by datagrams, failed and empty receives |
| FastHash | nodes, free list, chains, circular index | Insert, Find, Remove, LookupByIndex, Reset | everything that keeps a table | the index is valid only sometimes |
| Rate limiter (`RateLimiter`) | table of trackers, mutex | RateCheck | all threads of a server | raw pointer into a shared table, clock steps, table full |
| Request handler (`CStunRequestHandler`) | none | ProcessRequest | reader, builder, authentication provider | which socket answers, which addresses may be announced |
| Authentication (`IStunAuth`) | provider's own | DoAuthCheck | request handler | five kinds of answer |
| Reader, builder, data stream, buffer | one message | AddBytes, attribute getters, Add... | handler, client | sizes, padding, partial input |
| Client logic (`CStunClientLogic`, `CBasicBindingTest`, `CBehaviorTest`, `CFilteringTest`) | test list, current test, attempts, results | GetNextMessage, ProcessResponse | client program | late and duplicate replies, retries, wrap of the counter, order of the tests |
| Client program | socket | UdpClientLoop, TcpClientLoop | client logic | select against late datagrams |
| Helpers (addresses, sockets, adapters, command line, strings, logging, reference counts) | none or one object | | | |

What makes each of them correct:

* **TCP thread, pool, epoll.** Tables, objects, sockets and epoll agree after
  every step; nothing leaks on any path; a stale event never reaches a closed
  connection; a silent client cannot hold a connection for ever; the sweep
  spares young connections; the connection limit holds as far as it can; Stop
  returns.
* **Polling.** Every fetched event is reported once, before new ones are fetched;
  calls act on the descriptor they name; no ready descriptor is starved.
* **Server program, UDP server.** The program waits for its exit signal only when
  everything it was asked for is being served; a running thread has open sockets,
  whatever failed; every stop ends and leaves nothing; a busy socket does not keep
  a thread from the others; an answer goes to, and is charged to, its asker.
* **Reader, builder.** What is written is read back, however it is cut; what
  validates is covered by its attributes; nothing beyond the message is read;
  integrity and fingerprint hold exactly when they should.
* **FastHash.** It is a bounded map in which an insertion shadows an older entry
  of the key; enumeration by position is exact.
* **Rate limiter.** No thread works on a record that is no longer its own; a
  slow sender is never refused; a penalty is served; the rate is bounded.
* **Request handler.** The response leaves from a socket that exists; every
  address in it is true; an announced other address can be honoured later;
  nothing unauthorised is served.
* **Client.** It ends, and what it reports is true of the NAT.

## 2. The modules

| Module | What it is |
|---|---|
| `TcpThread` | one TCP thread with its pool and epoll; `TcpThreadProofs` proves about it |
| `FastHash`, `Multimap` | the hash table, and the abstract table it implements; `FastHashProofs` |
| `RateLimiter`, `RateHistory` | the limiter; the same with a history of requests and verdicts; `RateLimiterProofs` |
| `PollingContract` | what `IPolling` promises its caller |
| `PollBase`, `CPoll`, `CEpoll`, `Polling` | what both implementations share; each of them; a caller that makes any legal sequence of calls to one of them; `PollingProofs` |
| `DataStream`, `StunBuilder`, `StunReader` | the stream, the builder and the reader as operators on records |
| `StunMessage` | a message that is built, sent, perhaps altered, and read whole or in pieces; `StunMessageProofs` |
| `RequestHandler`, `RequestServer` | `ProcessRequest` as operators; a server that receives any message on any socket; `RequestServerProofs` |
| `ServerConfig` | from the options of a server to its configuration, and its adapters |
| `UdpServer` | the operations of `CStunServer` and the pass of `CStunSocketThread` |
| `StunServer` | the server program over `ServerConfig` and `UdpServer`, with the threads of one TCP server; `StunServerProofs` |
| `NatDiscovery` | the client, a NAT, the network and a server that answers with `RequestHandler`; `NatDiscoveryProofs` |
| `MC...` | model values, adapters, command lines, socket sets and symmetry for TLC |

Definitions whose name has an underscore and a suffix (`SocketOther_OfOutput`)
are mutants: the definition without the suffix changed the way a plausible bug
would change it.  No specification uses them; they document what each property
is able to notice.

### TcpThread

Three actors.  The main thread (`mpc`) runs Init, Start and Stop, the latter in
the three steps another thread can observe: the flag, the write to the pipe, the
join with Reset.  The server thread (`pc`) takes one action per system call of
its loop: the top of a pass, with the listening sockets switched on or off; the
wait; an accept; a receive; a send; a sweep; and the cleanup when it leaves.
The environment queues connections, sends, reads, shuts and resets them, and
lets time pass.  An action contains everything the code does up to the next
system call, error paths included: a failed accept closes the socket, gives back
the object and undoes the registration exactly as far as the code does.

Abstractions: bytes are counted, not represented; what the reader finds in a
complete header or body is a choice (bad header, bad body, a request the handler
refuses).  The free list is a set.  `time(NULL) - _timeLastSweep` and the ages
saturate at the sweep timeout, beyond which nothing tells them apart.  The table
of `FastHash` appears as the function it is shown to implement.  `_fNeedToExit`
is written and read atomically: the code has a plain bool, and compilers keep
the access because of the calls in the loop.  The build is the release build, in
which `ASSERT` does nothing and `ChkIfA` only returns; what a debug build asserts
is stated as properties.  Failures inside Init, and `EINTR` from `epoll_wait`,
are left out.

### Polling

`CPoll` keeps a vector of entries, each with the event `poll` left in it, a hash
table from descriptors to slots, the rotation and the count of unread events.
`CEpoll` keeps the buffer of fetched events as a set, since the system orders it.
`Polling` holds one object of either type and makes any call the interface
allows: it never opens an open object, and never watches more than the
`MaxSockets` it announced (`HasRoom`).  The readiness of a descriptor is the
system's choice and changes at any time.  `ImplementsContract` maps both to
`PollingContract`, which differs for them in one point only: what becomes of an
event fetched for a descriptor that is removed before it is reported.  `TcpThread`
relies on exactly that point.  The edge-trigger flag, which no caller sets, is left
out.

### DataStream, StunBuilder, StunReader, StunMessage

A message is a sequence of 16-bit words; the sizes are the code's, in bytes.
The builder has every Add method, with its padding and the two formats; a
fingerprint or integrity value is a checksum that is distinct for distinct bytes
and keys.  The reader has `AddBytes` with its two stages, the loop of
`ReadBody` as one pass per attribute (`ReadAttribute`, which changes nothing once the
loop has ended), the index of attributes, every getter with its fallbacks, and the check of the two seals with
the length adjustment.  `StunMessage` builds a message out of up to `MaxAdded`
attributes, sends what is in the attached buffer (as the handler does: a stream
that outgrew it would be cut), lets the network change a word, the end or the
length, and delivers the result as a datagram or in the pieces
`CTCPStunThread` receives.  Random ids, digest functions and odd byte counts are
left out, and so is the byte order of unknown attribute types: the caller's words are
written as they are in memory (stunbuilder.cpp:296), and a word of the model is the
pair of bytes that arrives.

### ServerConfig, UdpServer, StunServer

`ServerConfig` is `BuildServerConfigurationFromArgs` in its order of checks: the
words, the numbers, the ports, the interfaces with `adapters.cpp`, the advertised
addresses.  `UdpServer` has the steps another thread can observe: for the main
thread initialise, start one thread, set one flag, post the wake-ups of one
thread, join one thread, close; for a thread the test of its flag, `select` with
the rotation, `recvfromex` with the question to the limiter, and the answer.
`StunServer` puts them in the order of the code, with every failure: options that
are refused, a socket that cannot be bound, a thread that cannot be created, after
any number of servers that run already.  Datagrams come from clients, may be empty
or have a wrong checksum.  A wrong checksum is found out late: either `select` drops
such datagrams at the head of a queue before it reports the socket (`Selectable`,
Linux does so for blocking sockets) or `recvmsg` does, which then goes on to the next,
waits for it or, with `MSG_DONTWAIT`, fails.  Wake-ups are queued among the
datagrams, and are lost if the buffer of the socket is full.
Of the TCP server only the life of its threads is kept (stopping one is a step:
`TcpThread` shows that it ends).  What a thread keeps between passes is reset when
Run returns (`EndOfRun`), as nobody reads it after.  Restarting a stopped server,
which no caller does, is left out.  A list has at most one UDP and one TCP server.

### FastHash and Multimap

The linked lists are sequences of node numbers.  A free node keeps the item it
held and `_indexlist` what was last written to it, so that reading a stale entry
is visible.  `Multimap` has no nodes: a sequence of values per key, newest
first, a total size and the return value of the last call.  `ImplementsMultimap`
instantiates it with the entries the chains hold.

### RateLimiter and RateHistory

`RateCheck` in three steps (take the mutex; read the clock and look up; update
and return), because the raw pointer obtained by the lookup is used by the
update: that is what the mutex is for.  Every branch of `RateCheckImpl` is kept.
`RateHistory` adds history variables (who asked when, who is under penalty, what
was let through) that no step reads.

### RequestHandler and RequestServer

`RequestHandler` is `ProcessRequest` as operators on records: the attributes that
matter are fields, a response is the record of what it carries and where it
goes.  `RequestServer` chooses a socket configuration, whether the sockets know their
own addresses (bound to INADDR_ANY they do not) and what is advertised for either
interface: nothing, its own address, or one of another host, the same for both if it
likes (`AddSocket`).  It then receives any message on any of its sockets, with a
provider that may answer anything.  It remembers the other addresses announced
so far, which is what `OtherAddressIsHonoured` needs.  Encoding, the legacy
format and the text of realm and nonce are left out.

### NatDiscovery

The client's `GetNextMessage` with the pre-run check, the retries and the two
timeouts, the response handling of all tests, and `UdpClientLoop` around it.
The network is a set that only grows, from which anything may be delivered at any
time, again, or never; this covers loss, duplication, delay and reordering.
Transaction ids are distinct, as 96 random bits are: a test's is its place in the
list.  The millisecond
counter wraps.  An attempt lasts several waits: `UdpClientLoop` computes its wait from
the timeout of the caller's configuration and half a second (clientmain.cpp:536), and
stunclient leaves that timeout zero, which only the logic's own copy replaces by three
seconds (stunclientlogic.cpp:91), so `select` returns up to six times
(`KeepWaiting`) before the next attempt.  `Timeout` and `WaitLimit` are
independent constants.  The history variable `timely` tells the behaviours in which no
test was given up while its answer could still come, for `VerdictIsComplete`.  The
server announces the addresses it has, if any: with an advertised address that is not
its own the tests may be wrong, as the manual says (stunserver.md:182).  The NAT is not in the repository: it has a mapping and a
filtering behaviour of RFC 4787, and lets a datagram in according to where the
client has sent before.

## 3. The runs

| Run | Shows |
|---|---|
| `tcp_connection` | one connection, every split of header, body and response over recv and send, resets, shutdowns, failing `epoll_ctl` and `fcntl`: `NoLeak`, `InterestMatchesState`, `ProgressFitsState` |
| `tcp_lists` | two listening sockets and a limit of one connection, two connections whose descriptors are reused, any number of sweeps, stops and restarts: `TablesConsistent`, `SubjectIsLive`, `CleanShutdown`, `SoftConnectionLimit`, `SweepSparesYoung` |
| `tcp_live` | every connection ends, Stop returns, queued clients are served: `ConnectionsEnd`, `StopCompletes`, `BacklogServed` |
| `polling` | three descriptors, both implementations: `SlotsIndexed`, `UnreadCounted`, `ReadyIsReported`, and the refinement `ImplementsContract` |
| `stun_server` | fifteen command lines and files, two multi-threaded configurations, every failure of a step, requests, empty datagrams and bad checksums racing the stop: `SocketsOutliveThreads`, `WaitingMeansServing`, `AnswerIsPaid`, `StopCompletes`, `RotationServesAll` |
| `stun_message` | every message of up to three attributes of twelve kinds, both formats, intact or altered, whole or in pieces: `RoundTrip`, `AttributesCoverMessage`, `NeededStaysInMessage`, `SealsHold`, `OnlySealsHold` |
| `hash_table` | three keys of which two collide: `NodesAccounted`, `EnumerationIsExact`, and the refinement `ImplementsMultimap`, return values included |
| `rate_shared` | two threads and two addresses compete for one record, the clock may be set back: `PointerIsCurrent`, `PoliteIsNeverRefused`, `PenaltyIsServed` |
| `rate_window` | one address, every placing of its requests: `LessThanTwiceTheRate` |
| `request_server` | every message on every socket, whatever addresses are known and advertised: `OtherAddressIsHonoured`, `AddressesAreTrue`, `OnlyAuthorizedIsServed` |
| `nat_discovery` | twelve NATs, three servers, four test lists, a lossy network: `VerdictIsSound`, `VerdictStands`, `VerdictIsComplete` when no test was given up while its answer could still come, `ClientEnds` over several waits per attempt and across the wrap of the counter |

One run, `tcp_insert`, ends in a violation, where an assertion says more than the
code does: the listening sockets are switched off at the top of a pass, but listen
events fetched before the limit was reached are still served.  Such an accept can
find the table full, which `ChkIfA(insertresult == -1)` asserts cannot happen, and
the number of connections can exceed `--maxconn`, by at most the number of
listening sockets minus one (`SoftConnectionLimit`).

The models also follow the code where it differs from what one would expect
without contradicting a property:

* The sweep closes connections by age (`SweepSparesYoung`), although the comment
  at tcpserver.cpp:422 speaks of connections not heard from.
* A penalty follows an average over the life of a record, not any two minutes as
  the comment at ratelimiter.h:64 says: a record older than the interval is
  forgotten, and up to less than twice the rate passes around that moment
  (`LessThanTwiceTheRate`).
* The two ports are compared in basic mode too (main.cpp:381), which uses only
  one: `--primaryport 3479` alone is refused, although the manual says that
  `--altport` is ignored there.
* `--maxconn 100000` passes the options (main.cpp:346) and fails in
  `CTCPStunThread::Init` (tcpserver.cpp:245).
* In basic mode an advertised alternate address is reported as an error and
  accepted (main.cpp:496-500).  An address may be advertised for both interfaces,
  and so may an address that is the other interface's own: the check for
  duplicates (main.cpp:455) only compares the interfaces.  `ConfigIsSound` asks for
  four addresses wherever nothing is advertised twice (`AdvertisedTwice`).
* A failed or empty receive asks the rate limiter about the sender before it
  (stunsocketthread.cpp:344): somebody is charged for nothing, but nobody is
  answered unpaid (`AnswerIsPaid`).
* `CStunServer::Stop` posts "to get the threads unblocked from whatever socket call
  they are on" (server.cpp:265), but `SignalForStop` does not look at whether its
  `sendto` (stunsocketthread.cpp:189) found room.  A receive buffer full of datagrams
  with a wrong checksum has none, and holds nothing that `recvmsg` returns: the thread
  drops them and waits for some later datagram of a client, and the join for the
  thread.  `StopCompletes` says that there is no other way not to end: it excepts a
  thread whose wake-up is due while it waits for such buffers only (`NoRoomToWake`),
  and nothing else the sockets may have queued.  Without the exception TLC finds the
  stop that never ends.
* `CPoll::Remove` leaves `_unreadcount` as it is: it can be too large
  (the debug build asserts otherwise at polling.cpp:456), never too small.
* `CEpoll::Initialize` returns success when `epoll_create` failed; the calls that
  follow fail.

### Bounds

* **TcpThread.** `tcp_connection` has a header of two units and a body of none or
  one, so that each can be cut; one connection suffices, since the byte counters
  and reader states of two never meet.  What two connections share (tables, free
  list, descriptors, buffered events) is `tcp_lists`, where responses never leave
  (`MaxRoom = 0`): completing one is `tcp_connection`'s business.  A timeout of one tick still
  tells accepted before the last sweep from accepted since.  The theorems remove
  all these bounds for the properties they cover.
* **Polling.** Three descriptors are the fewest with a first, a middle and a last
  entry, a gap that is filled from the end and a rotation that skips.  One flag is
  enough: flags are copied together.
* **StunServer.** Receive buffers of two datagrams, two datagrams of clients in
  flight (`MaxInFlight`), one client: a wake-up finds a buffer empty, half full or
  full, of any mixture of datagrams that can be received and that cannot.  The
  command lines take every branch of `Accepts`.
* **StunMessage.** Three attributes make every pair of seals with something before
  them, and a full table (`MAX_NUM_ATTRIBUTES` is 3 here); a message limit of 80
  bytes is reached and crossed.
* **FastHash.** Three nodes are the smallest table with a first, a middle and a
  last entry; two chains and colliding keys give chains of every length and a
  circular index that wraps.
* **RateLimiter.** `MaxTime` covers a penalty and the parole after it; one record
  for two addresses makes every change of address dump the table, also between
  another thread's lookup and update if the lock allowed it.
  `rate_window` keeps the ratio of the code, in which `MinCount` is half of what
  the rate allows in one interval: the bound checked there depends on it.
  `MaxCount` ends counting in one record.  The clock's bound ends the behaviours,
  so deadlock is not checked there.
* **RequestServer.** No bound: attributes, socket sets and provider answers are
  finite as they are.  Nothing, the address of the alternate interface and one of a
  third host may be advertised for either interface, which makes every coincidence.
* **NatDiscovery.** Two attempts of six ticks and a `select` of two: three waits an
  attempt when nothing comes, and more when packets end some of them early (the
  shipped client has six).  A reply can come in the first wait or a later one, be late
  for its attempt, for its test, or for several tests.  `ClockMod` is the smallest the
  assumption allows, so that the counter wraps during the attempts.  The client
  ends, so deadlock is not checked.

### Fairness

The TCP thread is scheduled and its system calls return (weak fairness of
`ThreadNext`), time passes, and a Stop that has begun goes on: these are the
promises of the operating system's scheduler.  Nothing is assumed of clients, nor
that anybody calls Stop.  In `StunServer` the main thread and every socket thread
are scheduled (weak fairness of each); a thread that waits in `select` or
`recvmsg` is not enabled until a datagram comes, and no datagram or signal is
promised.  In `Polling` the caller returns to its wait, and not every wait is
interrupted by a signal (weak fairness of `WaitCompletes`).  The NAT client's steps are weakly fair as well; strong
fairness of a clock tick during its waits says that datagrams cannot arrive so
fast that time stands still.

## 4. The proofs

`TcpThreadProofs` proves, for every set of listeners, descriptors and connection
objects, every limit, size and timeout allowed by `TcpAssumption`:
`TypeCorrect`, `TablesTheorem`, `NoLeakTheorem`, `InterestTheorem`,
`ProgressTheorem`, `SubjectTheorem`, `ShutdownTheorem`, `SweepTheorem` and
`LimitTheorem`.

None of the invariants but the type is inductive alone.  Closing a connection
keeps the tables consistent only if nothing else has its socket, which is
`NoLeak`'s business; a receive keeps `InterestMatchesState` only if its subject is
tracked and in the right state; that subject is live only if events are matched
with the tables.  So the argument runs over

    IInv == TypeOK /\ Data /\ SubjectIsLive /\ CleanShutdown

where `Data` joins `TablesConsistent`, `NoLeak`, `InterestMatchesState` and
`ProgressFitsState`.  The lemmas `CloseKeepsData`, `UpdateKeepsData` and
`AcceptKeepsData` say what the three kinds of change do to `Data`; `InvThread` has
one step per action of the thread and applies them.  The action property
`SweepSparesYoung` needs one fact more, `OldListAge`: every connection of the old
list is at least as old as the last sweep is long ago.  `SoftConnectionLimit`
counts, so its invariant `LimitInv` says that the tables are finite, that the
listening sockets are on epoll exactly when `_fListenSocketsOnEpoll` says so, and
that a thread that waits with them on epoll has room for one connection more: what
one wait can fetch is at most one event of each, and every accept uses one up.

The assumptions are those of `TcpAssumption`: descriptors, objects, listener
roles and the two distinguished values are told apart, and sizes and limits are
positive.  TLC evaluates them in every run of `MCTcpThread`.

`RateLimiterProofs` proves `TypeCorrect`, `PointerTheorem`, `PenaltyTheorem`,
`PoliteTheorem` and `RateTheorem` for any number of threads, addresses and nodes, and
all but the last for a clock that may be set back.
Everything rests on `OthersIdle`: at most one thread is inside `RateCheck`,
because it holds the mutex, or because a limiter without a mutex has a single
thread (this uses that `Threads` is finite).  To it the invariant adds
`Unique`, that no address has two records, without which a lookup would not
determine its node, and `RoomToCount`, the bound on the counters.
`UpdateOutcome` lists what `RateCheckImpl` can do with a record; the penalty then
follows from `HInv`, that the history agrees with the penalties in the table.
A polite address has a record that spans `Gap` seconds for every request in it but
the first, and was never sent to the penalty box (`PoliteRecord`).  How long a gap
is polite enough is `GapAssumption`: `MinCount` requests that far apart are slower
than the rate; `PoliteCount` shows that more requests then are, too.

`RateTheorem` is that `LessThanTwiceTheRate` holds while the clock is not set back.  The
log of an address is all that was let through since the table was last dumped.  Its
present record either is too young to be judged, or has let through requests at less than
the rate since its first, or is in the penalty box (`Young`, `LetOut`, `Boxed`); what was
let through in the interval before that first request was little, too.  A record can only have been
followed by another after `ResetInterval`, so an interval touches two records at most,
and what each lets through in it is less than the rate (`Fits`, `FewCounted`).
`IntervalAssumption` says that `MIN_COUNT` - 1 requests in `ResetInterval` are slower than
the rate and that no penalty is shorter; the code has 59 in 120 seconds, against 60 per
minute, and 3600.

`PollingProofs` proves `SlotsTheorem` and `UnreadTheorem` for any number of
descriptors.  The invariant adds that a closed object has an empty vector, on
which `Initialize` relies.  `GapFilled` describes Remove: the two entries that
change, with the case that they are one; `EventTaken` says that `FindNextEvent`
takes one event from the vector and one from the count.  The assumptions are
`PollAssumption`, and `RateAssumption` and `NoneIsNoTracker` for the limiter.

It also proves `ContractTheorem`: a `Polling` of either type implements
`PollingContract`.  `PollSeen` and `OwedAs` say what the vector, or the buffer
and the interest list, mean for one descriptor; each operation of each class then
has one lemma that its step is the contract's step for that operation.  `CEpoll`
needs besides that its buffer has one event per descriptor and that an object
without an epoll descriptor watches nothing.

`StunServerProofs` proves `SocketsTheorem`, `PaidTheorem` and `ServingTheorem` for
any options, adapters, clients and buffer sizes, and a failure at any step.  That a thread
that runs has open sockets needs four facts about the main thread: while it starts
threads, their sockets are open (`Starting`); while it joins them, those before
the current one have ended (`Joining`); a thread that runs is valid and counted,
so that the joins reach it (`RunningIsValid`); and wherever the main thread has no
UDP server, none runs (`Quiet`).  The last would fail if a second UDP server were
started over the first: `OnlyOnce`, with `ServerAssumption` that a list of options
is a sequence with at most one UDP server, as everywhere in this model.  For `AnswerIsPaid` the
exit flag does not matter, and `RunPays` finds that only `Receive` leaves
something to be answered.

`WaitingMeansServing` is about the way there: while servers are
being started nothing has failed and no thread was told to exit (`Healthy`), every
server before the current one has started (`Started`), each open socket belongs to
a thread that has started or is about to (`Covered`, `TcpInOrder`), and whatever
`BuildServerConfigurationFromArgs` accepts is sound (`Configured`), which goes
through its checks one by one.

`RequestServerProofs` proves `HonouredTheorem`, `TruthTheorem` and `AuthorizedTheorem`
for any configurations of sockets and any advertised addresses.  The invariant says
that the responses are those `ProcessRequest` gives to the message (`Answered`), that
an address in the table is the public one of its socket or none (`Configured`), and that
only a server with four sockets has ever announced another address
(`PromiseIsFounded`).  A socket whose entry is no address has none advertised, so that
the address the packet came in on is its public one (`UnknownIsReal`); the rest is about the exclusive-ors of `socketrole.h`, of which
`OppositeDiffers` is the one the client depends on.

`FastHashProofs` proves, for any number of nodes and chains and any hash,
`NodesTheorem`, `EnumerationTheorem` and `MultimapTheorem`.  The invariant of the
first: no node is twice in a chain, in two chains, or in a chain and in the free
list, every node is somewhere, and every key is in its own chain; `LinkNode` and
`UnlinkNode` do for it what Insert and Remove do.  `IndexInv` adds that as long as
the circular index is valid, its `_size` entries name the live nodes.  For the
refinement a chain has to be read as the sequences of values of its keys:
`CutNode` says what one node less does to them, and `Counted` that their lengths add
up to `_size`.  What `FlattenSeq` joins, and in which order, is shown by counting up
over the pieces: `CountUp` is induction stated about a set of numbers, which, unlike
the library's, needs no operator as a parameter.

`NatDiscoveryProofs` proves `SoundTheorem`, `StandsTheorem` and `CompleteTheorem` for
any server, number of attempts, timeout, length of `select` and counter width.  Everything in the network goes back to a
request of a test that has started (`Traffic`), and a transaction id belongs to one
test (`Ids`), so a late reply counts for nothing else.  The filter is measured
before the tests that send to the alternate address, so that until then `permits`
holds only what the primary socket was sent (`FilterHolds`).  `Learned` says that
what the client believes of addresses and mappings is so, and `PreChecked` that the
behaviour test is not run behind no NAT at all.

`CompleteTheorem` needs a second invariant, `CInv`.  `GetsThrough` names the tests
whose answer the filter lets in; `AnswerIsComing` shows that for such a test one is
always on its way, or could be, once the request is sent (`Sent`, `Permitted`).  So a
test that is given up although no answer could come is one whose answer the filter
stops (`GivenUpIsFiltered`), and being given up tells what there is to tell.  `Told`
says what each test that is past has therefore found out, `Known` the converse, that
only a full server could have told it; at the end of the list both together are
`VerdictIsComplete`.

`StunMessageProofs` proves `CoverTheorem`, `NeededTheorem`, `RoundTripTheorem` and
`SealsTheorem` for
any addresses, values, keys, transaction ids and limits, any sequence of Add methods in
both formats, and any division of the message into pieces.  A builder's stream is sound
(`Sound`: whole words, written at its end, attached exactly while it fits the caller's
buffer) and a method adds one run of words to it and changes nothing before but the
length in the header (`Grown`); by kind of attribute this run is a type, a size, the
value and its padding (`Carries`, `CarriesAddition`).  So the message is laid out:
attribute after attribute, at places that add up (`LaidOut`, `Layout`).

`CoverTheorem` does not ask where the bytes come from.  `ReadBody` is a sequence of
passes (`IsPasses`), and a pass that succeeds adds one entry that begins where the one
before ended, and moves the stream to its end (`Taken`, `UpTo`); a pass that finds the end of the
stream is the last.  Hence `MessageInv`, which says that the builder is sound and laid
out (`BuildInv`), that an unaltered wire is what was built with the right length in it
(`WireInv`), and that what the reader validated is covered (`Covered`).

The others need to know what the reader holds in the middle of a message, which
is `KeptInv`: what was delivered so far is a beginning of the message, the header is
read when and only when it is all there, the body at the last byte (`Kept`).  A pass over the bytes
of a message finds what the builder wrote (`PassTakes`), so a validated reader lists
what was added, in its order (`Listed`).  Each getter then looks up the newest entry of its type,
which is the newest of its kind (`Found`; for the two
with a fallback, that the other format's type is not there), and undoes what the
method did with the value: one lemma for each (`AddressFound`, `RealmFound`, ...).

A seal is not a value that was given but one computed from the message, so the layout
also says what it holds (`SealAt`): the checksum of all that stands before it, with
the length the message has when it ends with this very seal (`Signed`).  A later
attribute changes none of these words but the length in the header, which `Signed`
replaces, so the seal stays (`SealStays`).  `IntegrityRead` shows that the length
`ValidateMessageIntegrity` puts back is that one, whether the attribute is the last
or a fingerprint follows; `FingerprintRead` that a last fingerprint signs the length
in the header itself.  That nothing else validates is another matter: two messages
may well have one checksum.

The assumptions: an address has the words of its family and combining it with
a transaction id twice gives it back (`AddressAssumption`; `XorWord` is a constant);
error codes have three digits from 300 to 600, strings have no zero and
fit, with their end, an attribute and the 65 bytes a caller of
`GetStringAttributeByType` has for them; lists of types fit an attribute (`ValueAssumption`); sizes are numbers (`ReaderAssumption`).  TLC evaluates them in
`stun_message`, with the exclusive or of 16 bits for `XorWord`.

Only model-checked:

* liveness (`ConnectionsEnd`, `StopCompletes`, `BacklogServed`, `ReadyIsReported`,
  `RotationServesAll`, `ClientEnds`): the prover does not reason about fairness;
* `OnlySealsHold`: it holds for a digest without collisions, so for the messages of
  the instance, and not for `Checksum` in general, whose values are bounded;
* that `InsertFindsRoom` is violated, which one behaviour shows.

## 5. Not modelled

* Socket wrappers, `recvfromex`, host names: single system calls, whose outcomes
  are choices of the environment.  (`UdpServer` has the one thing that matters of
  `recvfromex`: when it leaves the sender's address alone.)
* Logging, command line and configuration file syntax, console width, string
  helpers: text, no protocol state.
* CRC and digest functions: arithmetic on bytes; the models use an operator that
  tells different inputs apart.
* Sample authentication providers: examples; the provider of the model may
  answer anything.
* The reference count of the authentication provider: the program passes none.
* The TCP loop of the client program, and its output.
* Several servers of the same kind in one configuration file.

## 6. Plan

1. `OnlySealsHold` over a digest that is a constant, injective by assumption, and its
   theorem.
2. `TcpServer`: `CTCPServer` over an abstraction of `TcpThread` that `TcpThread`
   is shown to implement, in place of the single step it stops in.
3. The TCP client loop.
