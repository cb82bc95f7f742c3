# Cpp.MiniSocket in TLA+

Formal models of Cpp.MiniSocket: the socket library (`src/`, `include/`), its
samples (`samples/`) and the plain C programs the library is compared with
(`benchmark/linux`, `benchmark/windows`). The models are checked with TLC on
small instances; every invariant, action property and refinement that the passing
runs check is also proved with TLAPS, for all values of the constants, and
liveness is left to TLC. Every definition is
translated from the source; `PROJECT.json` maps it to the lines it stands for.
What only puts actions together (`Next`, `Process`, `Main`, ...) stands for the
control between those lines and has few lines of its own.

## 1. Inventory

### The library

| Part | State | Operations | Interaction |
|---|---|---|---|
| `Socket`, `CommunicatingSocket`, `TCPSocket`, `TCPServerSocket`, `UDPSocket`, `UDPClientSocket` | `sockDesc_` of each object; the descriptor table of the process | constructors, `open`, `close`, `bind`, `listen`, `accept`, `connect`, `disconnect`, `sendTo`, destructor | each is a sequence of system calls; objects share the descriptor table with each other and with the rest of the process |
| `SocketStreamBuffer` and the `iostream` of `TCPSocket::getStream()` | put and get area, error bits | `overflow`, `sync`, `underflow` | calls `sendAll()` and `recv()` of its socket, which the program may also call directly, or close and open again |
| `tcp_connect`, `udp_connect` | the address in hand, the last socket, `ec` | try the addresses one after the other | use `DNSResolver` and the socket classes |
| `SocketAddress`, `SocketAddressView` | a `sockaddr_storage` in which two formats overlap, and `addrLen_` beside it | `setAddressPort`, `getAddressPort`, construction from a `sockaddr` | given to and taken from the calls of the sockets |
| `DNSResolver` | the list `getaddrinfo()` has made, and its iterators | `query`, `begin`, `end` | the views it hands out point into the list |
| `SocketError`, exceptions | type and code | conversions | thrown or returned by everything above |
| Windows start-up holder | one shared counter | `WSAStartup`, `WSACleanup` | a member of each socket |

### The programs

| Part | State | Behaviour |
|---|---|---|
| sample echo server, `tcpserv`, `tcpserv_fork` and relatives | one thread or process per connection, shared_ptrs or descriptors that two of them have | accept, start, echo, close |
| `tcpserv_select`, `tcpserv_poll` | `client[]`, `allset` or `revents`, `maxi`, `maxfd`, `nready` | one process, a loop over the ready descriptors |
| `str_cli` (plain, with a receive time limit, with `select()`; the sample on the stream) | stdio's buffer, `sendline`, `recv_buf` or `inBuffer_`, `recvline` | lines in, answers out |
| `tcp_connect`, `udp_connect`, `tcp_listen`, `udp_server`, `tcp_connect_timeo`, `connect_nonb`, Windows `connect_timeo`, `tcpcheck_timeo2`, `tcpcheck_timeo3` | the address list, a socket, flags, a timer, `errno` | try addresses, some with a time limit |
| `dg_cli` (plain, connected), `dg_echo` | one buffer and one address | datagrams that may be lost, repeated, reordered, or come from elsewhere |
| daytime over TCP and UDP | the time in a buffer, one connection or address | one line for each client, in turn |
| HTTP client, name look-up, netlink and acpi listeners, interface list | little | straight-line programs |

### What is hard here

* *Descriptors are numbers.* Between `::close()` and `sockDesc_ = INVALID_SOCKET`
  (`src/Socket.cpp:90`) another thread may be given the same number.
* *Calls fail half way*: in constructors, after `accept()` (`TCPServerSocket.cpp:32`),
  in the middle of a buffer (`TCPSocket.cpp:36`, `send_all.cpp:15`).
* *Several records of one fact*: `client[]`, `allset`, `maxi`, `maxfd` and `nready`
  are updated in three places of the same loop, and `poll()` leaves `revents` of
  entries beyond its range as they were.
* *Buffers that a system call does not see*: stdio's and `recv_buf` against
  `select()`; the get area against a direct `recv()`.
* *Two owners*: main() and the thread each have a shared_ptr, parent and child
  each have a descriptor.
* *What outlives its use*: the stream's buffers across `close()` and `open()`, half an
  address under another family, the resolver's list under its iterators, a lookup
  whose caller has stopped waiting, `recvline` after a `getline()` that failed.
* *Time*: an answer that comes while a time limit runs out; everyone blocked in
  `send()`; a clock that has to be read after the request.

For each component, the properties that make it correct are in section 3. The
whole list, with lines and the properties that would catch each one, is
`hazards` in `PROJECT.json`.

## 2. Modules

```
HandleOwnership  <== SocketLifecycle --+
                     SocketStream    --+-- Sockets_proofs
EchoService      <== EchoClients     -- EchoClients_proofs
                       |-- EventServer -- TcpServSelect --+-- EventServers -- EventServers_proofs
                       |               -- TcpServPoll   --+                   (with EchoClients_proofs)
                       |-- TcpServConcurrent -- TcpServConcurrent_proofs      (with EchoClients_proofs)
                     LineClient      -- StrCli -- StrCli_proofs
DaytimeService   <== Daytime         -- Daytime_proofs
                     Datagrams       -- Datagrams_proofs
SocketAddress     -- AddressLoop     -- AddressLoop_proofs
```

`<==` is "is implemented by" (a refinement mapping, checked as a property), `--`
"is extended by". A module `MCx` instantiates `x` for TLC; its `.cfg` files give
the constants their values.

**HandleOwnership** is the discipline the classes owe the process: a descriptor
is acquired by one holder, passed on or released by it, and nobody else touches
it. **SocketLifecycle** has the member functions in full: `pc[o]` is the next
system call of the function running on object `o`, `task[o]` the function. Other
threads, and files of the rest of the process (`OtherOpen`, `OtherClose`), move
between any two system calls. An object is used by one thread at a time, as in
the samples. A call that throws and changes nothing has no action.

**SocketStream** is `SocketStreamBuffer` of one socket with the bytes numbered
by position: `Put` and `Flush` are `overflow` and `sync`, with one step for each
`send()` of `sendAll()`; `Get` is `underflow`; `SendAll` and `Recv` are the
direct calls. Exceptions of a `send()` or `recv()` become the bad bit, as the
formatted functions of iostream turn them; `Clear` is `clear()`, at most once.
`flush()` on a stream that is not good does nothing (the sentry of C++11).
`CloseSocket` and `Reopen` are `close()` and `open()` with a new connection: the stream,
its two buffers and its error bits stay, and what the kernel had received is
thrown away.

**EchoClients** is the clients' side of an echo server and the kernel's end of
each connection: a client connects, sends, reads, half-closes, closes, aborts or
vanishes; `recv()` yields data, then the end, then the pending error once;
`send()` on a connection that is gone fails once and then raises SIGPIPE.
**EchoService** is what each client may rely on: it gets back a prefix of what it
sent, in order, and its connection is ended only after it has ended it, with
every byte returned if it can still read.

**EventServer** holds what the two event-driven servers have in common: the table
`client[]`, the loop's variables, and the mapping to `EchoService`. **TcpServSelect**
and **TcpServPoll** are the event loops, one action per system call; their names
start with `Select` and `Poll`, and **EventServers** is either of the two over the
same clients, so that each invariant is stated, checked and proved once for both. The test of `revents` in `TcpServPoll` reads the array as the code does: an
entry that `poll()` was not given holds any value from the start.
**TcpServConcurrent** has the three ways to give a connection a worker, chosen by
`server` in the initial state: a thread with a shared_ptr (sample), a thread with
a bare descriptor (`tcpserv` and the variants that differ in how they listen or
in a delay), a child process with a copy of the parent's descriptor table
(`tcpserv_fork`). What ends a process ends its threads, and never the children.

**LineClient** holds the calls of `str_cli()`: `fgets()` and its buffer, one
`send()` of `send_all()`, `recv_until()` with `recv_buf`, or `getline()` and
`sendAll()` of the sample, which have no limit on a line. Byte k is the k-th byte
of the input, so order and loss are visible in the sequences. The server echoes,
may end its side, or may reset the connection, and the reset may be on its way
for a while. **StrCli** puts the calls together in the four versions: plain, plain
with `SO_RCVTIMEO`, `select()`, and the sample. The user types line by line and
waits (a dialogue) or feeds a file.

**SocketAddress** is the object with its fields as they overlap: family and port
in one place, the two addresses each in its own, and `addrLen_`, which
`setAddressPort()` does not touch. **AddressLoop** has every function that tries
addresses in turn, and a program that makes a `TCPSocket` of a `SocketAddress` it
has constructed, set (`SetAddress`), or taken from a socket (`TakeAddress`);
`function` and the fate of each address (`answers`) are chosen in the initial
state. The network answers and the time limit runs out at any point of a wait, and
`select()` of `connect_nonb()` may fail (`SelectFails`). `tried` is a history
variable: it says of each address whether the loop has passed it without a
socket, has called `connect()` or `bind()` for it, and whether the network has
answered before the time limit. The code has no such record; the properties need
it, to tell an address that was never tried from one for which there was no socket.
`list` is the resolver's list: the loop may look at its elements only while it is
held. `ResolveExpires` is `gai_suspend()` that has run out of time, after which the
lookup is still pending.

**Datagrams** has clients and server over a bag of datagrams, with plain sockets
and connected ones. A stranger's datagrams reach the server and plain clients; a
connected socket hears only its server, and is told when the server's host
refuses a line (`Bounce`). A failing system call ends a program at any time:
`ClientFails` and `ServerQuits`, both for `recvfrom()` and for what is around it.
A client that has ended has closed its socket, and what waits there or comes later
is thrown away (`CloseSocket`).

**DaytimeService** promises each client one line, whole, with a time that is not
older than its request. **Daytime** has the iterative TCP server with its queue and
the UDP server with its one buffer and address, their clients, clients of other
make that reset their connection, and kills of either side at any time. Over TCP
a `recv()` may split the line.

## 3. Runs

| Run | What it asks | Bounds |
|---|---|---|
| `lifecycle` | no descriptor leaks, is answered for twice or is closed by a stranger; a constructor delivers a socket that is bound, listening or connected, or none; the classes implement `HandleOwnership` | 2 objects, 3 descriptors: two objects with a socket each and one number for a stranger, so each number can pass through every pair of hands; 1 lost descriptor |
| `udp_client_type` (violated) | `UDPClientSocket` is a datagram socket | as above |
| `event_tables` | in both event-driven servers the tables agree with the open connections, the early exits skip nobody, `recv()` never blocks; the poll server implements `EchoService` | 3 clients for 2 descriptors of the select server, 3 entries and 3 descriptors of the poll server: entries and numbers are reused, and the limit is met; 1 byte each |
| `select_service` | the select server implements `EchoService`, and starves nobody | 2 clients, 2 bytes, a buffer of 2, room for 1: short writes and blocking |
| `concurrent` | in all three concurrent servers a connection is open exactly while main() or its worker has it; `EchoService`; a client is served whatever the others do | 2 clients, 2 bytes |
| `threads_sigpipe` (violated) | a broken connection ends its own thread only | 2 clients |
| `stream` | output is neither lost, repeated nor reordered while calls succeed, a good `flush()` has delivered, each byte of input is read once or dropped by `close()`, sending ends while the peer reads | 3 bytes out and 3 in through areas of 2, 1 byte sent directly, 1 `clear()`, 1 new connection: a full area, a part of one, and both kinds of call on both connections |
| `client` | nothing is lost or misplaced; clients without `select()` keep step; all lines are answered; clients end | every input of up to 4 bytes and terminated ones of 5 and 6; buffers of 3: lines below, at and above the limit |
| `address_loop` | one socket left, and no list; no address is passed over or given up unless there was no socket, it refused, or its time ran out or its wait failed before it answered, and an address leads where it was last set to lead; `errno`, `ec` or the exception names the reason; timed calls end | up to 3 addresses: a first, a middle and a last; 2 hosts of each family and 3 changes of a `SocketAddress`: every pair of families, and one of them back again |
| `address_length` (violated) | an address that was set successfully can be used | 1 address, 2 changes |
| `datagrams` | answers keep step as far as duplicates and strangers allow, and are one's own; without loss every client ends, unless the server has given up | 2 clients, 2 lines, 1 duplicate, 1 datagram of a stranger |
| `daytime` | over TCP and UDP the servers implement `DaytimeService`; over TCP every client ends | 2 clients, a line in 2 pieces, 3 readings of the clock (before, during, after), 1 duplicate |

Deadlock is not checked (`CHECK_DEADLOCK FALSE`): every one of these programs or
its environment may really stop (clients that have gone, a process that has
ended, bounds on bytes and lines used up). What must go on is stated as liveness.

### Disagreements with the documentation

* The constructor of `UDPClientSocket` creates a `SOCK_STREAM` socket
  (`src/UDPClientSocket.cpp:13`); the header promises a UDP socket.
* `send()` has no `MSG_NOSIGNAL`, and SIGPIPE is left at its default: a client
  that goes away can end the sample server, although the header of
  `CommunicatingSocket::send` promises an exception, which `doit()` catches.
* `setAddressPort()` returns true for an IPv6 address but leaves `addrLen_` at the 16
  bytes of an IPv4 address that was there before (`src/SocketAddress.cpp:42`), and
  the kernel refuses it; the header promises IPv4 and IPv6 alike, and a length
  that is that of the address.

### Facts the checks brought out, and how properties allow for them

* `errno` is EBADF after `tcp_connect_timeo()` has failed (a socket is closed up
  to three times) and ENOTCONN in the exception of the library's `tcp_connect`
  (the destructor's `shutdown()`). `ErrnoTellsWhy` leaves out these two, the
  second for its exception only and not for `ec`, and `connect_timeo()`, whose
  result says less than `errno` would; it is about all others.
* The `select()` client returns at the end of a file while answers are on their
  way (`str_cli_select.cpp:37`). `AllDone` leaves that case out.
* With input from a file longer than both directions of the connection hold,
  short lines followed by long ones leave client and server both blocked in
  `send()`. `Ends` states the bound below which that cannot happen.
* A line longer than `MAXLINE - 1` stalls the `select()` client in a dialogue: the
  rest of the line is in stdio's buffer. A last line without a newline is never
  answered with one, so a plain client without a time limit waits for ever.
* `connect_timeo()` of Windows returns 0 when the connection is made at once
  (`connect_timeo.cpp:23`), and for a refused connection, after the full time, for
  its `select()` watches for writing only. Its comment promises 1 and -1, and has 0
  for a timeout; the caller ends with "timeout" in all three cases. The model has
  `ret` as the code computes it, and no property is about it.
* The sample client notices neither the end nor a failure of the stream it reads
  from: `getline()` leaves what was there, and each further line is "answered" by
  the last answer again. `InOrder` says what is repeated, and that nothing is
  while the server runs. Its lines have no limit, and one that both directions
  together cannot hold blocks it and the server for good.
* Bytes in the put area at `close()` go out on the next connection, and bytes in
  the get area are read there. `OutputIntact` and `InputIntact` say that they cross
  in order and once; that none crosses is nowhere promised.
* `getaddrinfo_a()` goes on after `gai_suspend()` has run out of time, with data on
  the stack of a function that has returned (`tcpcheck_timeo3.cpp:75`). The model
  keeps the lookup pending and does not say what it then overwrites.
* A client that resets its connection while it waits ends the daytime servers over
  TCP: nothing catches what `sendAll()` throws. `DaytimeSpec` says what the others
  are left with, which is the whole line or nothing.
* A UDP daytime client with a connected socket whose server has gone uses the -1
  of `recv()` as an index. The model ends it as `wild`.

## 4. Fairness

* `TcpServSelect`, `TcpServPoll`: the process runs when it can. Clients read what
  they are sent and a closed client's host answers with a reset, for a server
  with one process and blocking `send()` serves nobody while one client does not
  read; the code has no defence, and liveness is claimed only under this.
* `TcpServConcurrent`: each thread or process runs when it can. Nothing is
  assumed of clients, and a client that never reads holds up only its own worker.
* `SocketStream`: calls proceed; the peer reads. `StrCli`: client and server run,
  and the user goes on. `AddressLoop`: the process runs and time passes; the
  network need not answer, `select()` need not fail, and a lookup yields its result
  or exceeds its time.
* `Datagrams`: client and server run when they can, and a host without the server
  refuses what comes (`Bounce`). Nothing is assumed of the network, so a client
  ends only where no datagram is lost. `Daytime`: server and clients run when they
  can; over UDP a client has no time limit, and nothing is claimed of its end.
  No system call has to fail: `ServerQuits` and `ClientFails` are steps that may
  happen, and no client's end rests on them.

Weak fairness suffices everywhere: a blocked call stays enabled once what it
waits for is there.

## 5. Proofs

Assumed are only the named assumptions on the constants (`LifecycleAssumption`,
`StreamAssumption`, `AddrsAssumption`, `HostsAssumption`, `ClientsAssumption`,
`EventServerAssumption`, `SelectAssumption`, `PollAssumption`, `ConcurrentAssumption`,
`LineAssumption`, `DatagramAssumption`, `DaytimeAssumption`), which TLC evaluates in
the runs. So each theorem holds for every number of objects, descriptors, clients,
addresses, lines and bytes, every size of the buffers, and every pattern of short
writes, failures, losses and duplicates. Where a temporal formula is proved, what
comes before it is the same three steps: the initial states satisfy the inductive
invariant, each action preserves it (one lemma for each), and it implies what is
claimed.

**The socket classes.** `Sockets_proofs`, which has both parts of the library, the
classes and the stream: `TypeCorrect`,
`DescriptorsAreUnique` (`UniqueOwnership`) and `NothingLeaks` (`NoDescriptorLeak`).
`UniqueOwnership` is not inductive: a step of `accept()` or of `close()` keeps it
only if the program counter agrees with what the object holds. The inductive
invariant adds where each `pc`/`task` pair can occur, that a descriptor held by a
local variable or an object is a socket in the table until `::close()`, and that
`INVALID_SOCKET` stands exactly where none is held. `ImplementsOwnership`
(`OwnershipSpec`) and `HoldersAct` (`OnlyTheHolderActs`): each system call is mapped to
the step of `HandleOwnership` it takes, through lemmas about what an object gains or
gives up, and a call that changes no owner stutters. `ConstructorsDeliver`
(`ConstructorDelivers`) adds to the invariant which of the four calls the constructor
of each class can be at (`BuildInv`); what it has bound or connected before is still
so when it returns, for nobody else has its descriptor.

**The stream.** `Sockets_proofs`: `StreamTypeCorrect`, `OutputIsIntact`
(`OutputIntact`), `FlushIsComplete` (`FlushDelivers`). `OutputIntact` needs that
`ptr` stays inside the put area and that `resent` is set by each path on which
bytes may go out twice; `FlushDelivers` needs that a good stream at rest has
started no call it did not finish. `NothingIsSkipped`
(`NoByteSkipped`) comes from `OrderInv`: the bytes written increase, the put area holds
the last of them, and all before it, with what the running `sendAll()` has sent,
have gone out. A put area that starts over only lowers `ptr`. `InputIsIntact`
(`InputIntact`), from `InputInv`: what the user has got, the get area, what direct
calls have returned, what `close()` has dropped and what is on its way are apart,
make up what the peer has sent, and the first four are all older than the last.

**The loops over addresses.** `AddressLoop_proofs`: `TypeCorrect`, `NothingIsLeft`
(`NothingElseLeft`), `FirstIsUsed` (`FirstThatAnswers`), `ErrnoIsTold`
(`ErrnoTellsWhy`). The inductive invariant says of each point of the loop which
functions come there (`Control`), that addresses before `res` are done with and
those behind it untouched (`Sockets`), that the list is held from the look-up to
the end (`ListHeld`), that each address given up has an excuse in `tried` and
`answers` (`GivenUp`, with the `Excused` of the property), and where the reason of
the last failure is kept until then (`Reasons`). `ExcusedKept`: an excuse, once
there, holds whatever comes later, so only the step that leaves an address has to
find one.

**The event-driven servers.** `EchoClients_proofs` holds what all echo servers have in common:
what each step of a client, of the kernel and of `recv()`, `send()` and `accept()`
keeps. `EventServers_proofs`: `TypeCorrect`, `TheBooksAgree` (`BookkeepingAgrees`),
`EarlyExitsAreRight` (`ReadyCountExact`), `RecvReturns` (`RecvNeverBlocks`) and
`ImplementsEcho` (`EchoSpec`), each about `EventServers`, that is about both servers,
from the inductive invariants `SelectIInv` and `PollIInv`; `SelectImplementsEcho`
says the same of `TcpServSelect` alone.

* *Counting.* In the select server the entries that hold a reported descriptor are
  as many as those descriptors, since the books make the correspondence one to
  one; so the loop that ends at `nready = 0` has met them all. In the poll server
  entries that `poll()` was not given may look reported. The invariant is that
  some set of truly reported entries, as large as `nready`, lies before all
  others the loop takes for reported: the loop is over before it comes to the
  first of those. That is why uninitialised `revents` never make `recv()` block.
* *Refinement.* `Flow`: as long as a connection is not gone, what has been echoed,
  followed by what the server holds in its buffer, followed by what it has not
  received, is what the client has sent. With it each `send()` that succeeds is an
  `Echo` of the abstract service, and the `close()` after the end of the stream,
  which comes when the buffer is empty and nothing is left to receive, is the
  permitted end of a service that owes nothing. This part is one proof for both
  servers: it asks of them only what `ServerOK` says.
* *Promise.* `ClientsGetTheirBytes`: what the steps of the service come to for a client,
  as an invariant (`EchoService`'s `Promise`), proved of the service and carried over by
  the refinement. It speaks also of connections that are gone, of which `Flow` says
  nothing. To be inductive it needs that a connection which has ended while the
  server runs was closed by its client first: nothing is sent on it any more.

**The concurrent servers.** `TcpServConcurrent_proofs`: `TypeCorrect`,
`NobodyKeepsIt` (`SharedOwnership`) and `ImplementsEcho` (`EchoSpec`), in one proof for
the three values of `server`. The inductive invariant says where main() and a worker
can be at the same time (`MainOK`, `WorkersOK`), that a table holds a connection
exactly for those who have it, where `desc` says (`TablesOK`), and that the sample's
count is the number of owners (`RefsOK`). `TablesOK` is what makes `fork()` harmless: at
that point the parent's table has one connection, the new child's. For the
refinement `FlowInv` adds `Flow` of each worker's buffer, and that a worker about to
go, or gone while main() still holds the socket, owes its client nothing; so it does
not matter which of the two closes it. The end of the process that runs main() is
the `Stop` of the service, which takes along what that process alone has open.
`ClientsGetTheirBytes` is carried over to these servers in the same way.

**The line clients.** `StrCli_proofs`: `TypeCorrect`, `ArrivesInOrder` (`InOrder`),
`WaitsForEach` (`StopAndWait`), `EveryLineAnswered` (`AllDone`), in one proof for the four
versions. Each buffer on the way of a byte has an offset, the sum of the lengths of
those behind it (`Told`, `Stored`, ... `Read`), and holds the bytes that follow its
offset (`IsRun`), so that a step moves a run from the head of one buffer to the end of
the next. `Forth` says so of the way out and back while the server runs, `Back` of
what has come back when it has gone, with the sample's repeated answer behind it.
`OneLine`: what is under way for a client without `select()` is what one `fgets()` has
returned, with no newline but at its end and not longer than `sendline`; so `fgets()`
and `recv_until()` cut at the same places. `Finished` relates the end of the input to what is under way
at the end and, in a dialogue, to what the user has waited for.

**The daytime programs.** `Daytime_proofs`: `TypeCorrect` and `ImplementsDaytime`
(`DaytimeSpec`), over TCP and UDP. The invariant has `Clocks`: whatever has been read
from the clock for a client, in the server's buffer or in a datagram, was read after
it had asked; for the buffer this needs that its address is that of the request it
was read for. `Told`: what a client has printed and what is on its way to it are the
start of one line, of one reading of the clock (`OfLine`). `Tcp`: a connection waits in
the queue once, or is being served, until its whole line has been sent, and without
one it ends only if the server has. `Udp`: a datagram is a whole line. With these each
`recv()` that returns something is a `Tell` of the service, with the time found by
`Told`, and every other step an `Ask`, `End`, `Kill`, `Stop`, `Tick` or a stutter.
`ClientsGetOneLine` states what a client may conclude (`DaytimeService`'s `Promise`): the
start of one line, with a time since the request, and a whole line, or nothing from a
server that has ended, for everybody who ends by itself.

**The datagrams.** `Datagrams_proofs`: `TypeCorrect`, `AnswersKeepStep` (`InStep`) and
`AnswerMatchesLine`, which says what `InStep` comes to without duplicates and
strangers: the k-th answer belongs to the k-th line (no run has it, for it follows
from the same invariant). The invariant is an account for each line (`Accounts`): of a line that has been sent
there is one copy, as a request, in the server's buffer, as an answer or printed,
and one more for each time that the network has duplicated a datagram with it. A
list of what has been duplicated, which the model does not keep, stands under an
existential quantifier (`Balanced`). `InStep` counts answers printed twice, and follows
by an injection of the printed answers into the lines printed, once each, and the
duplications (`PrintedTwice`). Besides, an answer on its way goes to the client whose
line it is (`OwnNet`), and for the one in the buffer the address is that client's
(`OwnAddr`): that is why one buffer and one address are enough.

**Only model-checked** is liveness: `EveryClientServed`, `Isolated`,
`EveryClientGetsAWorker`, `SendingEnds`, `Ends`, `CallEnds` and the two `EveryClientEnds`.
They rest on fairness, and so on ENABLED, which the prover does not reason about.
The three properties that are violated are refuted by TLC's counterexamples.
Nothing about recursion over data is stated: the models have none.

## 6. Limits of the models

* `accept()` may fail at any time (EMFILE, ENFILE, no memory), in every server.
  EINTR in `accept()` and `select()` of the servers is left out, since the programs
  install no handlers; `recv()` and `send()` retry it. So are other failures of
  `select()` and `poll()` in the event-driven servers, and of `fcntl()` and
  `ioctlsocket()` on a descriptor that is open.
* `SelectAssumption` takes the descriptor limit not to be above `FD_SETSIZE`, which
  is the default; beyond it `FD_SET()` writes outside the set.
* Bytes carry only their origin and, in `StrCli`, whether they are a newline. Text,
  formatting and the log lines of the programs are left out. So a NUL byte in a
  line, at which `strlen()` would cut it (`str_cli.cpp:17`), is no input of the model,
  and the line break that the sample daytime clients print after each `recv()` is
  not part of `printed`.
* Ports, addresses and options are represented by the outcome of the call that
  uses them.
* Children of `tcpserv_fork` that have ended are not waited for; the model lets
  `fork()` fail at any time instead of counting them.

* Some hazards in `PROJECT.json` name no property, with a note that says why: the
  model has the behaviour, but the code does go wrong there and promises nothing
  (a descriptor lost after `accept()`, answers that the `select()` client does not
  wait for, a last line without a newline, `errno` after the library's
  `tcp_connect`), or it lies outside an assumption (`FD_SETSIZE`, clients that
  never read).

### Not modelled

* *Socket options and the getters of addresses*: they read or set one value in the
  kernel, and nothing else in the program depends on it.
* *HTTP client*: one request and one response in a straight line; the calls it
  shares with the echo client are modelled there. `recv_until()` without a
  terminator, which it alone calls, is not.
* *Programs that look up names*: one library call each, and its printed result.
* *Kernel and daemon listeners*: they print what arrives.
* *The Windows start-up holder*: a static shared_ptr calls `WSAStartup()` and
  `WSACleanup()` once each; the Windows twins of the servers have the control of
  the Linux programs.
* *The limit for sending* (`SO_SNDTIMEO`): its programs print how far a `send()` came;
  for `send_all()` the expiry is an error like any other.
* *What a lookup does to a stack that is gone* (`tcpcheck_timeo3`), and *children
  that nobody waits for* (`tcpserv_fork`): the first is undefined, the second
  concerns the process table of the machine, and shows here only as a `fork()`
  that may fail at any time.

## 7. Plan

Done, in this order: ownership of descriptors; the event-driven servers; the
concurrent servers; the stream; the line client with the sample version; address
loops, time limits and `SocketAddress`; datagrams; daytime; the proofs of section 5.

What would add most next: the HTTP client with `recv_until()` without a terminator.
The promises of the two services have no run: they follow from the refinements, which
TLC checks.
