---------------------------- MODULE AddressLoop ----------------------------
(***************************************************************************)
(* The functions that look up a host and try its addresses one after the   *)
(* other, and the two that connect with a time limit:                      *)
(*   tcp_connect, udp_connect, tcp_listen, udp_server, tcp_connect_timeo   *)
(*   (which calls connect_nonb) of benchmark/linux/common,                 *)
(*   mini_socket::tcp_connect and udp_connect of the library ("library"),  *)
(*   a program that keeps a SocketAddress, sets it or takes it from a      *)
(*   socket, and makes a TCPSocket of it ("numeric"),                      *)
(*   tcp_connect_timeo of tcpcheck_timeo2 and tcpcheck_timeo3, which calls *)
(*   connect_nonb with the first address only,                             *)
(*   connect_nonb of Linux and connect_timeo of Windows as the client      *)
(*   tcpcli_conn_timeo calls them, with one address.                       *)
(* A call is a process; the network and the timer move while it waits.     *)
(***************************************************************************)
EXTENDS SocketAddress, Integers, Sequences, FiniteSets

CONSTANTS
  MaxAddrs,  \* bound on the addresses of a host
  MaxSets    \* bound on the changes of a SocketAddress

ASSUME AddrsAssumption == MaxAddrs \in Nat \ {0} /\ MaxSets \in Nat

VARIABLES
  function,  \* the function called
  answers,   \* what becomes of connect() or bind() for each address
  tried,     \* history: what the call has done about each address, and whether
             \* the network has answered before the time limit ran out
  res,       \* the address being tried
  socks,     \* the socket created for each address
  nonblock,  \* the sockets that have been made non-blocking
  timer,     \* the time limit of select()
  error,     \* the local variable of connect_nonb()
  ret,       \* the local variable of connect_timeo()
  errno,
  ec, thrown,  \* the library's errors
  list,      \* the resolver's list, whose elements the loop looks at
  addr, asked, sets,  \* the SocketAddress, what it was last set to, how often
  pc

called == <<function, answers>>
errors == <<errno, ec, thrown>>
address == <<addr, asked, sets>>
vars == <<called, tried, address, list, res, socks, nonblock, timer, error, ret, errors, pc>>

Connecting == {"tcp_connect", "udp_connect", "library"}
Binding == {"tcp_listen", "udp_server"}
Single == {"connect_nonb", "connect_timeo"}
Checks == {"tcpcheck_timeo2", "tcpcheck_timeo3"}
Functions == Connecting \cup Binding \cup Single \cup Checks \cup {"tcp_connect_timeo", "numeric"}
Resolves == Functions \ (Single \cup {"numeric"})
Throws == {"library", "numeric"}
Timed == Single \cup Checks \cup {"tcp_connect_timeo"}

\* "late" and "refused_late" come after EINPROGRESS; a silent address never answers.
Answers == {"now", "refused", "late", "refused_late", "silent"}
AnswersTo(f) ==
  IF f \in Binding \cup {"udp_connect"} THEN {"now", "refused"} ELSE Answers
MaxOf(f) == IF f \in Resolves THEN MaxAddrs ELSE 1

Addrs == DOMAIN answers
Failed == {"refused", "timeout"}

\* SocketError: a type and a code.
SysError(code) == [type |-> "sys", code |-> code]
GaiError == [type |-> "gai", code |-> "EAI"]
NoError == [type |-> "none", code |-> "none"]

Errnos == Failed \cup {"none", "ENOMEM", "EMFILE", "EAFNOSUPPORT", "EINVAL", "ENOTCONN", "EBADF"}
TypeOK ==
  /\ function \in Functions
  /\ \E n \in 1 .. MaxOf(function) : answers \in [1 .. n -> AnswersTo(function)]
  /\ res \in Addrs
  /\ tried \in [Addrs -> {"untried", "no_socket", "called", "answered", "no_wait"}]
  /\ socks \in [Addrs -> {"none", "open", "connecting", "ready", "failed", "closed"}]
  /\ nonblock \subseteq {a \in Addrs : socks[a] # "none"}
  /\ timer \in {"off", "running", "out"}
  /\ error \in Failed \cup {"none", "ENOMEM"}
  /\ ret \in {-1, 0, 1}
  /\ errno \in Errnos
  /\ {ec, thrown} \subseteq {NoError, GaiError} \cup {SysError(e) : e \in Errnos}
  /\ list \in {"none", "pending", "held", "freed"}
  /\ addr \in SocketAddresses
  /\ asked \in {<<>>} \cup (Families \X Hosts \X Hosts)
  /\ sets \in 0 .. MaxSets
  /\ pc \in {"resolve", "address", "socket", "try", "wait", "timeout", "restore",
             "close", "found", "quit", "failed", "returned"}

Init ==
  /\ function \in Functions
  /\ \E n \in 1 .. MaxOf(function) : answers \in [1 .. n -> AnswersTo(function)]
  /\ res = 1
  /\ tried = [a \in Addrs |-> "untried"]
  /\ socks = [a \in Addrs |-> "none"]
  /\ nonblock = {}
  /\ timer = "off" /\ error = "none" /\ ret = 0
  /\ errno = "none" /\ ec = NoError /\ thrown = NoError
  /\ list = "none"
  /\ addr = EmptyAddress /\ asked = <<>> /\ sets = 0
  /\ pc = IF function \in Single THEN "socket"
          ELSE IF function = "numeric" THEN "address" ELSE "resolve"

----------------------------------------------------------------------------
(* The loop. *)

Sock(s) == socks' = [socks EXCEPT ![res] = s]
Note(what) == tried' = [tried EXCEPT ![res] = what]

\* getaddrinfo(): with an error the function does not reach the loop.
Resolve ==
  /\ pc = "resolve"
  /\ \/ pc' = "socket" /\ list' = "held" /\ UNCHANGED thrown
     \/ /\ pc' = "quit"
        /\ thrown' = IF function = "library" THEN GaiError ELSE NoError
        /\ UNCHANGED list
  /\ UNCHANGED <<called, tried, address, res, socks, nonblock, timer, error, ret, errno, ec>>

\* gai_suspend() has run out of time, and getaddrinfo_a() is left to go on.
ResolveExpires ==
  /\ pc = "resolve" /\ function = "tcpcheck_timeo3"
  /\ pc' = "quit"
  /\ list' = "pending"
  /\ UNCHANGED <<called, tried, address, res, socks, nonblock, timer, error, ret, errors>>

\* Defect: the end of the list is not looked for.
NextAddress_endless == res' = res + 1 /\ pc' = "socket" /\ list' = list

\* What becomes of the list when nothing has answered: a deleter or a guard
\* frees it, or freeaddrinfo() on every path; in the others the process ends.
ListAfterFailure == IF function \in Checks \cup {"library"} THEN "freed" ELSE list

\* Defect: the list is moved on twice.
NextAddress_skips ==
  IF function \notin Checks /\ res + 2 \in Addrs
  THEN res' = res + 2 /\ pc' = "socket" /\ list' = list
  ELSE res' = res /\ pc' = "failed" /\ list' = ListAfterFailure

\* "while ((res = res->ai_next) != NULL)", where there is a loop.
NextAddress ==
  IF function \notin Checks /\ res + 1 \in Addrs
  THEN res' = res + 1 /\ pc' = "socket" /\ list' = list
  ELSE res' = res /\ pc' = "failed" /\ list' = ListAfterFailure

\* get_last_sys_error(ec) after open() and connect() with an ec, and
\* sys_error() in the constructor of TCPSocket.
Reported(code) ==
  /\ ec' = IF function = "library" THEN SysError(code) ELSE ec
  /\ thrown' = IF function = "numeric" THEN SysError(code) ELSE thrown

\* socket(), of the family of the address.
CreateSocket ==
  /\ pc = "socket"
  /\ function = "numeric" => NetworkLayerType(addr) \in Families
  /\ Sock("open")
  /\ pc' = "try"
  /\ UNCHANGED <<called, tried, address, list, res, nonblock, timer, error, ret, errors>>

SocketFails ==
  /\ pc = "socket"
  /\ errno' = IF function = "numeric" /\ NetworkLayerType(addr) = "none"
              THEN "EAFNOSUPPORT" ELSE "EMFILE"
  /\ Reported(errno')
  /\ Note("no_socket")
  /\ IF function \in Single THEN pc' = "quit" /\ UNCHANGED <<res, list>> ELSE NextAddress
  /\ UNCHANGED <<called, address, socks, nonblock, timer, error, ret>>

\* The kernel looks at the length of an address first.
Acceptable == function = "numeric" => KernelTakes(addr)

\* Why connect() or bind() of this address fails, if it does.
Refusal ==
  IF ~Acceptable THEN "EINVAL"
  ELSE IF answers[res] = "silent" THEN "timeout"
  ELSE IF answers[res] \in {"refused", "refused_late"} THEN "refused" ELSE "none"

\* connect() or bind() of a blocking socket; the kernel's own time limit for
\* connect() ends the wait for a silent address.
Attempt ==
  /\ pc = "try"
  /\ IF Refusal = "none"
     THEN Sock("ready") /\ pc' = "found" /\ UNCHANGED errors
     ELSE /\ Sock("failed")
          /\ errno' = Refusal
          /\ Reported(Refusal)
          /\ pc' = "close"
  /\ Note("called")
  /\ UNCHANGED <<called, address, list, res, nonblock, timer, error, ret>>

\* After the loop the list is freed, by freeaddrinfo() or by the last shared_ptr.
Found ==
  /\ pc = "found"
  /\ list' = IF list = "held" THEN "freed" ELSE list
  /\ pc' = "returned"
  /\ UNCHANGED <<called, tried, address, res, socks, nonblock, timer, error, ret, errors>>

TcpConnect == function = "tcp_connect" /\ Attempt
UdpConnect == function = "udp_connect" /\ Attempt
UdpServer  == function = "udp_server" /\ Attempt

\* setsockopt() before bind(), and listen() after the loop, end the process
\* when they fail.
TcpListen ==
  /\ function = "tcp_listen"
  /\ \/ Attempt
     \/ /\ pc \in {"try", "found"}
        /\ pc' = "quit"
        /\ UNCHANGED <<called, tried, address, list, res, socks, nonblock, timer, error, ret, errors>>

\* The error goes into ec, and errno is the one connect() has left.
LibraryConnect == function = "library" /\ Attempt

\* Defect: the errors of close() are looked at, and none is left behind.
CloseAndGoOn_clears ==
  /\ pc = "close"
  /\ Sock("closed")
  /\ errno' = "none"
  /\ NextAddress
  /\ UNCHANGED <<called, tried, address, nonblock, timer, error, ret, ec, thrown>>

\* close(sockfd); in the library the destructor of TCPSocket, whose shutdown()
\* fails on a socket that is not connected.
CloseAndGoOn ==
  /\ pc = "close"
  /\ Sock("closed")
  /\ errno' = IF function \in Throws THEN "ENOTCONN"
              ELSE IF socks[res] = "closed" THEN "EBADF" ELSE errno
  /\ NextAddress
  /\ UNCHANGED <<called, tried, address, nonblock, timer, error, ret, ec, thrown>>

\* sys_error() after the last address: it reads errno.
LibraryThrows ==
  /\ pc = "failed" /\ function = "library" /\ thrown = NoError
  /\ thrown' = SysError(errno)
  /\ UNCHANGED <<called, tried, address, list, res, socks, nonblock, timer, error, ret, errno, ec, pc>>

----------------------------------------------------------------------------
(* A program with a SocketAddress. *)

\* The constructor throws when the text is no address, with whatever is in
\* errno: inet_pton() leaves none behind.
ConstructAddress ==
  /\ pc = "address" /\ addr = EmptyAddress /\ sets = 0
  /\ \E text \in Texts, port \in Hosts :
       /\ addr' = SetAddressPort(addr, text, port)
       /\ IF IsAddress(text)
          THEN asked' = <<text[1], text[2], port>> /\ UNCHANGED <<thrown, pc>>
          ELSE asked' = <<>> /\ thrown' = SysError(errno) /\ pc' = "quit"
  /\ UNCHANGED <<called, tried, sets, list, res, socks, nonblock, timer, error, ret, errno, ec>>

\* setAddressPort() on the object as it is; FALSE leaves nobody asked for.
SetAddress ==
  /\ pc = "address" /\ sets < MaxSets
  /\ \E text \in Texts, port \in Hosts :
       /\ addr' = SetAddressPort(addr, text, port)
       /\ asked' = IF IsAddress(text) THEN <<text[1], text[2], port>> ELSE <<>>
  /\ sets' = sets + 1
  /\ UNCHANGED <<called, tried, list, res, socks, nonblock, timer, error, ret, errors, pc>>

\* The object is assigned what recvFrom(), getForeignAddress() or
\* getLocalAddress() has built from the kernel's sockaddr.
TakeAddress ==
  /\ pc = "address" /\ sets < MaxSets
  /\ \E family \in Families, host \in Hosts, port \in Hosts :
       /\ addr' = FromSockaddr(family, host, port)
       /\ asked' = <<family, host, port>>
  /\ sets' = sets + 1
  /\ UNCHANGED <<called, tried, list, res, socks, nonblock, timer, error, ret, errors, pc>>

\* TCPSocket(addr)
UseAddress ==
  /\ pc = "address"
  /\ pc' = "socket"
  /\ UNCHANGED <<called, tried, address, list, res, socks, nonblock, timer, error, ret, errors>>

NumericConnect == function = "numeric" /\ Attempt

----------------------------------------------------------------------------
(* Connecting with a time limit. *)

UsesNonb == function \in Checks \cup {"tcp_connect_timeo", "connect_nonb"}
UsesTimeo == function = "connect_timeo"

\* Defect: select() gets no time limit.
StartNonblocking_untimed ==
  /\ pc = "try"
  /\ UsesNonb \/ UsesTimeo
  /\ nonblock' = nonblock \cup {res}
  /\ IF answers[res] \in {"now", "refused"}
     THEN /\ Sock(IF answers[res] = "now" THEN "ready" ELSE "failed")
          /\ error' = IF answers[res] = "now" THEN "none" ELSE "refused"
          /\ ret' = IF answers[res] = "now" THEN 0 ELSE -1
          /\ pc' = "restore"
          /\ UNCHANGED timer
     ELSE /\ Sock("connecting")
          /\ error' = "none"
          /\ timer' = "off"
          /\ pc' = "wait"
          /\ UNCHANGED ret
  /\ Note("called")
  /\ UNCHANGED <<called, address, list, res, errors>>

\* connect() of a non-blocking socket: an answer, or EINPROGRESS and select().
StartNonblocking ==
  /\ pc = "try"
  /\ UsesNonb \/ UsesTimeo
  /\ nonblock' = nonblock \cup {res}
  /\ IF answers[res] \in {"now", "refused"}
     THEN /\ Sock(IF answers[res] = "now" THEN "ready" ELSE "failed")
          /\ error' = IF answers[res] = "now" THEN "none" ELSE "refused"
          /\ ret' = IF answers[res] = "now" THEN 0 ELSE -1
          /\ pc' = "restore"
          /\ UNCHANGED timer
     ELSE /\ Sock("connecting")
          /\ error' = "none"
          /\ timer' = "running"
          /\ pc' = "wait"
          /\ UNCHANGED ret
  /\ Note("called")
  /\ UNCHANGED <<called, address, list, res, errors>>

\* select() of connect_nonb() has reported the socket: SO_ERROR.
ConnectNonbAnswered ==
  /\ pc = "wait" /\ UsesNonb
  /\ socks[res] \in {"ready", "failed"}
  /\ error' = IF socks[res] = "ready" THEN "none" ELSE "refused"
  /\ pc' = "restore"
  /\ UNCHANGED <<called, tried, address, list, res, socks, nonblock, timer, ret, errors>>

\* select() itself fails: no memory, for instance.
SelectFails ==
  /\ pc = "wait"
  /\ IF UsesNonb THEN error' = "ENOMEM" /\ UNCHANGED ret ELSE ret' = -1 /\ UNCHANGED error
  /\ Note("no_wait")
  /\ pc' = "restore"
  /\ UNCHANGED <<called, address, list, res, socks, nonblock, timer, errors>>

\* select() has returned 0, and the connection can still come before close().
ConnectNonbExpires ==
  /\ pc = "wait" /\ UsesNonb
  /\ socks[res] = "connecting" /\ timer = "out"
  /\ pc' = "timeout"
  /\ UNCHANGED <<called, tried, address, list, res, socks, nonblock, timer, error, ret, errors>>

ConnectNonbTimeout ==
  /\ pc = "timeout"
  /\ Sock("closed")
  /\ error' = "timeout"
  /\ pc' = "restore"
  /\ UNCHANGED <<called, tried, address, list, res, nonblock, timer, ret, errors>>

\* Defect: the flags are restored only when all went well, after the return.
ConnectNonbReturns_nonblocking ==
  /\ pc = "restore" /\ UsesNonb
  /\ IF error = "none"
     THEN pc' = "found" /\ UNCHANGED <<socks, list, errno>>
     ELSE /\ Sock("closed")
          /\ errno' = error
          /\ pc' = IF function \in Single THEN "quit"
                   ELSE IF function \in Checks THEN "failed" ELSE "close"
          /\ list' = ListAfterFailure
  /\ UNCHANGED <<called, tried, address, res, nonblock, timer, error, ret, ec, thrown>>

\* The label done: the flags are restored and a failed socket is closed, if
\* need be once more; tcp_connect_timeo() then closes it again.
ConnectNonbReturns ==
  /\ pc = "restore" /\ UsesNonb
  /\ nonblock' = nonblock \ {res}
  /\ IF error = "none"
     THEN pc' = "found" /\ UNCHANGED <<socks, list, errno>>
     ELSE /\ Sock("closed")
          /\ errno' = error
          /\ pc' = IF function \in Single THEN "quit"
                   ELSE IF function \in Checks THEN "failed" ELSE "close"
          /\ list' = ListAfterFailure
  /\ UNCHANGED <<called, tried, address, res, timer, error, ret, ec, thrown>>

\* select() of connect_timeo() watches for writing only, and on Windows a
\* refusal is reported as an exception: it returns 1, or 0 in the end.
ConnectTimeoSelects ==
  /\ pc = "wait" /\ UsesTimeo
  /\ socks[res] = "ready" \/ timer = "out"
  /\ ret' = IF socks[res] = "ready" THEN 1 ELSE 0
  /\ pc' = "restore"
  /\ UNCHANGED <<called, tried, address, list, res, socks, nonblock, timer, error, errors>>

\* The label restore_flags; the caller ends unless the result is 1.
ConnectTimeoReturns ==
  /\ pc = "restore" /\ UsesTimeo
  /\ nonblock' = nonblock \ {res}
  /\ pc' = IF ret = 1 THEN "returned" ELSE "quit"
  /\ UNCHANGED <<called, tried, address, list, res, socks, timer, error, ret, errors>>

----------------------------------------------------------------------------
(* The network and the clock. *)

NetworkAnswers ==
  /\ socks[res] = "connecting"
  /\ answers[res] # "silent"
  /\ Sock(IF answers[res] = "late" THEN "ready" ELSE "failed")
  /\ Note(IF pc = "wait" /\ timer = "running" THEN "answered" ELSE tried[res])
  /\ UNCHANGED <<called, address, list, res, nonblock, timer, error, ret, errors, pc>>

TimeRunsOut ==
  /\ pc = "wait" /\ timer = "running"
  /\ timer' = "out"
  /\ UNCHANGED <<called, tried, address, list, res, socks, nonblock, error, ret, errors, pc>>

----------------------------------------------------------------------------
Process ==
  \/ Resolve \/ ResolveExpires \/ CreateSocket \/ SocketFails
  \/ TcpConnect \/ UdpConnect \/ TcpListen \/ UdpServer
  \/ LibraryConnect \/ LibraryThrows
  \/ ConstructAddress \/ SetAddress \/ TakeAddress \/ UseAddress \/ NumericConnect
  \/ CloseAndGoOn \/ Found
  \/ StartNonblocking
  \/ ConnectNonbAnswered \/ ConnectNonbExpires \/ ConnectNonbTimeout \/ ConnectNonbReturns
  \/ ConnectTimeoSelects \/ ConnectTimeoReturns

Next == Process \/ SelectFails \/ NetworkAnswers \/ TimeRunsOut

Spec == Init /\ [][Next]_vars

(* The process runs when it can, and time passes; the network need not answer, *)
(* and select() need not fail.                                                *)
FairSpec == Spec /\ WF_vars(Process) /\ WF_vars(TimeRunsOut)

----------------------------------------------------------------------------
(* What must hold. *)

\* The socket returned is connected or bound and blocks again, and nothing
\* else is left: no other socket, after a failure none at all, and no list of
\* addresses.  A list is there as long as the loop looks at its elements, which
\* the library's views only point to.  (The lookup that tcpcheck_timeo3 gives
\* up goes on behind its back.)
NothingElseLeft ==
  /\ pc = "returned" => /\ socks[res] = "ready" /\ res \notin nonblock
                        /\ \A a \in Addrs \ {res} : socks[a] \in {"none", "closed"}
                        /\ list # "held"
  /\ pc = "failed" => /\ \A a \in Addrs : socks[a] \in {"none", "closed"}
                      /\ function \in Checks \cup {"library"} => list = "freed"
  /\ pc \in {"socket", "try", "wait", "timeout", "restore", "close"} /\ function \in Resolves =>
       list = "held"

\* The address has been given up for a reason: there was no socket for it or
\* no way to wait, or connect() or bind() was called and no success came, with
\* a time limit none before it ran out.
Excused(a) ==
  \/ tried[a] \in {"no_socket", "no_wait"}
  \/ /\ tried[a] \in {"called", "answered"}
     /\ IF function \in Timed
        THEN answers[a] # "now" /\ (answers[a] = "late" => tried[a] # "answered")
        ELSE answers[a] \notin {"now", "late"} \/ ~Acceptable

\* The first address that answers in time is used, at once or late: when a call
\* returns, every address before that one has been tried and has failed, and
\* none behind it has been touched; when it fails, all have been tried.
\* (tcpcheck has only one try; and the client of connect_timeo() takes a
\* connection made at once for a timeout.)  A SocketAddress leads to the address
\* and port it was last successfully set to or has taken, whatever it held.
FirstThatAnswers ==
  /\ pc = "returned" => /\ tried[res] \in {"called", "answered"}
                        /\ \A a \in Addrs : a < res => Excused(a)
                        /\ \A a \in Addrs : res < a => tried[a] = "untried"
  /\ pc = "failed" => \A a \in IF function \in Checks THEN {1} ELSE Addrs : Excused(a)
  /\ pc = "quit" /\ function \in Single =>
       Excused(1) \/ (function = "connect_timeo" /\ answers[1] = "now")
  /\ pc = "returned" /\ asked # <<>> => AddressPort(addr) = asked

\* What tells why the address in hand has failed.  With a time limit it is a
\* refusal that has come, or a limit that has run out before any answer.
Explains(code) ==
  \/ tried[res] = "no_wait" /\ code = "ENOMEM"
  \/ /\ tried[res] = "no_socket"
     /\ code = IF function = "numeric" /\ addr.family = "none" THEN "EAFNOSUPPORT" ELSE "EMFILE"
  \/ /\ tried[res] \in {"called", "answered"}
     /\ IF function \in Timed
        THEN \/ code = "refused" /\ answers[res] \in {"refused", "refused_late"}
             \/ code = "timeout" /\ tried[res] = "called" /\ answers[res] \notin {"now", "refused"}
        ELSE code = Refusal

\* When every address has failed, the caller learns why the last one did: from
\* errno where nothing has overwritten it, from ec in the library, and from
\* the exception of a constructor.  The caller of connect_nonb() can tell a
\* timeout from a refusal, as tcpcli_conn_timeo and tcpcheck do.  An exception
\* carries a resolver's code just when the resolver has failed.
ErrnoTellsWhy ==
  /\ pc = "failed" =>
       /\ function \in (Connecting \ Throws) \cup Binding \cup Checks => Explains(errno)
       /\ function = "library" => ec.type = "sys" /\ Explains(ec.code)
       /\ function = "numeric" => thrown.type = "sys" /\ Explains(thrown.code)
  /\ pc = "quit" /\ function = "connect_nonb" => Explains(errno)
  /\ thrown = GaiError <=> function = "library" /\ pc = "quit"

\* A call with a time limit ends even if the network never answers.
CallEnds == <>(pc \in {"returned", "failed", "quit"})

\* SocketAddress.hpp:51, :18, :77: setAddressPort() returns true for a valid
\* address of either family, and getSockaddrLen() is the length of the sockaddr
\* it holds.  So the kernel never finds an address invalid that was set so.
ValidAddressIsUsable == asked # <<>> => thrown # SysError("EINVAL")
============================================================================
