------------------------- MODULE AddressLoop_proofs -------------------------
(***************************************************************************)
(* The loops over a host's addresses, proved for any number of addresses,  *)
(* whatever they answer, and any number of changes of a SocketAddress.     *)
(***************************************************************************)
EXTENDS AddressLoop, TLAPS

(* Which functions come where. *)
Control ==
  /\ pc = "resolve" => function \in Resolves
  /\ pc = "address" => function = "numeric"
  /\ pc \in {"resolve", "address"} => res = 1 /\ thrown = NoError
  /\ pc \in {"wait", "restore"} => UsesNonb \/ UsesTimeo
  /\ pc = "timeout" => UsesNonb
  /\ pc \in {"close", "failed"} => function \notin Single
  /\ pc = "close" => function \notin Checks
  /\ function = "numeric" => Addrs = {1}

(* The addresses before the one in hand are done with, those behind it have *)
(* not been touched, and of that one the program counter tells the state.   *)
Sockets ==
  /\ \A a \in Addrs : a < res => socks[a] \in {"none", "closed"}
  /\ \A a \in Addrs : res < a => socks[a] = "none"
  /\ pc \in {"resolve", "address", "socket"} => socks[res] = "none"
  /\ pc = "try" => socks[res] = "open"
  /\ pc \in {"found", "returned"} => socks[res] = "ready"
  /\ pc = "restore" /\ UsesNonb /\ error = "none" => socks[res] = "ready"
  /\ pc = "restore" /\ UsesTimeo /\ ret = 1 => socks[res] = "ready"
  /\ pc = "close" => socks[res] \in {"failed", "closed"}
  /\ pc = "failed" => socks[res] \in {"none", "closed"}
  /\ nonblock \subseteq {res}
  /\ nonblock # {} => pc \in {"wait", "timeout", "restore"}

(* The list is there from the look-up to the end. *)
ListHeld ==
  /\ function \notin Resolves => list = "none"
  /\ pc = "resolve" => list = "none"
  /\ pc \in {"socket", "try", "wait", "timeout", "restore", "close", "found"} /\ function \in Resolves =>
       list = "held"
  /\ pc = "returned" => list # "held"
  /\ pc = "failed" /\ function \in Checks \cup {"library"} => list = "freed"

(* Every address before the one in hand has been given up for a reason, none *)
(* behind it has been touched, and what has become of that one so far.       *)
GivenUp ==
  /\ \A a \in Addrs : a < res => Excused(a)
  /\ \A a \in Addrs : res < a => tried[a] = "untried"
  /\ pc \in {"resolve", "address", "socket", "try"} => tried[res] = "untried"
  /\ pc \in {"found", "returned", "wait"} => tried[res] \in {"called", "answered"}
  /\ pc = "timeout" => tried[res] = "called"
  /\ pc \in {"wait", "timeout"} => answers[res] \notin {"now", "refused"}
  /\ pc = "wait" => \/ socks[res] = "connecting" /\ tried[res] = "called"
                    \/ socks[res] = "ready" /\ answers[res] = "late"
                    \/ socks[res] = "failed" /\ answers[res] = "refused_late"
  /\ pc = "restore" /\ UsesNonb =>
       IF error = "none" THEN tried[res] \in {"called", "answered"} ELSE Excused(res)
  /\ pc = "restore" /\ UsesTimeo =>
       IF ret = 1 THEN tried[res] \in {"called", "answered"}
       ELSE Excused(res) \/ answers[res] = "now"
  /\ pc \in {"close", "failed"} => Excused(res)
  /\ pc = "failed" /\ function \notin Checks => res + 1 \notin Addrs
  /\ function \in Checks \cup Single => res = 1
  /\ pc = "quit" /\ function \in Single =>
       Excused(1) \/ (function = "connect_timeo" /\ answers[1] = "now")
  /\ asked # <<>> => AddressPort(addr) = asked

(* Where the reason of the last failure is kept. *)
Plain == {"tcp_connect", "udp_connect", "tcp_listen", "udp_server"}
Reasons ==
  /\ pc = "restore" /\ UsesNonb /\ error # "none" => Explains(error)
  /\ pc = "close" /\ function \in Plain => Explains(errno) /\ socks[res] = "failed"
  /\ pc = "failed" /\ function \in Plain \cup Checks => Explains(errno)
  /\ pc \in {"close", "failed"} /\ function = "library" => ec.type = "sys" /\ Explains(ec.code)
  /\ pc \in {"close", "failed"} /\ function = "numeric" =>
       thrown.type = "sys" /\ Explains(thrown.code)
  /\ pc = "quit" /\ function = "connect_nonb" => Explains(errno)
  /\ thrown = GaiError <=> function = "library" /\ pc = "quit"

IInv == TypeOK /\ Control /\ Sockets /\ ListHeld /\ GivenUp /\ Reasons

(* The names of the functions, of the errors and of groups of variables are *)
(* never more than abbreviations.                                           *)
USE AddrsAssumption, HostsAssumption
USE DEF called, address, errors, Addrs, Functions, Resolves, Connecting, Binding,
        Single, Checks, Throws, Timed, Plain, UsesNonb, UsesTimeo, Errnos, Failed,
        SysError, GaiError, NoError

LEMMA AddrsAreNumbers ==
  ASSUME TypeOK
  PROVE  \E n \in Nat \ {0} : Addrs = 1 .. n
  BY DEF TypeOK, MaxOf

(* connect() leaves a code in errno, and what it is hangs on the address only. *)
LEMMA RefusalIsErrno == Refusal \in Failed \cup {"none", "EINVAL"}
  BY DEF Refusal

LEMMA RefusalKept ==
  ASSUME UNCHANGED <<called, address, res>>
  PROVE  Refusal' = Refusal /\ Acceptable' = Acceptable
  BY DEF Refusal, Acceptable, KernelTakes

(* An address that has been given up stays so, whatever the call does next. *)
LEMMA ExcusedKept ==
  ASSUME UNCHANGED <<called, address>>, NEW a \in Addrs, tried'[a] = tried[a], Excused(a)
  PROVE  Excused(a)'
  BY DEF Excused, Acceptable, KernelTakes

----------------------------------------------------------------------------
(* Each action preserves the invariant.  Attempt is a step only where a     *)
(* blocking socket is connected or bound.                                   *)

LEMMA ResolveStep == ASSUME IInv, Resolve PROVE IInv'
  <1>1. TypeOK'
    BY DEF IInv, TypeOK, Resolve
  <1>2. Control'
    BY DEF IInv, Control, Resolve
  <1>3. Sockets'
    BY AddrsAreNumbers DEF IInv, TypeOK, Control, Sockets, Resolve
  <1>4. ListHeld'
    BY DEF IInv, Control, ListHeld, Resolve
  <1>5. GivenUp'
    BY AddrsAreNumbers
       DEF IInv, TypeOK, Control, Sockets, GivenUp, Excused, Acceptable, KernelTakes,
           AddressPort, Resolve
  <1>6. Reasons'
    BY DEF IInv, TypeOK, Control, Sockets, Reasons, Explains, Refusal, Acceptable,
           KernelTakes, NetworkLayerType, Resolve
  <1> QED BY <1>1, <1>2, <1>3, <1>4, <1>5, <1>6 DEF IInv

LEMMA ResolveExpiresStep == ASSUME IInv, ResolveExpires PROVE IInv'
  <1>1. TypeOK'
    BY DEF IInv, TypeOK, ResolveExpires
  <1>2. Control'
    BY DEF IInv, Control, ResolveExpires
  <1>3. Sockets'
    BY AddrsAreNumbers DEF IInv, TypeOK, Control, Sockets, ResolveExpires
  <1>4. ListHeld'
    BY DEF IInv, Control, ListHeld, ResolveExpires
  <1>5. GivenUp'
    BY AddrsAreNumbers
       DEF IInv, TypeOK, Control, Sockets, GivenUp, Excused, Acceptable, KernelTakes,
           AddressPort, ResolveExpires
  <1>6. Reasons'
    BY DEF IInv, TypeOK, Control, Sockets, Reasons, Explains, Refusal, Acceptable,
           KernelTakes, NetworkLayerType, ResolveExpires
  <1> QED BY <1>1, <1>2, <1>3, <1>4, <1>5, <1>6 DEF IInv

LEMMA CreateSocketStep == ASSUME IInv, CreateSocket PROVE IInv'
  <1>1. TypeOK'
    BY DEF IInv, TypeOK, CreateSocket, Sock
  <1>2. Control'
    BY DEF IInv, Control, CreateSocket, Sock
  <1>3. Sockets'
    BY AddrsAreNumbers DEF IInv, TypeOK, Control, Sockets, CreateSocket, Sock
  <1>4. ListHeld'
    BY DEF IInv, Control, ListHeld, CreateSocket, Sock
  <1>5. GivenUp'
    BY AddrsAreNumbers
       DEF IInv, TypeOK, Control, Sockets, GivenUp, Excused, Acceptable, KernelTakes,
           AddressPort, CreateSocket, Sock
  <1>6. Reasons'
    BY DEF IInv, TypeOK, Control, Sockets, Reasons, Explains, Refusal, Acceptable,
           KernelTakes, NetworkLayerType, CreateSocket, Sock
  <1> QED BY <1>1, <1>2, <1>3, <1>4, <1>5, <1>6 DEF IInv

LEMMA SocketFailsStep == ASSUME IInv, SocketFails PROVE IInv'
  <1>1. TypeOK'
    BY DEF IInv, TypeOK, SocketFails, Note, Reported, NextAddress, ListAfterFailure
  <1>2. Control'
    BY DEF IInv, Control, SocketFails, Note, Reported, NextAddress, ListAfterFailure
  <1>3. Sockets'
    BY AddrsAreNumbers
       DEF IInv, TypeOK, Control, Sockets, SocketFails, Note, Reported, NextAddress,
           ListAfterFailure
  <1>4. ListHeld'
    BY DEF IInv, Control, ListHeld, SocketFails, Note, Reported, NextAddress, ListAfterFailure
  <1>5. GivenUp'
    BY AddrsAreNumbers
       DEF IInv, TypeOK, Control, Sockets, GivenUp, Excused, Acceptable, KernelTakes,
           AddressPort, SocketFails, Note, Reported, NextAddress, ListAfterFailure
  <1>6. Reasons'
    BY DEF IInv, TypeOK, Control, Sockets, Reasons, Explains, Refusal, Acceptable,
           KernelTakes, NetworkLayerType, SocketFails, Note, Reported, NextAddress,
           ListAfterFailure
  <1> QED BY <1>1, <1>2, <1>3, <1>4, <1>5, <1>6 DEF IInv

LEMMA AttemptStep == ASSUME IInv, Attempt, function \in Plain \cup Throws PROVE IInv'
  <1>1. TypeOK'
    BY RefusalIsErrno DEF IInv, TypeOK, Attempt, Note, Sock, Reported
  <1>2. Control'
    BY DEF IInv, Control, Attempt, Note, Sock, Reported
  <1>3. Sockets'
    BY AddrsAreNumbers DEF IInv, TypeOK, Control, Sockets, Attempt, Note, Sock, Reported
  <1>4. ListHeld'
    BY DEF IInv, Control, ListHeld, Attempt, Note, Sock, Reported
  <1>5. GivenUp'
    <2>1. /\ UNCHANGED <<called, address, res>> /\ res \in Addrs
          /\ \A a \in Addrs : a # res => tried'[a] = tried[a]
          /\ tried'[res] = "called"
          /\ pc' = "close" => Refusal # "none"
          /\ pc' \in {"found", "close"}
          /\ function \notin Timed
      BY DEF IInv, TypeOK, Attempt, Note
    <2>2. Acceptable' = Acceptable /\ AddressPort(addr)' = AddressPort(addr)
      BY <2>1, RefusalKept DEF AddressPort
    <2>3. \A a \in Addrs : a < res => Excused(a)'
      <3> SUFFICES ASSUME NEW a \in Addrs, a < res PROVE Excused(a)'
        OBVIOUS
      <3>1. a # res /\ Excused(a)
        BY AddrsAreNumbers DEF IInv, TypeOK, GivenUp
      <3> QED BY <2>1, <3>1, ExcusedKept
    <2>4. \A a \in Addrs : res < a => tried'[a] = "untried"
      BY <2>1, AddrsAreNumbers DEF IInv, TypeOK, GivenUp
    <2>5. Refusal # "none" => ~Acceptable \/ answers[res] \notin {"now", "late"}
      BY DEF Refusal
    <2>6. pc' = "close" => Excused(res)'
      BY <2>1, <2>2, <2>5 DEF Excused
    <2> QED BY <2>1, <2>2, <2>3, <2>4, <2>6 DEF IInv, GivenUp
  <1>6. Reasons'
    <2>1. Refusal' = Refusal
      BY RefusalKept DEF Attempt, Note
    <2>2. CASE Refusal = "none"
      <3>1. /\ UNCHANGED <<function, thrown>>
            /\ pc' = "found" /\ pc = "try"
        BY <2>2 DEF Attempt, Note
      <3> QED BY <3>1 DEF IInv, Reasons
    <2>3. CASE Refusal # "none"
      <3>1. /\ pc' = "close" /\ pc = "try" /\ UNCHANGED function
            /\ errno' = Refusal /\ socks'[res'] = "failed"
            /\ function = "library" => ec' = SysError(Refusal) /\ thrown' = thrown
            /\ function = "numeric" => thrown' = SysError(Refusal)
            /\ function \notin Throws => thrown' = thrown
        BY <2>3 DEF IInv, TypeOK, Attempt, Note, Sock, Reported
      <3>2. tried'[res'] = "called" /\ function' \notin Timed
        BY DEF IInv, TypeOK, Attempt, Note
      <3>3. /\ function \in Plain => Explains(errno)'
            /\ function = "library" => Explains(ec.code)'
            /\ function = "numeric" => Explains(thrown.code)'
        BY <2>1, <3>1, <3>2 DEF Explains
      <3> QED BY <3>1, <3>3 DEF IInv, Reasons
    <2> QED BY <2>2, <2>3
  <1> QED BY <1>1, <1>2, <1>3, <1>4, <1>5, <1>6 DEF IInv

LEMMA FoundStep == ASSUME IInv, Found PROVE IInv'
  <1>1. TypeOK'
    BY DEF IInv, TypeOK, Found
  <1>2. Control'
    BY DEF IInv, Control, Found
  <1>3. Sockets'
    BY AddrsAreNumbers DEF IInv, TypeOK, Control, Sockets, Found
  <1>4. ListHeld'
    BY DEF IInv, Control, ListHeld, Found
  <1>5. GivenUp'
    BY AddrsAreNumbers
       DEF IInv, TypeOK, Control, Sockets, GivenUp, Excused, Acceptable, KernelTakes,
           AddressPort, Found
  <1>6. Reasons'
    BY DEF IInv, TypeOK, Control, Sockets, Reasons, Explains, Refusal, Acceptable,
           KernelTakes, NetworkLayerType, Found
  <1> QED BY <1>1, <1>2, <1>3, <1>4, <1>5, <1>6 DEF IInv

LEMMA CloseAndGoOnStep == ASSUME IInv, CloseAndGoOn PROVE IInv'
  <1>1. TypeOK'
    BY DEF IInv, TypeOK, CloseAndGoOn, Sock, NextAddress, ListAfterFailure
  <1>2. Control'
    BY DEF IInv, Control, CloseAndGoOn, Sock, NextAddress, ListAfterFailure
  <1>3. Sockets'
    BY AddrsAreNumbers
       DEF IInv, TypeOK, Control, Sockets, CloseAndGoOn, Sock, NextAddress,
           ListAfterFailure
  <1>4. ListHeld'
    BY DEF IInv, Control, ListHeld, CloseAndGoOn, Sock, NextAddress, ListAfterFailure
  <1>5. GivenUp'
    BY AddrsAreNumbers
       DEF IInv, TypeOK, Control, Sockets, GivenUp, Excused, Acceptable, KernelTakes,
           AddressPort, CloseAndGoOn, Sock, NextAddress, ListAfterFailure
  <1>6. Reasons'
    BY DEF IInv, TypeOK, Control, Sockets, Reasons, Explains, Refusal, Acceptable,
           KernelTakes, NetworkLayerType, CloseAndGoOn, Sock, NextAddress,
           ListAfterFailure
  <1> QED BY <1>1, <1>2, <1>3, <1>4, <1>5, <1>6 DEF IInv

LEMMA LibraryThrowsStep == ASSUME IInv, LibraryThrows PROVE IInv'
  <1>1. TypeOK'
    BY DEF IInv, TypeOK, LibraryThrows
  <1>2. Control'
    BY DEF IInv, Control, LibraryThrows
  <1>3. Sockets'
    BY AddrsAreNumbers DEF IInv, TypeOK, Control, Sockets, LibraryThrows
  <1>4. ListHeld'
    BY DEF IInv, Control, ListHeld, LibraryThrows
  <1>5. GivenUp'
    BY AddrsAreNumbers
       DEF IInv, TypeOK, Control, Sockets, GivenUp, Excused, Acceptable, KernelTakes,
           AddressPort, LibraryThrows
  <1>6. Reasons'
    BY DEF IInv, TypeOK, Control, Sockets, Reasons, Explains, Refusal, Acceptable,
           KernelTakes, NetworkLayerType, LibraryThrows
  <1> QED BY <1>1, <1>2, <1>3, <1>4, <1>5, <1>6 DEF IInv

LEMMA UseAddressStep == ASSUME IInv, UseAddress PROVE IInv'
  <1>1. TypeOK'
    BY DEF IInv, TypeOK, UseAddress
  <1>2. Control'
    BY DEF IInv, Control, UseAddress
  <1>3. Sockets'
    BY AddrsAreNumbers DEF IInv, TypeOK, Control, Sockets, UseAddress
  <1>4. ListHeld'
    BY DEF IInv, Control, ListHeld, UseAddress
  <1>5. GivenUp'
    BY AddrsAreNumbers
       DEF IInv, TypeOK, Control, Sockets, GivenUp, Excused, Acceptable, KernelTakes,
           AddressPort, UseAddress
  <1>6. Reasons'
    BY DEF IInv, TypeOK, Control, Sockets, Reasons, Explains, Refusal, Acceptable,
           KernelTakes, NetworkLayerType, UseAddress
  <1> QED BY <1>1, <1>2, <1>3, <1>4, <1>5, <1>6 DEF IInv

LEMMA StartNonblockingStep == ASSUME IInv, StartNonblocking PROVE IInv'
  <1>1. TypeOK'
    BY DEF IInv, TypeOK, StartNonblocking, Note, Sock
  <1>2. Control'
    BY DEF IInv, Control, StartNonblocking, Note, Sock
  <1>3. Sockets'
    BY AddrsAreNumbers DEF IInv, TypeOK, Control, Sockets, StartNonblocking, Note, Sock
  <1>4. ListHeld'
    BY DEF IInv, Control, ListHeld, StartNonblocking, Note, Sock
  <1>5. GivenUp'
    BY AddrsAreNumbers
       DEF IInv, TypeOK, Control, Sockets, GivenUp, Excused, Acceptable, KernelTakes,
           AddressPort, StartNonblocking, Note, Sock
  <1>6. Reasons'
    BY DEF IInv, TypeOK, Control, Sockets, Reasons, Explains, Refusal, Acceptable,
           KernelTakes, NetworkLayerType, StartNonblocking, Note, Sock
  <1> QED BY <1>1, <1>2, <1>3, <1>4, <1>5, <1>6 DEF IInv

LEMMA SelectFailsStep == ASSUME IInv, SelectFails PROVE IInv'
  <1>1. TypeOK'
    BY DEF IInv, TypeOK, SelectFails, Note
  <1>2. Control'
    BY DEF IInv, Control, SelectFails, Note
  <1>3. Sockets'
    BY AddrsAreNumbers DEF IInv, TypeOK, Control, Sockets, SelectFails, Note
  <1>4. ListHeld'
    BY DEF IInv, Control, ListHeld, SelectFails, Note
  <1>5. GivenUp'
    BY AddrsAreNumbers
       DEF IInv, TypeOK, Control, Sockets, GivenUp, Excused, Acceptable, KernelTakes,
           AddressPort, SelectFails, Note
  <1>6. Reasons'
    BY DEF IInv, TypeOK, Control, Sockets, Reasons, Explains, Refusal, Acceptable,
           KernelTakes, NetworkLayerType, SelectFails, Note
  <1> QED BY <1>1, <1>2, <1>3, <1>4, <1>5, <1>6 DEF IInv

LEMMA ConnectNonbAnsweredStep == ASSUME IInv, ConnectNonbAnswered PROVE IInv'
  <1>1. TypeOK'
    BY DEF IInv, TypeOK, ConnectNonbAnswered
  <1>2. Control'
    BY DEF IInv, Control, ConnectNonbAnswered
  <1>3. Sockets'
    BY AddrsAreNumbers DEF IInv, TypeOK, Control, Sockets, ConnectNonbAnswered
  <1>4. ListHeld'
    BY DEF IInv, Control, ListHeld, ConnectNonbAnswered
  <1>5. GivenUp'
    BY AddrsAreNumbers
       DEF IInv, TypeOK, Control, Sockets, GivenUp, Excused, Acceptable, KernelTakes,
           AddressPort, ConnectNonbAnswered
  <1>6. Reasons'
    BY DEF IInv, TypeOK, Control, Sockets, GivenUp, Reasons, Explains, Refusal, Acceptable,
           KernelTakes, NetworkLayerType, ConnectNonbAnswered
  <1> QED BY <1>1, <1>2, <1>3, <1>4, <1>5, <1>6 DEF IInv

LEMMA ConnectNonbExpiresStep == ASSUME IInv, ConnectNonbExpires PROVE IInv'
  <1>1. TypeOK'
    BY DEF IInv, TypeOK, ConnectNonbExpires
  <1>2. Control'
    BY DEF IInv, Control, ConnectNonbExpires
  <1>3. Sockets'
    BY AddrsAreNumbers DEF IInv, TypeOK, Control, Sockets, ConnectNonbExpires
  <1>4. ListHeld'
    BY DEF IInv, Control, ListHeld, ConnectNonbExpires
  <1>5. GivenUp'
    BY AddrsAreNumbers
       DEF IInv, TypeOK, Control, Sockets, GivenUp, Excused, Acceptable, KernelTakes,
           AddressPort, ConnectNonbExpires
  <1>6. Reasons'
    BY DEF IInv, TypeOK, Control, Sockets, Reasons, Explains, Refusal, Acceptable,
           KernelTakes, NetworkLayerType, ConnectNonbExpires
  <1> QED BY <1>1, <1>2, <1>3, <1>4, <1>5, <1>6 DEF IInv

LEMMA ConnectNonbTimeoutStep == ASSUME IInv, ConnectNonbTimeout PROVE IInv'
  <1>1. TypeOK'
    BY DEF IInv, TypeOK, ConnectNonbTimeout, Sock
  <1>2. Control'
    BY DEF IInv, Control, ConnectNonbTimeout, Sock
  <1>3. Sockets'
    BY AddrsAreNumbers DEF IInv, TypeOK, Control, Sockets, ConnectNonbTimeout, Sock
  <1>4. ListHeld'
    BY DEF IInv, Control, ListHeld, ConnectNonbTimeout, Sock
  <1>5. GivenUp'
    BY AddrsAreNumbers
       DEF IInv, TypeOK, Control, Sockets, GivenUp, Excused, Acceptable, KernelTakes,
           AddressPort, ConnectNonbTimeout, Sock
  <1>6. Reasons'
    BY DEF IInv, TypeOK, Control, Sockets, GivenUp, Reasons, Explains, Refusal, Acceptable,
           KernelTakes, NetworkLayerType, ConnectNonbTimeout, Sock
  <1> QED BY <1>1, <1>2, <1>3, <1>4, <1>5, <1>6 DEF IInv

LEMMA ConnectNonbReturnsStep == ASSUME IInv, ConnectNonbReturns PROVE IInv'
  <1>1. TypeOK'
    BY DEF IInv, TypeOK, ConnectNonbReturns, Sock, ListAfterFailure
  <1>2. Control'
    BY DEF IInv, Control, ConnectNonbReturns, Sock, ListAfterFailure
  <1>3. Sockets'
    BY AddrsAreNumbers
       DEF IInv, TypeOK, Control, Sockets, ConnectNonbReturns, Sock,
           ListAfterFailure
  <1>4. ListHeld'
    BY DEF IInv, Control, ListHeld, ConnectNonbReturns, Sock, ListAfterFailure
  <1>5. GivenUp'
    BY AddrsAreNumbers
       DEF IInv, TypeOK, Control, Sockets, GivenUp, Excused, Acceptable, KernelTakes,
           AddressPort, ConnectNonbReturns, Sock, ListAfterFailure
  <1>6. Reasons'
    BY DEF IInv, TypeOK, Control, Sockets, Reasons, Explains, Refusal, Acceptable,
           KernelTakes, NetworkLayerType, ConnectNonbReturns, Sock, ListAfterFailure
  <1> QED BY <1>1, <1>2, <1>3, <1>4, <1>5, <1>6 DEF IInv

LEMMA ConnectTimeoSelectsStep == ASSUME IInv, ConnectTimeoSelects PROVE IInv'
  <1>1. TypeOK'
    BY DEF IInv, TypeOK, ConnectTimeoSelects
  <1>2. Control'
    BY DEF IInv, Control, ConnectTimeoSelects
  <1>3. Sockets'
    BY AddrsAreNumbers DEF IInv, TypeOK, Control, Sockets, ConnectTimeoSelects
  <1>4. ListHeld'
    BY DEF IInv, Control, ListHeld, ConnectTimeoSelects
  <1>5. GivenUp'
    BY AddrsAreNumbers
       DEF IInv, TypeOK, Control, Sockets, GivenUp, Excused, Acceptable, KernelTakes,
           AddressPort, ConnectTimeoSelects
  <1>6. Reasons'
    BY DEF IInv, TypeOK, Control, Sockets, Reasons, Explains, Refusal, Acceptable,
           KernelTakes, NetworkLayerType, ConnectTimeoSelects
  <1> QED BY <1>1, <1>2, <1>3, <1>4, <1>5, <1>6 DEF IInv

LEMMA ConnectTimeoReturnsStep == ASSUME IInv, ConnectTimeoReturns PROVE IInv'
  <1>1. TypeOK'
    BY DEF IInv, TypeOK, ConnectTimeoReturns
  <1>2. Control'
    BY DEF IInv, Control, ConnectTimeoReturns
  <1>3. Sockets'
    BY AddrsAreNumbers DEF IInv, TypeOK, Control, Sockets, ConnectTimeoReturns
  <1>4. ListHeld'
    BY DEF IInv, Control, ListHeld, ConnectTimeoReturns
  <1>5. GivenUp'
    BY AddrsAreNumbers
       DEF IInv, TypeOK, Control, Sockets, GivenUp, Excused, Acceptable, KernelTakes,
           AddressPort, ConnectTimeoReturns
  <1>6. Reasons'
    BY DEF IInv, TypeOK, Control, Sockets, Reasons, Explains, Refusal, Acceptable,
           KernelTakes, NetworkLayerType, ConnectTimeoReturns
  <1> QED BY <1>1, <1>2, <1>3, <1>4, <1>5, <1>6 DEF IInv

LEMMA NetworkAnswersStep == ASSUME IInv, NetworkAnswers PROVE IInv'
  <1>1. TypeOK'
    BY DEF IInv, TypeOK, NetworkAnswers, Note, Sock
  <1>2. Control'
    BY DEF IInv, Control, NetworkAnswers, Note, Sock
  <1>3. Sockets'
    BY AddrsAreNumbers DEF IInv, TypeOK, Control, Sockets, NetworkAnswers, Note, Sock
  <1>4. ListHeld'
    BY DEF IInv, Control, ListHeld, NetworkAnswers, Note, Sock
  <1>5. GivenUp'
    <2>1. /\ UNCHANGED <<called, address, res, pc, error, ret>> /\ res \in Addrs
          /\ \A a \in Addrs : a # res => tried'[a] = tried[a]
          /\ tried'[res] = IF pc = "wait" /\ timer = "running" THEN "answered" ELSE tried[res]
          /\ socks'[res] = IF answers[res] = "late" THEN "ready" ELSE "failed"
          /\ socks[res] = "connecting" /\ answers[res] # "silent"
      BY DEF IInv, TypeOK, NetworkAnswers, Note, Sock
    <2>2. \A a \in Addrs : Excused(a) /\ tried'[a] = tried[a] => Excused(a)'
      BY <2>1, ExcusedKept
    <2>3. \A a \in Addrs : a < res => Excused(a)'
      BY <2>1, <2>2, AddrsAreNumbers DEF IInv, TypeOK, GivenUp
    <2>4. \A a \in Addrs : res < a => tried'[a] = "untried"
      BY <2>1, AddrsAreNumbers DEF IInv, TypeOK, GivenUp
    <2>5. pc # "wait" => tried'[res] = tried[res] /\ (Excused(res) => Excused(res)')
      BY <2>1, <2>2
    <2>6. pc = "wait" => answers[res] \in {"late", "refused_late"}
      <3>1. PICK n \in 1 .. MaxOf(function) : answers \in [1 .. n -> AnswersTo(function)]
        BY DEF IInv, TypeOK
      <3>2. answers[res] \in AnswersTo(function)
        BY <2>1, <3>1
      <3>3. answers[res] \in Answers
        BY <3>2 DEF AnswersTo, Answers
      <3>4. pc = "wait" => answers[res] \notin {"now", "refused"}
        BY DEF IInv, GivenUp
      <3> QED BY <2>1, <3>3, <3>4 DEF Answers
    <2>7. AddressPort(addr)' = AddressPort(addr)
      BY <2>1 DEF AddressPort
    <2>8. function \in Single => (Excused(1) => Excused(1)') \/ pc = "wait"
      BY <2>1, <2>5 DEF IInv, GivenUp
    <2> QED BY <2>1, <2>3, <2>4, <2>5, <2>6, <2>7, <2>8 DEF IInv, GivenUp
  <1>6. Reasons'
    BY DEF IInv, TypeOK, Control, Sockets, Reasons, Explains, Refusal, Acceptable,
           KernelTakes, NetworkLayerType, NetworkAnswers, Note, Sock
  <1> QED BY <1>1, <1>2, <1>3, <1>4, <1>5, <1>6 DEF IInv

LEMMA TimeRunsOutStep == ASSUME IInv, TimeRunsOut PROVE IInv'
  <1>1. TypeOK'
    BY DEF IInv, TypeOK, TimeRunsOut
  <1>2. Control'
    BY DEF IInv, Control, TimeRunsOut
  <1>3. Sockets'
    BY AddrsAreNumbers DEF IInv, TypeOK, Control, Sockets, TimeRunsOut
  <1>4. ListHeld'
    BY DEF IInv, Control, ListHeld, TimeRunsOut
  <1>5. GivenUp'
    BY AddrsAreNumbers
       DEF IInv, TypeOK, Control, Sockets, GivenUp, Excused, Acceptable, KernelTakes,
           AddressPort, TimeRunsOut
  <1>6. Reasons'
    BY DEF IInv, TypeOK, Control, Sockets, Reasons, Explains, Refusal, Acceptable,
           KernelTakes, NetworkLayerType, TimeRunsOut
  <1> QED BY <1>1, <1>2, <1>3, <1>4, <1>5, <1>6 DEF IInv

(* tcp_listen() gives up in the middle. *)
LEMMA QuitStep ==
  ASSUME IInv, pc \in {"try", "found"}, pc' = "quit", function = "tcp_listen",
         UNCHANGED <<called, tried, address, list, res, socks, nonblock, timer, error, ret, errors>>
  PROVE  IInv'
  <1>1. TypeOK' /\ Control' /\ Sockets' /\ ListHeld'
    BY DEF IInv, TypeOK, Control, Sockets, ListHeld
  <1>2. GivenUp'
    BY RefusalKept DEF IInv, GivenUp, Excused, AddressPort
  <1>3. Reasons'
    BY DEF IInv, Reasons
  <1> QED BY <1>1, <1>2, <1>3 DEF IInv

(* What the operations of a SocketAddress return. *)
LEMMA AddressPortOf ==
  ASSUME NEW a \in SocketAddresses, a.family \in Families
  PROVE  AddressPort(a) = IF a.family = "v4" THEN <<"v4", a.v4, a.port>> ELSE <<"v6", a.v6, a.port>>
  <1>1. AddressPort(a) = <<a.family, a[a.family], a.port>>
    BY DEF AddressPort, Families
  <1>2. a["v4"] = a.v4 /\ a["v6"] = a.v6
    OBVIOUS
  <1> QED BY <1>1, <1>2 DEF Families

LEMMA SetAddressPortMakes ==
  ASSUME NEW a \in SocketAddresses, NEW text \in Texts, NEW port \in Hosts
  PROVE  /\ SetAddressPort(a, text, port) \in SocketAddresses
         /\ IsAddress(text) =>
              /\ <<text[1], text[2], port>> \in Families \X Hosts \X Hosts
              /\ AddressPort(SetAddressPort(a, text, port)) = <<text[1], text[2], port>>
  <1> DEFINE b == SetAddressPort(a, text, port)
  <1>1. CASE IsAddress(text)
    <2>1. PICK f \in Families, h \in Hosts : text = <<f, h>>
      <3>1. text # <<"invalid", 0>>
        BY <1>1 DEF IsAddress, Families
      <3>2. text \in Families \X Hosts
        BY <3>1 DEF Texts
      <3>3. text = <<text[1], text[2]>> /\ text[1] \in Families /\ text[2] \in Hosts
        BY <3>2
      <3> QED BY <3>3
    <2>2. text[1] = f /\ text[2] = h
      BY <2>1
    <2>3. CASE f = "v4"
      <3>1. b = [a EXCEPT !.family = "v4", !.v4 = h, !.port = port]
        BY <2>1, <2>3 DEF SetAddressPort
      <3>2. b \in SocketAddresses /\ b.family = "v4" /\ b.v4 = h /\ b.port = port
        BY <3>1 DEF SocketAddresses, Families
      <3> QED BY <2>2, <2>3, <3>2, AddressPortOf DEF Families
    <2>4. CASE f = "v6"
      <3>1. b = [a EXCEPT !.family = "v6", !.v6 = h, !.port = port]
        BY <2>1, <2>4 DEF SetAddressPort
      <3>2. b \in SocketAddresses /\ b.family = "v6" /\ b.v6 = h /\ b.port = port
        BY <3>1 DEF SocketAddresses, Families
      <3> QED BY <2>2, <2>4, <3>2, AddressPortOf DEF Families
    <2> QED BY <2>3, <2>4 DEF Families
  <1>2. CASE ~IsAddress(text)
    BY <1>2 DEF SetAddressPort, SocketAddresses, Texts, IsAddress, Families
  <1> QED BY <1>1, <1>2

LEMMA FromSockaddrMakes ==
  ASSUME NEW family \in Families, NEW host \in Hosts, NEW port \in Hosts
  PROVE  /\ FromSockaddr(family, host, port) \in SocketAddresses
         /\ AddressPort(FromSockaddr(family, host, port)) = <<family, host, port>>
  <1> DEFINE text == <<family, host>>
             e == SetAddressPort(EmptyAddress, text, port)
             a == FromSockaddr(family, host, port)
  <1>1. EmptyAddress \in SocketAddresses
    BY DEF EmptyAddress, SocketAddresses, SizeOf
  <1>2. text \in Texts /\ IsAddress(text) /\ text[1] = family /\ text[2] = host
    BY DEF Texts, IsAddress
  <1> HIDE DEF text
  <1>3. e \in SocketAddresses /\ AddressPort(e) = <<family, host, port>>
    BY <1>1, <1>2, SetAddressPortMakes
  <1>4. SizeOf[family] \in {SizeOf[s] : s \in DOMAIN SizeOf}
    BY DEF SizeOf, Families
  <1> HIDE DEF e
  <1>5. a = [e EXCEPT !.len = SizeOf[family]]
    BY DEF FromSockaddr, e, text
  <1>6. /\ a \in SocketAddresses
        /\ a.family = e.family /\ a.v4 = e.v4 /\ a.v6 = e.v6 /\ a.port = e.port
    BY <1>3, <1>4, <1>5 DEF SocketAddresses
  <1>7. e.family \in Families
    BY <1>3 DEF AddressPort, SocketAddresses
  <1> QED BY <1>3, <1>6, <1>7, AddressPortOf

(* Before the socket is created nothing but the address can change. *)
LEMMA AddressStep ==
  ASSUME IInv, pc = "address",
         addr' \in SocketAddresses, sets' \in 0 .. MaxSets,
         asked' \in {<<>>} \cup (Families \X Hosts \X Hosts),
         asked' # <<>> => AddressPort(addr') = asked',
         UNCHANGED <<called, tried, list, res, socks, nonblock, timer, error, ret, errno, ec>>,
         \/ UNCHANGED <<thrown, pc>>
         \/ pc' = "quit" /\ thrown' = SysError(errno)
  PROVE  IInv'
  <1>1. TypeOK'
    <2>1. TypeOK /\ errno \in Errnos
      BY DEF IInv, TypeOK
    <2>2. thrown' \in {NoError, GaiError} \cup {SysError(e) : e \in Errnos} /\ pc' \in {pc, "quit"}
      BY <2>1 DEF TypeOK
    <2> QED BY <2>1, <2>2 DEF TypeOK
  <1>2. Control' /\ ListHeld'
    BY DEF IInv, Control, ListHeld
  <1>3. Sockets'
    BY DEF IInv, Control, Sockets
  <1>4. GivenUp'
    <2>1. res = 1 /\ Addrs = {1}
      BY DEF IInv, Control
    <2> QED BY <2>1 DEF IInv, Control, GivenUp, AddressPort
  <1>5. Reasons'
    BY DEF IInv, Control, Reasons
  <1> QED BY <1>1, <1>2, <1>3, <1>4, <1>5 DEF IInv

LEMMA ConstructAddressStep == ASSUME IInv, ConstructAddress PROVE IInv'
  <1>1. PICK text \in Texts, port \in Hosts :
          /\ addr' = SetAddressPort(addr, text, port)
          /\ IF IsAddress(text)
             THEN asked' = <<text[1], text[2], port>> /\ UNCHANGED <<thrown, pc>>
             ELSE asked' = <<>> /\ thrown' = SysError(errno) /\ pc' = "quit"
    BY DEF ConstructAddress
  <1>2. addr \in SocketAddresses /\ sets \in 0 .. MaxSets
    BY DEF IInv, TypeOK
  <1>3. /\ addr' \in SocketAddresses
        /\ asked' \in {<<>>} \cup (Families \X Hosts \X Hosts)
        /\ asked' # <<>> => AddressPort(addr') = asked'
    BY <1>1, <1>2, SetAddressPortMakes
  <1>4. pc = "address" /\ UNCHANGED <<called, tried, sets, list, res, socks, nonblock, timer, error, ret, errno, ec>>
    BY DEF ConstructAddress
  <1>5. UNCHANGED <<thrown, pc>> \/ (pc' = "quit" /\ thrown' = SysError(errno))
    BY <1>1
  <1> QED BY <1>2, <1>3, <1>4, <1>5, AddressStep

LEMMA SetAddressStep == ASSUME IInv, SetAddress PROVE IInv'
  <1>1. PICK text \in Texts, port \in Hosts :
          /\ addr' = SetAddressPort(addr, text, port)
          /\ asked' = IF IsAddress(text) THEN <<text[1], text[2], port>> ELSE <<>>
    BY DEF SetAddress
  <1>2. addr \in SocketAddresses /\ sets' \in 0 .. MaxSets
    BY DEF IInv, TypeOK, SetAddress
  <1>3. /\ addr' \in SocketAddresses
        /\ asked' \in {<<>>} \cup (Families \X Hosts \X Hosts)
        /\ asked' # <<>> => AddressPort(addr') = asked'
    BY <1>1, <1>2, SetAddressPortMakes
  <1> QED BY <1>2, <1>3, AddressStep DEF SetAddress

LEMMA TakeAddressStep == ASSUME IInv, TakeAddress PROVE IInv'
  <1>1. PICK family \in Families, host \in Hosts, port \in Hosts :
          /\ addr' = FromSockaddr(family, host, port)
          /\ asked' = <<family, host, port>>
    BY DEF TakeAddress
  <1>2. sets' \in 0 .. MaxSets
    BY DEF IInv, TypeOK, TakeAddress
  <1>3. /\ addr' \in SocketAddresses
        /\ asked' \in {<<>>} \cup (Families \X Hosts \X Hosts)
        /\ AddressPort(addr') = asked'
    BY <1>1, FromSockaddrMakes
  <1> QED BY <1>2, <1>3, AddressStep DEF TakeAddress

----------------------------------------------------------------------------
(* The invariant. *)

LEMMA InitIInv == Init => IInv
  <1> SUFFICES ASSUME Init PROVE IInv
    OBVIOUS
  <1>1. TypeOK
    BY DEF Init, TypeOK, MaxOf, EmptyAddress, SocketAddresses, SizeOf
  <1>2. Control
    BY DEF Init, Control, MaxOf
  <1>3. Sockets /\ ListHeld /\ GivenUp /\ Reasons
    BY AddrsAreNumbers, <1>1 DEF Init, Sockets, ListHeld, GivenUp, Reasons, TypeOK
  <1> QED BY <1>1, <1>2, <1>3 DEF IInv

LEMMA NextIInv == IInv /\ [Next]_vars => IInv'
  <1> SUFFICES ASSUME IInv, [Next]_vars PROVE IInv'
    OBVIOUS
  <1>1. CASE Resolve BY <1>1, ResolveStep
  <1>2. CASE ResolveExpires BY <1>2, ResolveExpiresStep
  <1>3. CASE CreateSocket BY <1>3, CreateSocketStep
  <1>4. CASE SocketFails BY <1>4, SocketFailsStep
  <1>5. CASE TcpConnect \/ UdpConnect \/ UdpServer \/ LibraryConnect \/ NumericConnect
    BY <1>5, AttemptStep
       DEF TcpConnect, UdpConnect, UdpServer, LibraryConnect, NumericConnect
  <1>6. CASE TcpListen BY <1>6, AttemptStep, QuitStep DEF TcpListen
  <1>7. CASE LibraryThrows BY <1>7, LibraryThrowsStep
  <1>8. CASE ConstructAddress BY <1>8, ConstructAddressStep
  <1>9. CASE SetAddress BY <1>9, SetAddressStep
  <1>10. CASE TakeAddress BY <1>10, TakeAddressStep
  <1>11. CASE UseAddress BY <1>11, UseAddressStep
  <1>12. CASE CloseAndGoOn BY <1>12, CloseAndGoOnStep
  <1>13. CASE Found BY <1>13, FoundStep
  <1>14. CASE StartNonblocking BY <1>14, StartNonblockingStep
  <1>15. CASE ConnectNonbAnswered BY <1>15, ConnectNonbAnsweredStep
  <1>16. CASE ConnectNonbExpires BY <1>16, ConnectNonbExpiresStep
  <1>17. CASE ConnectNonbTimeout BY <1>17, ConnectNonbTimeoutStep
  <1>18. CASE ConnectNonbReturns BY <1>18, ConnectNonbReturnsStep
  <1>19. CASE ConnectTimeoSelects BY <1>19, ConnectTimeoSelectsStep
  <1>20. CASE ConnectTimeoReturns BY <1>20, ConnectTimeoReturnsStep
  <1>21. CASE NetworkAnswers BY <1>21, NetworkAnswersStep
  <1>22. CASE TimeRunsOut BY <1>22, TimeRunsOutStep
  <1>23. CASE SelectFails BY <1>23, SelectFailsStep
  <1>24. CASE UNCHANGED vars
    <2>1. UNCHANGED <<called, tried, addr, asked, sets, list, res, socks, nonblock, timer,
                      error, ret, errno, ec, thrown, pc>>
      BY <1>24 DEF vars
    <2>2. TypeOK' /\ Control' /\ Sockets' /\ ListHeld'
      BY <2>1 DEF IInv, TypeOK, Control, Sockets, ListHeld
    <2>3. Refusal' = Refusal /\ Acceptable' = Acceptable
      BY <2>1, RefusalKept
    <2>4. GivenUp' /\ Reasons'
      BY <2>1, <2>3 DEF IInv, GivenUp, Excused, AddressPort, Reasons, Explains
    <2> QED BY <2>2, <2>4 DEF IInv
  <1> QED
    BY <1>1, <1>2, <1>3, <1>4, <1>5, <1>6, <1>7, <1>8, <1>9, <1>10, <1>11, <1>12,
       <1>13, <1>14, <1>15, <1>16, <1>17, <1>18, <1>19, <1>20, <1>21, <1>22, <1>23, <1>24
       DEF Next, Process

LEMMA Inductive == Spec => []IInv
  BY InitIInv, NextIInv, PTL DEF Spec

(* Type correctness: for any number of addresses, whatever each answers, the *)
(* loops of tcp_connect.c, udp_connect.c, tcp_listen.c, udp_server.c,        *)
(* tcp_connect_timeo and the library index only addresses there are, and     *)
(* their locals have the values their callers look for.                      *)
THEOREM TypeCorrect == Spec => []TypeOK
  <1>1. IInv => TypeOK
    BY DEF IInv
  <1> QED BY <1>1, Inductive, PTL

(* A call returns its one socket connected or bound and blocking, has closed *)
(* every other it made, all of them when it fails, and the library and       *)
(* tcpcheck have freed the resolver's list, which nothing has freed before   *)
(* the loop is over.                                                         *)
THEOREM NothingIsLeft == Spec => []NothingElseLeft
  <1>1. IInv => NothingElseLeft
    <2> SUFFICES ASSUME IInv PROVE NothingElseLeft
      OBVIOUS
    <2>1. ASSUME pc = "returned"
          PROVE  /\ socks[res] = "ready" /\ res \notin nonblock /\ list # "held"
                 /\ \A a \in Addrs \ {res} : socks[a] \in {"none", "closed"}
      BY <2>1, AddrsAreNumbers DEF IInv, TypeOK, Sockets, ListHeld
    <2>2. ASSUME pc = "failed"
          PROVE  /\ \A a \in Addrs : socks[a] \in {"none", "closed"}
                 /\ function \in Checks \cup {"library"} => list = "freed"
      BY <2>2, AddrsAreNumbers DEF IInv, TypeOK, Sockets, ListHeld
    <2> QED BY <2>1, <2>2 DEF IInv, ListHeld, NothingElseLeft
  <1> QED BY <1>1, Inductive, PTL

(* Every loop uses the first address that answers: when a call returns, each  *)
(* address before the one in use has been tried and has failed, or there was  *)
(* no socket for it, and none behind has been touched; when it fails, all     *)
(* have been tried.  A late answer counts as one wherever the call waits for  *)
(* it, with a time limit when it comes before the limit runs out.  And a      *)
(* SocketAddress leads where it was last successfully set to lead.            *)
THEOREM FirstIsUsed == Spec => []FirstThatAnswers
  <1>1. IInv => FirstThatAnswers
    <2> SUFFICES ASSUME IInv PROVE FirstThatAnswers
      OBVIOUS
    <2>1. pc = "failed" => \A a \in IF function \in Checks THEN {1} ELSE Addrs : Excused(a)
      <3> SUFFICES ASSUME pc = "failed", NEW a \in IF function \in Checks THEN {1} ELSE Addrs
                   PROVE  Excused(a)
        OBVIOUS
      <3>1. Excused(res) /\ (function \in Checks => res = 1)
        BY DEF IInv, GivenUp
      <3>2. CASE function \in Checks
        BY <3>1, <3>2
      <3>3. CASE function \notin Checks
        <4>1. a \in Addrs /\ res + 1 \notin Addrs /\ res \in Addrs
          BY <3>3 DEF IInv, TypeOK, GivenUp
        <4>2. a < res \/ a = res
          BY <4>1, AddrsAreNumbers DEF IInv
        <4> QED BY <3>1, <4>1, <4>2 DEF IInv, GivenUp
      <3> QED BY <3>2, <3>3
    <2>2. pc = "returned" => /\ tried[res] \in {"called", "answered"}
                             /\ \A a \in Addrs : a < res => Excused(a)
                             /\ \A a \in Addrs : res < a => tried[a] = "untried"
      BY DEF IInv, GivenUp
    <2> QED BY <2>1, <2>2 DEF IInv, GivenUp, FirstThatAnswers
  <1> QED BY <1>1, Inductive, PTL

(* After the last failure errno, the error code or the exception tells why   *)
(* the last address failed, although sockets have been closed in between.    *)
THEOREM ErrnoIsTold == Spec => []ErrnoTellsWhy
  <1>1. IInv => ErrnoTellsWhy
    BY DEF IInv, Reasons, ErrnoTellsWhy
  <1> QED BY <1>1, Inductive, PTL
=============================================================================
