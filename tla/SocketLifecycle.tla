-------------------------- MODULE SocketLifecycle --------------------------
(***************************************************************************)
(* The life of the socket objects of the library: Socket and the four      *)
(* concrete classes derived from it, over the descriptor table of the      *)
(* process.  Each object is used by one thread at a time, as the samples   *)
(* do; threads of different objects interleave at the system calls, and    *)
(* the kernel gives out the lowest free descriptor number.                 *)
(*                                                                         *)
(* pc[o] is the next system call of the member function running on o and   *)
(* task[o] is that function.  A call that fails without changing anything  *)
(* (bind, connect, listen or accept that throws on an idle object) is a    *)
(* stuttering step and has no action.                                      *)
(***************************************************************************)
EXTENDS Integers, FiniteSets

CONSTANTS
  Objs,      \* storage for socket objects
  MaxFd,     \* descriptor limit of the process (RLIMIT_NOFILE)
  Classes,   \* the concrete classes the program uses
  MaxLost    \* bound on how often "new" may fail in accept()

AllClasses == {"TCPSocket", "TCPServerSocket", "UDPSocket", "UDPClientSocket"}

ASSUME LifecycleAssumption ==
  /\ MaxFd \in Nat \ {0}
  /\ MaxLost \in Nat
  /\ Classes \subseteq AllClasses

Fd == 0 .. (MaxFd - 1)
INVALID == -1

Flags == {"bound", "listening", "connected", "rdshut"}
\* Files and pipes of the rest of the process are descriptors of type "other".
KernelEntry == [type : {"free", "other", "STREAM", "DGRAM"}, flags : SUBSET Flags]
FreeEntry == [type |-> "free", flags |-> {}]

Points == {"idle", "shutdown", "close", "reset", "socket", "bind", "listen",
           "connect", "sendto", "accepted"}
Tasks == {"none", "close", "destructor", "open", "constructor", "sendTo", "accept"}

VARIABLES
  cls,        \* the class of the object living in each storage, or "none"
  sockDesc,   \* Socket::sockDesc_
  pc, task,   \* where the thread that uses the object is
  newConnSD,  \* the local variable of TCPServerSocket::accept
  kern,       \* the descriptor table of the process
  lost        \* descriptors abandoned by an accept() that ran out of memory

vars == <<cls, sockDesc, pc, task, newConnSD, kern, lost>>

TypeOK ==
  /\ cls \in [Objs -> AllClasses \cup {"none"}]
  /\ sockDesc \in [Objs -> Fd \cup {INVALID}]
  /\ pc \in [Objs -> Points]
  /\ task \in [Objs -> Tasks]
  /\ newConnSD \in [Objs -> Fd \cup {INVALID}]
  /\ kern \in [Fd -> KernelEntry]
  /\ lost \subseteq Fd

----------------------------------------------------------------------------
(* The kernel. *)

IsSocket(f) == kern[f].type \in {"STREAM", "DGRAM"}

LowestFree(f) == /\ kern[f].type = "free"
                 /\ \A g \in Fd : g < f => kern[g].type # "free"

HasFlag(f, flag) == flag \in kern[f].flags
SetFlags(f, flags) == kern' = [kern EXCEPT ![f].flags = @ \cup flags]

CanBind(f)    == IsSocket(f) /\ ~HasFlag(f, "bound")
CanListen(f)  == kern[f].type = "STREAM" /\ ~HasFlag(f, "connected")
CanConnect(f) == /\ IsSocket(f)
                 /\ kern[f].type = "STREAM" =>
                      ~HasFlag(f, "connected") /\ ~HasFlag(f, "listening")

----------------------------------------------------------------------------
Init ==
  /\ cls = [o \in Objs |-> "none"]
  /\ sockDesc = [o \in Objs |-> INVALID]
  /\ pc = [o \in Objs |-> "idle"]
  /\ task = [o \in Objs |-> "none"]
  /\ newConnSD = [o \in Objs |-> INVALID]
  /\ kern \in {[f \in Fd |-> IF f \in used THEN [type |-> "other", flags |-> {}]
                             ELSE FreeEntry] : used \in SUBSET Fd}
  /\ lost = {}

isOpened(o) == sockDesc[o] # INVALID
Live(o) == cls[o] # "none" /\ pc[o] = "idle"

Goto(o, point, what) == /\ pc' = [pc EXCEPT ![o] = point]
                        /\ task' = [task EXCEPT ![o] = what]
Return(o) == Goto(o, "idle", "none")

(* ~Socket: close() only when there is a descriptor.  It also runs on the *)
(* base part of an object whose constructor throws.                       *)
Destructor(o) ==
  IF isOpened(o)
  THEN Goto(o, "shutdown", "destructor") /\ UNCHANGED cls
  ELSE Return(o) /\ cls' = [cls EXCEPT ![o] = "none"]

\* Defect: a second open() forgets the first descriptor.
CreateSocket_forgets(o, what) == Goto(o, "socket", what)

(* createSocket: an open descriptor is closed first. *)
CreateSocket(o, what) == Goto(o, IF isOpened(o) THEN "shutdown" ELSE "socket", what)

(* The type of socket that the function asks socket() for: the argument of *)
(* open(), given by users of the class as its documentation names it, or   *)
(* the constant in the constructor and in sendTo.                          *)
SocketType(c, what) ==
  IF what = "open"
  THEN IF c \in {"TCPSocket", "TCPServerSocket"} THEN "STREAM" ELSE "DGRAM"
  ELSE IF c = "UDPSocket" THEN "DGRAM" ELSE "STREAM"

(* What follows createSocket in each function that calls it. *)
AfterCreate(c, what) ==
  IF what = "sendTo" THEN "sendto"
  ELSE IF what # "constructor" THEN "idle"
  ELSE IF c \in {"TCPSocket", "UDPClientSocket"} THEN "connect" ELSE "bind"

----------------------------------------------------------------------------
(* Calls made by the program. *)

DefaultConstruct(o, c) ==
  /\ cls[o] = "none"
  /\ pc[o] = "idle"
  /\ cls' = [cls EXCEPT ![o] = c]
  /\ UNCHANGED <<sockDesc, pc, task, newConnSD, kern, lost>>

\* TCPSocket(addr), TCPServerSocket(addr), UDPSocket(addr), UDPClientSocket(addr)
ConstructWithAddress(o, c) ==
  /\ cls[o] = "none"
  /\ pc[o] = "idle"
  /\ cls' = [cls EXCEPT ![o] = c]
  /\ CreateSocket(o, "constructor")
  /\ UNCHANGED <<sockDesc, newConnSD, kern, lost>>

Destroy(o) ==
  /\ Live(o)
  /\ Destructor(o)
  /\ UNCHANGED <<sockDesc, newConnSD, kern, lost>>

\* Both overloads: they differ in how a failure is reported, not in the state.
Open(o) ==
  /\ Live(o)
  /\ CreateSocket(o, "open")
  /\ UNCHANGED <<cls, sockDesc, newConnSD, kern, lost>>

\* close() does not ask isOpened(): on a closed object its calls get EBADF.
Close(o) ==
  /\ Live(o)
  /\ Goto(o, "shutdown", "close")
  /\ UNCHANGED <<cls, sockDesc, newConnSD, kern, lost>>

Bind(o) ==
  /\ Live(o)
  /\ isOpened(o)
  /\ CanBind(sockDesc[o])
  /\ SetFlags(sockDesc[o], {"bound"})
  /\ UNCHANGED <<cls, sockDesc, pc, task, newConnSD, lost>>

Listen(o) ==
  /\ Live(o)
  /\ cls[o] = "TCPServerSocket"
  /\ isOpened(o)
  /\ CanListen(sockDesc[o])
  /\ SetFlags(sockDesc[o], {"bound", "listening"})
  /\ UNCHANGED <<cls, sockDesc, pc, task, newConnSD, lost>>

Connect(o) ==
  /\ Live(o)
  /\ cls[o] \in {"TCPSocket", "UDPClientSocket"}
  /\ isOpened(o)
  /\ CanConnect(sockDesc[o])
  /\ SetFlags(sockDesc[o], {"bound", "connected"})
  /\ UNCHANGED <<cls, sockDesc, pc, task, newConnSD, lost>>

\* connect() to AF_UNSPEC dissolves the association of either type of socket,
\* and the local port with it when connect() had chosen that port.
Disconnect(o) ==
  /\ Live(o)
  /\ cls[o] = "UDPClientSocket"
  /\ isOpened(o)
  /\ \E gone \in {{"connected"}, {"connected", "bound"}} :
       kern' = [kern EXCEPT ![sockDesc[o]].flags = @ \ gone]
  /\ UNCHANGED <<cls, sockDesc, pc, task, newConnSD, lost>>

\* sendTo() makes the socket when there is none; sendto() binds it.
SendTo(o) ==
  /\ Live(o)
  /\ cls[o] = "UDPSocket"
  /\ IF isOpened(o) THEN Goto(o, "sendto", "sendTo") ELSE CreateSocket(o, "sendTo")
  /\ UNCHANGED <<cls, sockDesc, newConnSD, kern, lost>>

----------------------------------------------------------------------------
(* The system calls of a running member function. *)

\* shutdown(SHUT_RD): a listener stops listening, a connected socket stops
\* receiving, anything else gets ENOTCONN or EBADF.
SysShutdown(o) ==
  /\ pc[o] = "shutdown"
  /\ Goto(o, "close", task[o])
  /\ kern' = IF ~isOpened(o) THEN kern
             ELSE [kern EXCEPT ![sockDesc[o]].flags =
                     (@ \ {"listening"})
                       \cup (IF "connected" \in @ THEN {"rdshut"} ELSE {})]
  /\ UNCHANGED <<cls, sockDesc, newConnSD, lost>>

SysClose(o) ==
  /\ pc[o] = "close"
  /\ Goto(o, "reset", task[o])
  /\ kern' = IF isOpened(o) THEN [kern EXCEPT ![sockDesc[o]] = FreeEntry] ELSE kern
  /\ UNCHANGED <<cls, sockDesc, newConnSD, lost>>

\* Defect: close() leaves the number in sockDesc_.
Reset_stale(o) ==
  /\ pc[o] = "reset"
  /\ IF task[o] \in {"close", "destructor"}
     THEN Return(o) ELSE Goto(o, "socket", task[o])
  /\ cls' = IF task[o] = "destructor" THEN [cls EXCEPT ![o] = "none"] ELSE cls
  /\ UNCHANGED <<sockDesc, newConnSD, kern, lost>>

\* sockDesc_ = INVALID_SOCKET, and what follows close() in its caller.
Reset(o) ==
  /\ pc[o] = "reset"
  /\ sockDesc' = [sockDesc EXCEPT ![o] = INVALID]
  /\ IF task[o] \in {"close", "destructor"}
     THEN Return(o) ELSE Goto(o, "socket", task[o])
  /\ cls' = IF task[o] = "destructor" THEN [cls EXCEPT ![o] = "none"] ELSE cls
  /\ UNCHANGED <<newConnSD, kern, lost>>

SysSocket(o) ==
  /\ pc[o] = "socket"
  /\ \E f \in Fd :
       /\ LowestFree(f)
       /\ kern' = [kern EXCEPT ![f] = [type |-> SocketType(cls[o], task[o]), flags |-> {}]]
       /\ sockDesc' = [sockDesc EXCEPT ![o] = f]
  /\ LET next == AfterCreate(cls[o], task[o])
     IN  Goto(o, next, IF next = "idle" THEN "none" ELSE task[o])
  /\ UNCHANGED <<cls, newConnSD, lost>>

\* EMFILE, ENFILE, ENOBUFS: the exception leaves open() and sendTo() with the
\* object closed, and ends the life of an object under construction.
SysSocketFails(o) ==
  /\ pc[o] = "socket"
  /\ Return(o)
  /\ cls' = IF task[o] = "constructor" THEN [cls EXCEPT ![o] = "none"] ELSE cls
  /\ UNCHANGED <<sockDesc, newConnSD, kern, lost>>

\* Defect: the result of bind() is not looked at.
SysBind_unchecked(o) ==
  /\ pc[o] = "bind"
  /\ (CanBind(sockDesc[o]) /\ SetFlags(sockDesc[o], {"bound"})) \/ UNCHANGED kern
  /\ IF cls[o] = "TCPServerSocket"
     THEN Goto(o, "listen", "constructor") ELSE Return(o)
  /\ UNCHANGED <<cls, sockDesc, newConnSD, lost>>

\* bind() in the constructors of TCPServerSocket and UDPSocket
SysBind(o) ==
  /\ pc[o] = "bind"
  /\ \/ /\ CanBind(sockDesc[o])
        /\ SetFlags(sockDesc[o], {"bound"})
        /\ IF cls[o] = "TCPServerSocket"
           THEN Goto(o, "listen", "constructor") ELSE Return(o)
        /\ UNCHANGED cls
     \/ Destructor(o) /\ UNCHANGED kern
  /\ UNCHANGED <<sockDesc, newConnSD, lost>>

SysListen(o) ==
  /\ pc[o] = "listen"
  /\ \/ /\ CanListen(sockDesc[o])
        /\ SetFlags(sockDesc[o], {"bound", "listening"})
        /\ Return(o)
        /\ UNCHANGED cls
     \/ Destructor(o) /\ UNCHANGED kern
  /\ UNCHANGED <<sockDesc, newConnSD, lost>>

\* connect() in the constructors of TCPSocket and UDPClientSocket
SysConnect(o) ==
  /\ pc[o] = "connect"
  /\ \/ /\ CanConnect(sockDesc[o])
        /\ SetFlags(sockDesc[o], {"bound", "connected"})
        /\ Return(o)
        /\ UNCHANGED cls
     \/ Destructor(o) /\ UNCHANGED kern
  /\ UNCHANGED <<sockDesc, newConnSD, lost>>

SysSendto(o) ==
  /\ pc[o] = "sendto"
  /\ SetFlags(sockDesc[o], {"bound"}) \/ UNCHANGED kern
  /\ Return(o)
  /\ UNCHANGED <<cls, sockDesc, newConnSD, lost>>

----------------------------------------------------------------------------
(* TCPServerSocket::accept *)

\* Defect: a failed ::accept() is taken for a connection.
SysAccept_unchecked(o) ==
  /\ Live(o)
  /\ cls[o] = "TCPServerSocket"
  /\ Goto(o, "accepted", "accept")
  /\ UNCHANGED <<cls, sockDesc, newConnSD, kern, lost>>

\* ::accept() returned a connection: its number is in a local variable only.
SysAccept(o) ==
  /\ Live(o)
  /\ cls[o] = "TCPServerSocket"
  /\ isOpened(o)
  /\ HasFlag(sockDesc[o], "listening")
  /\ \E f \in Fd :
       /\ LowestFree(f)
       /\ kern' = [kern EXCEPT ![f] = [type |-> "STREAM", flags |-> {"bound", "connected"}]]
       /\ newConnSD' = [newConnSD EXCEPT ![o] = f]
  /\ Goto(o, "accepted", "accept")
  /\ UNCHANGED <<cls, sockDesc, lost>>

\* new TCPSocket(newConnSD), given to the shared_ptr that accept() returns.
\* When the control block cannot be allocated the new object is deleted.
AcceptReturns(o, c) ==
  /\ pc[o] = "accepted"
  /\ cls[c] = "none"
  /\ pc[c] = "idle"
  /\ cls' = [cls EXCEPT ![c] = "TCPSocket"]
  /\ sockDesc' = [sockDesc EXCEPT ![c] = newConnSD[o]]
  /\ newConnSD' = [newConnSD EXCEPT ![o] = INVALID]
  /\ \/ Return(o)
     \/ /\ pc' = [pc EXCEPT ![o] = "idle", ![c] = "shutdown"]
        /\ task' = [task EXCEPT ![o] = "none", ![c] = "destructor"]
  /\ UNCHANGED <<kern, lost>>

\* The new expression itself throws bad_alloc: nothing holds the descriptor.
AcceptNewFails(o) ==
  /\ pc[o] = "accepted"
  /\ Cardinality(lost) < MaxLost
  /\ lost' = lost \cup {newConnSD[o]}
  /\ newConnSD' = [newConnSD EXCEPT ![o] = INVALID]
  /\ Return(o)
  /\ UNCHANGED <<cls, sockDesc, kern>>

----------------------------------------------------------------------------
(* The rest of the process opens and closes descriptors of its own. *)

OtherOpen(f) ==
  /\ LowestFree(f)
  /\ kern' = [kern EXCEPT ![f] = [type |-> "other", flags |-> {}]]
  /\ UNCHANGED <<cls, sockDesc, pc, task, newConnSD, lost>>

OtherClose(f) ==
  /\ kern[f].type = "other"
  /\ kern' = [kern EXCEPT ![f] = FreeEntry]
  /\ UNCHANGED <<cls, sockDesc, pc, task, newConnSD, lost>>

----------------------------------------------------------------------------
Call(o) ==
  \/ \E c \in Classes : DefaultConstruct(o, c) \/ ConstructWithAddress(o, c)
  \/ Destroy(o) \/ Open(o) \/ Close(o)
  \/ Bind(o) \/ Listen(o) \/ Connect(o) \/ Disconnect(o) \/ SendTo(o)

SystemCall(o) ==
  \/ SysShutdown(o) \/ SysClose(o) \/ Reset(o)
  \/ SysSocket(o) \/ SysSocketFails(o)
  \/ SysBind(o) \/ SysListen(o) \/ SysConnect(o) \/ SysSendto(o)

Accept(o) ==
  \/ SysAccept(o)
  \/ \E c \in Objs : AcceptReturns(o, c)
  \/ AcceptNewFails(o)

Next ==
  \/ \E o \in Objs : Call(o) \/ SystemCall(o) \/ Accept(o)
  \/ \E f \in Fd : OtherOpen(f) \/ OtherClose(f)

Spec == Init /\ [][Next]_vars

----------------------------------------------------------------------------
(* What must hold. *)

\* The descriptor an object answers for: ::close() has ended it already when
\* sockDesc_ still has to be reset.
handle(o) == IF pc[o] = "reset" THEN INVALID ELSE sockDesc[o]
Held(o) == {handle(o), newConnSD[o]} \ {INVALID}

\* No two objects, and no object and the accept() under way on it, answer for
\* one descriptor, and what an object answers for is an open socket: so no
\* member function can act on, or close, a descriptor number that the kernel
\* has meanwhile given to somebody else.
UniqueOwnership ==
  /\ \A o \in Objs : \A f \in Held(o) : IsSocket(f)
  /\ \A o, p \in Objs : o # p => Held(o) \cap Held(p) = {}
  /\ \A o \in Objs : handle(o) # INVALID => handle(o) # newConnSD[o]

\* Every open socket is answered for, also after a constructor or an open()
\* that failed half way: the one exception is a connection whose TCPSocket
\* could not be allocated in accept().
NoDescriptorLeak ==
  \A f \in Fd : IsSocket(f) => f \in lost \/ \E o \in Objs : f \in Held(o)

Moves(o) == <<cls[o], sockDesc[o], pc[o], task[o]>>

\* A socket that exists is changed or closed only by the thread of the object
\* that answers for it: nobody else's program counter moves in that step.
\* A descriptor that belongs to the rest of the process is left to it.
OnlyTheHolderActs ==
  [][\A f \in Fd : kern[f].type # "free" /\ kern'[f] # kern[f] =>
       IF IsSocket(f)
       THEN \E o \in Objs : /\ f = handle(o)
                           /\ \A p \in Objs \ {o} : Moves(p)' = Moves(p)
       ELSE kern'[f] = FreeEntry /\ \A p \in Objs : Moves(p)' = Moves(p)]_vars

Delivered(c) ==
  IF c = "TCPServerSocket" THEN {"bound", "listening"}
  ELSE IF c = "UDPSocket" THEN {"bound"}
  ELSE {"connected"}

\* A constructor that takes an address either delivers what its class
\* documents (bound and listening, bound, connected) or throws and leaves no
\* object, whatever the other threads do between its system calls.
ConstructorDelivers ==
  [][\A o \in Objs : task[o] = "constructor" /\ task'[o] = "none" /\ cls'[o] # "none" =>
       /\ sockDesc'[o] # INVALID
       /\ Delivered(cls[o]) \subseteq kern'[sockDesc'[o]].flags]_vars

\* UDPClientSocket.hpp:23: its constructor creates "a connected UDP socket".
UdpClientIsDatagram ==
  \A o \in Objs : Live(o) /\ cls[o] = "UDPClientSocket" /\ isOpened(o) =>
    kern[sockDesc[o]].type = "DGRAM"

----------------------------------------------------------------------------
(* The ownership discipline that the classes implement. *)

Ownership == INSTANCE HandleOwnership WITH
  Holders   <- {"object", "accept"} \X Objs,
  Handles   <- Fd,
  holding   <- [h \in {"object", "accept"} \X Objs |->
                  (IF h[1] = "object" THEN {handle(h[2])} ELSE {newConnSD[h[2]]})
                    \ {INVALID}],
  free      <- {f \in Fd : kern[f].type = "free"},
  outside   <- {f \in Fd : kern[f].type = "other"},
  abandoned <- lost

OwnershipSpec == Ownership!Spec
============================================================================
