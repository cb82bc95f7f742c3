--------------------------- MODULE Sockets_proofs ---------------------------
(***************************************************************************)
(* The library.  First the socket classes, for any number of objects and   *)
(* descriptors: descriptor ownership, that they implement HandleOwnership, *)
(* and what their constructors deliver.  Then the iostream of a TCPSocket, *)
(* for every size of its buffers and any number of bytes: what the user    *)
(* writes is what is sent, and what the peer sends is what the user gets.  *)
(***************************************************************************)
EXTENDS SocketLifecycle, SocketStream, SequenceTheorems, FiniteSetTheorems, TLAPS

(* Where a member function is determines what it has in hand. *)
ControlInv ==
  \A o \in Objs :
    /\ pc[o] = "idle" <=> task[o] = "none"
    /\ cls[o] = "none" => pc[o] = "idle" /\ sockDesc[o] = INVALID
    /\ pc[o] = "socket" => sockDesc[o] = INVALID
    /\ pc[o] \in {"bind", "listen", "connect", "sendto"} => sockDesc[o] # INVALID
    /\ newConnSD[o] # INVALID <=> pc[o] = "accepted"

(* An abandoned descriptor stays open and is nobody's. *)
LostInv == \A f \in lost : IsSocket(f) /\ \A o \in Objs : f \notin Held(o)

OwnInv == UniqueOwnership /\ NoDescriptorLeak /\ LostInv

IInv == TypeOK /\ ControlInv /\ OwnInv

(* A step that opens, closes and passes on nothing. *)
Frame ==
  /\ \A p \in Objs : handle(p)' = handle(p) /\ newConnSD'[p] = newConnSD[p]
  /\ \A f \in Fd : kern'[f].type = kern[f].type
  /\ lost' = lost

USE LifecycleAssumption DEF Fd, INVALID

LEMMA InitIInv == Init => IInv
  BY DEF Init, IInv, OwnInv, TypeOK, ControlInv, UniqueOwnership, NoDescriptorLeak,
    LostInv, Held, handle, IsSocket, KernelEntry, FreeEntry, Points, Tasks

LEMMA FlagUpdate ==
  ASSUME TypeOK, NEW f \in Fd, NEW F \in SUBSET Flags,
         kern' = [kern EXCEPT ![f].flags = F]
  PROVE  /\ kern' \in [Fd -> KernelEntry]
         /\ \A g \in Fd : kern'[g].type = kern[g].type
  BY DEF TypeOK, KernelEntry

LEMMA SetFlagsKeepsTypes ==
  ASSUME TypeOK, NEW f \in Fd, NEW flags \in SUBSET Flags, SetFlags(f, flags)
  PROVE  /\ kern' \in [Fd -> KernelEntry]
         /\ \A g \in Fd : kern'[g].type = kern[g].type
  <1>1. kern[f].flags \cup flags \in SUBSET Flags
    BY DEF TypeOK, KernelEntry
  <1>2. kern' = [kern EXCEPT ![f].flags = kern[f].flags \cup flags]
    BY DEF SetFlags
  <1> QED BY <1>1, <1>2, FlagUpdate

LEMMA FrameKeepsOwnership == ASSUME TypeOK, OwnInv, Frame PROVE OwnInv'
  <1>1. \A p \in Objs : Held(p)' = Held(p)
    BY DEF Frame, Held
  <1>2. \A f \in Fd : IsSocket(f)' <=> IsSocket(f)
    BY DEF Frame, IsSocket
  <1>3. \A p \in Objs : Held(p) \subseteq Fd
    BY DEF TypeOK, Held, handle
  <1>4. UniqueOwnership'
    BY <1>1, <1>2, <1>3 DEF UniqueOwnership, OwnInv, Frame
  <1>5. NoDescriptorLeak'
    BY <1>1, <1>2 DEF NoDescriptorLeak, OwnInv, Frame
  <1>6. LostInv'
    BY <1>1, <1>2 DEF LostInv, OwnInv, Frame, TypeOK
  <1> QED BY <1>4, <1>5, <1>6 DEF OwnInv

LEMMA DefaultConstructStep == ASSUME IInv, NEW o \in Objs, NEW c \in Classes, DefaultConstruct(o, c) PROVE IInv' /\ Frame
  <1>1. TypeOK'
    BY DEF IInv, TypeOK, DefaultConstruct, Points, Tasks, AllClasses
  <1>2. ControlInv'
    BY DEF IInv, TypeOK, ControlInv, DefaultConstruct, AllClasses
  <1>3. Frame
    BY DEF IInv, TypeOK, ControlInv, Frame, handle, DefaultConstruct
  <1> QED BY <1>1, <1>2, <1>3, FrameKeepsOwnership DEF IInv

LEMMA ConstructWithAddressStep == ASSUME IInv, NEW o \in Objs, NEW c \in Classes, ConstructWithAddress(o, c) PROVE IInv' /\ Frame
  <1>1. TypeOK'
    BY DEF IInv, TypeOK, ConstructWithAddress, CreateSocket, Goto, isOpened, Points, Tasks, AllClasses
  <1>2. ControlInv'
    BY DEF IInv, TypeOK, ControlInv, ConstructWithAddress, CreateSocket, Goto, isOpened, AllClasses
  <1>3. Frame
    BY DEF IInv, TypeOK, ControlInv, Frame, handle, ConstructWithAddress, CreateSocket, Goto, isOpened
  <1> QED BY <1>1, <1>2, <1>3, FrameKeepsOwnership DEF IInv

LEMMA DestroyStep == ASSUME IInv, NEW o \in Objs, Destroy(o) PROVE IInv' /\ Frame
  <1>1. TypeOK'
    BY DEF IInv, TypeOK, Destroy, Destructor, Live, Return, Goto, isOpened, Points, Tasks, AllClasses
  <1>2. ControlInv'
    BY DEF IInv, TypeOK, ControlInv, Destroy, Destructor, Live, Return, Goto, isOpened
  <1>3. Frame
    BY DEF IInv, TypeOK, ControlInv, Frame, handle, Destroy, Destructor, Live, Return, Goto, isOpened
  <1> QED BY <1>1, <1>2, <1>3, FrameKeepsOwnership DEF IInv

LEMMA OpenStep == ASSUME IInv, NEW o \in Objs, Open(o) PROVE IInv' /\ Frame
  <1>1. TypeOK'
    BY DEF IInv, TypeOK, Open, Live, CreateSocket, Goto, isOpened, Points, Tasks, AllClasses
  <1>2. ControlInv'
    BY DEF IInv, TypeOK, ControlInv, Open, Live, CreateSocket, Goto, isOpened
  <1>3. Frame
    BY DEF IInv, TypeOK, ControlInv, Frame, handle, Open, Live, CreateSocket, Goto, isOpened
  <1> QED BY <1>1, <1>2, <1>3, FrameKeepsOwnership DEF IInv

LEMMA CloseStep == ASSUME IInv, NEW o \in Objs, Close(o) PROVE IInv' /\ Frame
  <1>1. TypeOK'
    BY DEF IInv, TypeOK, Close, Live, Goto, Points, Tasks, AllClasses
  <1>2. ControlInv'
    BY DEF IInv, TypeOK, ControlInv, Close, Live, Goto
  <1>3. Frame
    BY DEF IInv, TypeOK, ControlInv, Frame, handle, Close, Live, Goto
  <1> QED BY <1>1, <1>2, <1>3, FrameKeepsOwnership DEF IInv

LEMMA BindStep == ASSUME IInv, NEW o \in Objs, Bind(o) PROVE IInv' /\ Frame
  <1>1. kern' \in [Fd -> KernelEntry] /\ \A g \in Fd : kern'[g].type = kern[g].type
    <2>1. sockDesc[o] \in Fd
      BY DEF IInv, TypeOK, Bind, isOpened
    <2> QED BY <2>1, SetFlagsKeepsTypes DEF IInv, Bind, Flags
  <1>2. TypeOK'
    BY <1>1 DEF IInv, TypeOK, Bind, Points, Tasks, AllClasses
  <1>3. ControlInv'
    BY DEF IInv, TypeOK, ControlInv, Bind
  <1>4. Frame
    BY <1>1 DEF IInv, TypeOK, ControlInv, Frame, handle, Bind
  <1> QED BY <1>2, <1>3, <1>4, FrameKeepsOwnership DEF IInv

LEMMA ListenStep == ASSUME IInv, NEW o \in Objs, Listen(o) PROVE IInv' /\ Frame
  <1>1. kern' \in [Fd -> KernelEntry] /\ \A g \in Fd : kern'[g].type = kern[g].type
    <2>1. sockDesc[o] \in Fd
      BY DEF IInv, TypeOK, Listen, isOpened
    <2> QED BY <2>1, SetFlagsKeepsTypes DEF IInv, Listen, Flags
  <1>2. TypeOK'
    BY <1>1 DEF IInv, TypeOK, Listen, Points, Tasks, AllClasses
  <1>3. ControlInv'
    BY DEF IInv, TypeOK, ControlInv, Listen
  <1>4. Frame
    BY <1>1 DEF IInv, TypeOK, ControlInv, Frame, handle, Listen
  <1> QED BY <1>2, <1>3, <1>4, FrameKeepsOwnership DEF IInv

LEMMA ConnectStep == ASSUME IInv, NEW o \in Objs, Connect(o) PROVE IInv' /\ Frame
  <1>1. kern' \in [Fd -> KernelEntry] /\ \A g \in Fd : kern'[g].type = kern[g].type
    <2>1. sockDesc[o] \in Fd
      BY DEF IInv, TypeOK, Connect, isOpened
    <2> QED BY <2>1, SetFlagsKeepsTypes DEF IInv, Connect, Flags
  <1>2. TypeOK'
    BY <1>1 DEF IInv, TypeOK, Connect, Points, Tasks, AllClasses
  <1>3. ControlInv'
    BY DEF IInv, TypeOK, ControlInv, Connect
  <1>4. Frame
    BY <1>1 DEF IInv, TypeOK, ControlInv, Frame, handle, Connect
  <1> QED BY <1>2, <1>3, <1>4, FrameKeepsOwnership DEF IInv

LEMMA DisconnectStep == ASSUME IInv, NEW o \in Objs, Disconnect(o) PROVE IInv' /\ Frame
  <1>1. kern' \in [Fd -> KernelEntry] /\ \A g \in Fd : kern'[g].type = kern[g].type
    <2>1. sockDesc[o] \in Fd
      BY DEF IInv, TypeOK, Disconnect, isOpened
    <2>2. PICK gone \in {{"connected"}, {"connected", "bound"}} :
            kern' = [kern EXCEPT ![sockDesc[o]].flags = @ \ gone]
      BY DEF Disconnect
    <2> DEFINE new == kern[sockDesc[o]].flags \ gone
    <2>3. kern' = [kern EXCEPT ![sockDesc[o]].flags = new]
      BY <2>2
    <2>4. new \in SUBSET Flags
      BY <2>1 DEF IInv, TypeOK, KernelEntry
    <2> HIDE DEF new
    <2> QED BY <2>1, <2>3, <2>4, FlagUpdate DEF IInv
  <1>2. TypeOK'
    BY <1>1 DEF IInv, TypeOK, Disconnect, Points, Tasks, AllClasses
  <1>3. ControlInv'
    BY DEF IInv, TypeOK, ControlInv, Disconnect
  <1>4. Frame
    BY <1>1 DEF IInv, TypeOK, ControlInv, Frame, handle, Disconnect
  <1> QED BY <1>2, <1>3, <1>4, FrameKeepsOwnership DEF IInv

LEMMA SendToStep == ASSUME IInv, NEW o \in Objs, SendTo(o) PROVE IInv' /\ Frame
  <1>1. TypeOK'
    BY DEF IInv, TypeOK, SendTo, Live, CreateSocket, Goto, isOpened, Points, Tasks, AllClasses
  <1>2. ControlInv'
    BY DEF IInv, TypeOK, ControlInv, SendTo, Live, CreateSocket, Goto, isOpened
  <1>3. Frame
    BY DEF IInv, TypeOK, ControlInv, Frame, handle, SendTo, Live, CreateSocket, Goto, isOpened
  <1> QED BY <1>1, <1>2, <1>3, FrameKeepsOwnership DEF IInv

LEMMA SysShutdownStep == ASSUME IInv, NEW o \in Objs, SysShutdown(o) PROVE IInv' /\ Frame
  <1>1. kern' \in [Fd -> KernelEntry] /\ \A g \in Fd : kern'[g].type = kern[g].type
    <2>1. CASE ~isOpened(o)
      BY <2>1 DEF IInv, TypeOK, SysShutdown
    <2>2. CASE isOpened(o)
      <3>1. sockDesc[o] \in Fd
        BY <2>2 DEF IInv, TypeOK, isOpened
      <3> DEFINE old == kern[sockDesc[o]].flags
                 new == (old \ {"listening"}) \cup (IF "connected" \in old THEN {"rdshut"} ELSE {})
      <3>2. kern' = [kern EXCEPT ![sockDesc[o]].flags = new]
        BY <2>2 DEF SysShutdown
      <3>3. new \in SUBSET Flags
        BY <3>1 DEF IInv, TypeOK, KernelEntry, Flags
      <3> HIDE DEF new
      <3> QED BY <3>1, <3>2, <3>3, FlagUpdate DEF IInv
    <2> QED BY <2>1, <2>2
  <1>2. TypeOK'
    BY <1>1 DEF IInv, TypeOK, SysShutdown, Goto, Points, Tasks, AllClasses
  <1>3. ControlInv'
    BY DEF IInv, TypeOK, ControlInv, SysShutdown, Goto
  <1>4. Frame
    BY <1>1 DEF IInv, TypeOK, ControlInv, Frame, handle, SysShutdown, Goto
  <1> QED BY <1>2, <1>3, <1>4, FrameKeepsOwnership DEF IInv

LEMMA ResetStep == ASSUME IInv, NEW o \in Objs, Reset(o) PROVE IInv' /\ Frame
  <1>1. TypeOK'
    BY DEF IInv, TypeOK, Reset, Return, Goto, Points, Tasks, AllClasses
  <1>2. ControlInv'
    BY DEF IInv, TypeOK, ControlInv, Reset, Return, Goto
  <1>3. Frame
    BY DEF IInv, TypeOK, ControlInv, Frame, handle, Reset, Return, Goto
  <1> QED BY <1>1, <1>2, <1>3, FrameKeepsOwnership DEF IInv

LEMMA SysSocketFailsStep == ASSUME IInv, NEW o \in Objs, SysSocketFails(o) PROVE IInv' /\ Frame
  <1>1. TypeOK'
    BY DEF IInv, TypeOK, SysSocketFails, Return, Goto, Points, Tasks, AllClasses
  <1>2. ControlInv'
    BY DEF IInv, TypeOK, ControlInv, SysSocketFails, Return, Goto
  <1>3. Frame
    BY DEF IInv, TypeOK, ControlInv, Frame, handle, SysSocketFails, Return, Goto
  <1> QED BY <1>1, <1>2, <1>3, FrameKeepsOwnership DEF IInv

LEMMA SysBindStep == ASSUME IInv, NEW o \in Objs, SysBind(o) PROVE IInv' /\ Frame
  <1>1. kern' \in [Fd -> KernelEntry] /\ \A g \in Fd : kern'[g].type = kern[g].type
    <2>1. sockDesc[o] \in Fd
      BY DEF IInv, TypeOK, ControlInv, SysBind
    <2>2. SetFlags(sockDesc[o], {"bound"}) \/ UNCHANGED kern
      BY DEF SysBind
    <2> QED BY <2>1, <2>2, SetFlagsKeepsTypes DEF IInv, TypeOK, Flags
  <1>2. TypeOK'
    BY <1>1 DEF IInv, TypeOK, SysBind, Destructor, Return, Goto, isOpened, Points, Tasks, AllClasses
  <1>3. ControlInv'
    BY DEF IInv, TypeOK, ControlInv, SysBind, Destructor, Return, Goto, isOpened
  <1>4. Frame
    BY <1>1 DEF IInv, TypeOK, ControlInv, Frame, handle, SysBind, Destructor, Return, Goto, isOpened
  <1> QED BY <1>2, <1>3, <1>4, FrameKeepsOwnership DEF IInv

LEMMA SysListenStep == ASSUME IInv, NEW o \in Objs, SysListen(o) PROVE IInv' /\ Frame
  <1>1. kern' \in [Fd -> KernelEntry] /\ \A g \in Fd : kern'[g].type = kern[g].type
    <2>1. sockDesc[o] \in Fd
      BY DEF IInv, TypeOK, ControlInv, SysListen
    <2>2. SetFlags(sockDesc[o], {"bound", "listening"}) \/ UNCHANGED kern
      BY DEF SysListen
    <2> QED BY <2>1, <2>2, SetFlagsKeepsTypes DEF IInv, TypeOK, Flags
  <1>2. TypeOK'
    BY <1>1 DEF IInv, TypeOK, SysListen, Destructor, Return, Goto, isOpened, Points, Tasks, AllClasses
  <1>3. ControlInv'
    BY DEF IInv, TypeOK, ControlInv, SysListen, Destructor, Return, Goto, isOpened
  <1>4. Frame
    BY <1>1 DEF IInv, TypeOK, ControlInv, Frame, handle, SysListen, Destructor, Return, Goto, isOpened
  <1> QED BY <1>2, <1>3, <1>4, FrameKeepsOwnership DEF IInv

LEMMA SysConnectStep == ASSUME IInv, NEW o \in Objs, SysConnect(o) PROVE IInv' /\ Frame
  <1>1. kern' \in [Fd -> KernelEntry] /\ \A g \in Fd : kern'[g].type = kern[g].type
    <2>1. sockDesc[o] \in Fd
      BY DEF IInv, TypeOK, ControlInv, SysConnect
    <2>2. SetFlags(sockDesc[o], {"bound", "connected"}) \/ UNCHANGED kern
      BY DEF SysConnect
    <2> QED BY <2>1, <2>2, SetFlagsKeepsTypes DEF IInv, TypeOK, Flags
  <1>2. TypeOK'
    BY <1>1 DEF IInv, TypeOK, SysConnect, Destructor, Return, Goto, isOpened, Points, Tasks, AllClasses
  <1>3. ControlInv'
    BY DEF IInv, TypeOK, ControlInv, SysConnect, Destructor, Return, Goto, isOpened
  <1>4. Frame
    BY <1>1 DEF IInv, TypeOK, ControlInv, Frame, handle, SysConnect, Destructor, Return, Goto, isOpened
  <1> QED BY <1>2, <1>3, <1>4, FrameKeepsOwnership DEF IInv

LEMMA SysSendtoStep == ASSUME IInv, NEW o \in Objs, SysSendto(o) PROVE IInv' /\ Frame
  <1>1. kern' \in [Fd -> KernelEntry] /\ \A g \in Fd : kern'[g].type = kern[g].type
    <2>1. sockDesc[o] \in Fd
      BY DEF IInv, TypeOK, ControlInv, SysSendto
    <2>2. SetFlags(sockDesc[o], {"bound"}) \/ UNCHANGED kern
      BY DEF SysSendto
    <2> QED BY <2>1, <2>2, SetFlagsKeepsTypes DEF IInv, TypeOK, Flags
  <1>2. TypeOK'
    BY <1>1 DEF IInv, TypeOK, SysSendto, Return, Goto, Points, Tasks, AllClasses
  <1>3. ControlInv'
    BY DEF IInv, TypeOK, ControlInv, SysSendto, Return, Goto
  <1>4. Frame
    BY <1>1 DEF IInv, TypeOK, ControlInv, Frame, handle, SysSendto, Return, Goto
  <1> QED BY <1>2, <1>3, <1>4, FrameKeepsOwnership DEF IInv

\* ::close() ends the descriptor and the object no longer answers for it.
LEMMA SysCloseStep == ASSUME IInv, NEW o \in Objs, SysClose(o) PROVE IInv'
  <1>1. TypeOK'
    BY DEF IInv, TypeOK, SysClose, Goto, isOpened, Points, KernelEntry, FreeEntry
  <1>2. ControlInv'
    BY DEF IInv, TypeOK, ControlInv, SysClose, Goto
  <1>3. Held(o)' = {} /\ Held(o) = {sockDesc[o]} \ {INVALID}
    BY DEF IInv, TypeOK, ControlInv, SysClose, Goto, Held, handle
  <1>4. \A p \in Objs \ {o} : Held(p)' = Held(p)
    BY DEF IInv, TypeOK, SysClose, Goto, Held, handle
  <1>5. \A f \in Fd : IsSocket(f)' <=> IsSocket(f) /\ f # sockDesc[o]
    BY DEF IInv, TypeOK, SysClose, isOpened, FreeEntry, IsSocket
  <1>6. \A p \in Objs : Held(p) \subseteq Fd
    BY DEF IInv, TypeOK, Held, handle
  <1>7. lost' = lost
    BY DEF SysClose
  <1>8. UniqueOwnership'
    <2>1. \A p \in Objs : \A f \in Held(p)' : IsSocket(f)'
      BY <1>3, <1>4, <1>5, <1>6 DEF IInv, OwnInv, UniqueOwnership
    <2>2. \A p, q \in Objs : p # q => Held(p)' \cap Held(q)' = {}
      BY <1>3, <1>4 DEF IInv, OwnInv, UniqueOwnership
    <2>3. \A p \in Objs : handle(p)' # INVALID => handle(p)' # newConnSD'[p]
      BY DEF IInv, OwnInv, UniqueOwnership, TypeOK, SysClose, Goto, handle
    <2> QED BY <2>1, <2>2, <2>3 DEF UniqueOwnership
  <1>9. NoDescriptorLeak'
    BY <1>3, <1>4, <1>5, <1>7 DEF IInv, OwnInv, NoDescriptorLeak
  <1>10. LostInv'
    BY <1>3, <1>4, <1>5, <1>7 DEF IInv, OwnInv, LostInv, TypeOK
  <1> QED BY <1>1, <1>2, <1>8, <1>9, <1>10 DEF IInv, OwnInv

(* A step that makes one free descriptor a socket of object o. *)
Obtains(o, f) ==
  /\ f \in Fd
  /\ kern[f].type = "free"
  /\ Held(o)' = Held(o) \cup {f}
  /\ \A p \in Objs \ {o} : Held(p)' = Held(p)
  /\ \A p \in Objs : handle(p)' # INVALID => handle(p)' # newConnSD'[p]
  /\ \A g \in Fd : IsSocket(g)' <=> IsSocket(g) \/ g = f
  /\ lost' = lost

LEMMA ObtainsKeepsOwnership ==
  ASSUME TypeOK, OwnInv, NEW o \in Objs, NEW f \in Fd, Obtains(o, f)
  PROVE  OwnInv'
  <1>1. ~IsSocket(f)
    BY DEF Obtains, IsSocket
  <1>2. \A p \in Objs : f \notin Held(p) /\ Held(p) \subseteq Fd
    BY <1>1 DEF OwnInv, UniqueOwnership, TypeOK, Held, handle
  <1>3. UniqueOwnership'
    <2>1. \A p \in Objs : \A g \in Held(p)' : IsSocket(g)'
      BY <1>2 DEF Obtains, OwnInv, UniqueOwnership
    <2>2. \A p, q \in Objs : p # q => Held(p)' \cap Held(q)' = {}
      BY <1>2 DEF Obtains, OwnInv, UniqueOwnership
    <2> QED BY <2>1, <2>2 DEF UniqueOwnership, Obtains
  <1>4. NoDescriptorLeak'
    BY DEF Obtains, OwnInv, NoDescriptorLeak
  <1>5. LostInv'
    BY <1>1, <1>2 DEF Obtains, OwnInv, LostInv, TypeOK
  <1> QED BY <1>3, <1>4, <1>5 DEF OwnInv

LEMMA SysSocketStep == ASSUME IInv, NEW o \in Objs, SysSocket(o) PROVE IInv'
  <1>1. PICK f \in Fd :
          /\ LowestFree(f)
          /\ kern' = [kern EXCEPT ![f] =
                        [type |-> SocketType(cls[o], task[o]), flags |-> {}]]
          /\ sockDesc' = [sockDesc EXCEPT ![o] = f]
    BY DEF SysSocket
  <1>2. SocketType(cls[o], task[o]) \in {"STREAM", "DGRAM"}
    BY DEF SocketType
  <1>3. TypeOK'
    BY <1>1, <1>2 DEF IInv, TypeOK, SysSocket, Goto, AfterCreate, Points, Tasks, KernelEntry
  <1>4. ControlInv'
    BY <1>1 DEF IInv, TypeOK, ControlInv, SysSocket, Goto, AfterCreate
  <1>5. Obtains(o, f)
    <2>1. Held(o)' = Held(o) \cup {f}
      BY <1>1 DEF IInv, TypeOK, ControlInv, SysSocket, Goto, AfterCreate, Held, handle
    <2>2. \A p \in Objs \ {o} : Held(p)' = Held(p)
      BY <1>1 DEF IInv, TypeOK, SysSocket, Goto, Held, handle
    <2>3. \A p \in Objs : handle(p)' # INVALID => handle(p)' # newConnSD'[p]
      BY <1>1 DEF IInv, TypeOK, ControlInv, OwnInv, UniqueOwnership, SysSocket, Goto, handle
    <2>4. \A g \in Fd : IsSocket(g)' <=> IsSocket(g) \/ g = f
      BY <1>1, <1>2 DEF IInv, TypeOK, IsSocket
    <2> QED BY <1>1, <2>1, <2>2, <2>3, <2>4 DEF Obtains, LowestFree, SysSocket
  <1> QED BY <1>3, <1>4, <1>5, ObtainsKeepsOwnership DEF IInv

LEMMA SysAcceptStep == ASSUME IInv, NEW o \in Objs, SysAccept(o) PROVE IInv'
  <1>1. PICK f \in Fd :
          /\ LowestFree(f)
          /\ kern' = [kern EXCEPT ![f] =
                        [type |-> "STREAM", flags |-> {"bound", "connected"}]]
          /\ newConnSD' = [newConnSD EXCEPT ![o] = f]
    BY DEF SysAccept
  <1>2. TypeOK'
    BY <1>1 DEF IInv, TypeOK, SysAccept, Goto, Points, Tasks, KernelEntry, Flags
  <1>3. ControlInv'
    BY <1>1 DEF IInv, TypeOK, ControlInv, SysAccept, Live, Goto
  <1>4. Obtains(o, f)
    <2>1. Held(o)' = Held(o) \cup {f}
      BY <1>1 DEF IInv, TypeOK, ControlInv, SysAccept, Live, Goto, Held, handle
    <2>2. \A p \in Objs \ {o} : Held(p)' = Held(p)
      BY <1>1 DEF IInv, TypeOK, SysAccept, Goto, Held, handle
    <2>3. ~IsSocket(f)
      BY <1>1 DEF LowestFree, IsSocket
    <2>4. sockDesc[o] # f
      BY <2>3 DEF IInv, OwnInv, UniqueOwnership, SysAccept, Live, isOpened, Held, handle
    <2>5. \A p \in Objs : handle(p)' # INVALID => handle(p)' # newConnSD'[p]
      BY <1>1, <2>4 DEF IInv, TypeOK, OwnInv, UniqueOwnership, SysAccept, Live, Goto, handle
    <2>6. \A g \in Fd : IsSocket(g)' <=> IsSocket(g) \/ g = f
      BY <1>1 DEF IInv, TypeOK, IsSocket
    <2> QED BY <1>1, <2>1, <2>2, <2>5, <2>6 DEF Obtains, LowestFree, SysAccept
  <1> QED BY <1>2, <1>3, <1>4, ObtainsKeepsOwnership DEF IInv

\* The descriptor goes from the local variable of accept() to the new object.
LEMMA AcceptReturnsStep ==
  ASSUME IInv, NEW o \in Objs, NEW c \in Objs, AcceptReturns(o, c) PROVE IInv'
  <1>1. o # c /\ newConnSD[o] # INVALID /\ sockDesc[c] = INVALID /\ newConnSD[c] = INVALID
    BY DEF IInv, ControlInv, AcceptReturns
  <1>2. TypeOK'
    BY DEF IInv, TypeOK, AcceptReturns, Return, Goto, Points, Tasks, AllClasses
  <1>3. ControlInv'
    BY <1>1 DEF IInv, TypeOK, ControlInv, AcceptReturns, Return, Goto
  <1>4. Held(o)' = {sockDesc[o]} \ {INVALID} /\ Held(o) = {sockDesc[o], newConnSD[o]} \ {INVALID}
    BY <1>1 DEF IInv, TypeOK, AcceptReturns, Return, Goto, Held, handle
  <1>5. Held(c)' = {newConnSD[o]} /\ Held(c) = {}
    BY <1>1 DEF IInv, TypeOK, ControlInv, AcceptReturns, Return, Goto, Held, handle
  <1>6. \A p \in Objs \ {o, c} : Held(p)' = Held(p)
    BY DEF IInv, TypeOK, AcceptReturns, Return, Goto, Held, handle
  <1>7. \A f \in Fd : IsSocket(f)' <=> IsSocket(f)
    BY DEF AcceptReturns, IsSocket
  <1>8. sockDesc[o] # newConnSD[o]
    BY <1>1 DEF IInv, OwnInv, UniqueOwnership, AcceptReturns, handle
  <1>9. UniqueOwnership'
    <2>1. \A p \in Objs : \A f \in Held(p)' : IsSocket(f)'
      BY <1>1, <1>4, <1>5, <1>6 DEF IInv, OwnInv, UniqueOwnership, AcceptReturns, IsSocket
    <2>2. \A p, q \in Objs : p # q => Held(p)' \cap Held(q)' = {}
      BY <1>1, <1>4, <1>5, <1>6, <1>8 DEF IInv, OwnInv, UniqueOwnership
    <2>3. \A p \in Objs : handle(p)' # INVALID => handle(p)' # newConnSD'[p]
      BY <1>1 DEF IInv, TypeOK, OwnInv, UniqueOwnership, AcceptReturns, Return, Goto, handle
    <2> QED BY <2>1, <2>2, <2>3 DEF UniqueOwnership
  <1>10. NoDescriptorLeak'
    <2> SUFFICES ASSUME NEW f \in Fd, IsSocket(f), f \notin lost
                 PROVE  \E p \in Objs : f \in Held(p)'
      BY <1>7 DEF NoDescriptorLeak, AcceptReturns
    <2>1. PICK p \in Objs : f \in Held(p)
      BY DEF IInv, OwnInv, NoDescriptorLeak
    <2>2. CASE p = o
      BY <2>1, <2>2, <1>4, <1>5
    <2>3. CASE p # o
      BY <2>1, <2>3, <1>5, <1>6
    <2> QED BY <2>2, <2>3
  <1>11. LostInv'
    <2>1. \A p \in Objs : \A f \in lost : f \notin Held(p)'
      BY <1>1, <1>4, <1>5, <1>6 DEF IInv, OwnInv, LostInv
    <2> QED BY <2>1, <1>7 DEF IInv, TypeOK, OwnInv, LostInv, AcceptReturns
  <1> QED BY <1>2, <1>3, <1>9, <1>10, <1>11 DEF IInv, OwnInv

LEMMA AcceptNewFailsStep == ASSUME IInv, NEW o \in Objs, AcceptNewFails(o) PROVE IInv'
  <1>1. newConnSD[o] \in Fd
    BY DEF IInv, TypeOK, ControlInv, AcceptNewFails
  <1>2. TypeOK'
    BY <1>1 DEF IInv, TypeOK, AcceptNewFails, Return, Goto, Points, Tasks
  <1>3. ControlInv'
    BY DEF IInv, TypeOK, ControlInv, AcceptNewFails, Return, Goto
  <1>4. Held(o)' = Held(o) \ {newConnSD[o]} /\ newConnSD[o] \in Held(o)
    BY <1>1 DEF IInv, TypeOK, OwnInv, UniqueOwnership, AcceptNewFails, Return, Goto, Held, handle
  <1>5. \A p \in Objs \ {o} : Held(p)' = Held(p)
    BY DEF IInv, TypeOK, AcceptNewFails, Return, Goto, Held, handle
  <1>6. \A f \in Fd : IsSocket(f)' <=> IsSocket(f)
    BY DEF AcceptNewFails, IsSocket
  <1>7. \A p \in Objs : Held(p) \subseteq Fd /\ Held(p)' \subseteq Held(p)
    BY <1>4, <1>5 DEF IInv, TypeOK, Held, handle
  <1>8. lost' = lost \cup {newConnSD[o]}
    BY DEF AcceptNewFails
  <1>9. UniqueOwnership'
    <2>1. \A p \in Objs : \A f \in Held(p)' : IsSocket(f)'
      BY <1>6, <1>7 DEF IInv, OwnInv, UniqueOwnership
    <2>2. \A p, q \in Objs : p # q => Held(p)' \cap Held(q)' = {}
      BY <1>7 DEF IInv, OwnInv, UniqueOwnership
    <2>3. \A p \in Objs : handle(p)' # INVALID => handle(p)' # newConnSD'[p]
      BY DEF IInv, TypeOK, OwnInv, UniqueOwnership, AcceptNewFails, Return, Goto, handle
    <2> QED BY <2>1, <2>2, <2>3 DEF UniqueOwnership
  <1>10. NoDescriptorLeak'
    BY <1>4, <1>5, <1>6, <1>8 DEF IInv, OwnInv, NoDescriptorLeak
  <1>11. LostInv'
    BY <1>1, <1>4, <1>5, <1>6, <1>7, <1>8 DEF IInv, TypeOK, OwnInv, LostInv, UniqueOwnership
  <1> QED BY <1>2, <1>3, <1>9, <1>10, <1>11 DEF IInv, OwnInv

LEMMA OtherStep ==
  ASSUME IInv, NEW f \in Fd, OtherOpen(f) \/ OtherClose(f) PROVE IInv'
  <1>0. PICK e \in {[type |-> "other", flags |-> {}], FreeEntry} :
          kern' = [kern EXCEPT ![f] = e]
    BY DEF OtherOpen, OtherClose
  <1>a. e \in KernelEntry /\ e.type \notin {"STREAM", "DGRAM"}
    BY DEF KernelEntry, FreeEntry
  <1>b. ~IsSocket(f)
    BY DEF OtherOpen, OtherClose, LowestFree, IsSocket
  <1>1. TypeOK'
    BY <1>0, <1>a DEF IInv, TypeOK, OtherOpen, OtherClose
  <1>2. ControlInv'
    BY DEF IInv, ControlInv, OtherOpen, OtherClose
  <1>3. \A g \in Fd : IsSocket(g)' <=> IsSocket(g)
    BY <1>0, <1>a, <1>b DEF IInv, TypeOK, IsSocket
  <1>4. \A p \in Objs : Held(p)' = Held(p) /\ Held(p) \subseteq Fd
    BY DEF IInv, TypeOK, OtherOpen, OtherClose, Held, handle
  <1>5. \A p \in Objs : handle(p)' = handle(p) /\ newConnSD' = newConnSD
    BY DEF OtherOpen, OtherClose, handle
  <1>6. lost' = lost
    BY DEF OtherOpen, OtherClose
  <1>7. UniqueOwnership'
    BY <1>3, <1>4, <1>5 DEF IInv, OwnInv, UniqueOwnership
  <1>8. NoDescriptorLeak' /\ LostInv'
    BY <1>3, <1>4, <1>6 DEF IInv, TypeOK, OwnInv, NoDescriptorLeak, LostInv
  <1> QED BY <1>1, <1>2, <1>7, <1>8 DEF IInv, OwnInv

-----------------------------------------------------------------------------
LEMMA StutterKeepsIInv == ASSUME IInv, UNCHANGED vars PROVE IInv'
  <1>1. TypeOK'
    BY DEF vars, IInv, TypeOK
  <1>2. ControlInv'
    BY DEF vars, IInv, ControlInv
  <1>3. Frame
    BY DEF vars, Frame, handle
  <1> QED BY <1>1, <1>2, <1>3, FrameKeepsOwnership DEF IInv

LEMMA NextKeepsIInv == IInv /\ [Next]_vars => IInv'
  <1> SUFFICES ASSUME IInv, [Next]_vars PROVE IInv'
    OBVIOUS
  <1>1. ASSUME NEW o \in Objs, Call(o) PROVE IInv'
    BY <1>1, DefaultConstructStep, ConstructWithAddressStep, DestroyStep, OpenStep, CloseStep,
      BindStep, ListenStep, ConnectStep, DisconnectStep, SendToStep DEF Call
  <1>2. ASSUME NEW o \in Objs, SystemCall(o) PROVE IInv'
    BY <1>2, SysShutdownStep, SysCloseStep, ResetStep, SysSocketStep, SysSocketFailsStep,
      SysBindStep, SysListenStep, SysConnectStep, SysSendtoStep DEF SystemCall
  <1>3. ASSUME NEW o \in Objs, Accept(o) PROVE IInv'
    BY <1>3, SysAcceptStep, AcceptReturnsStep, AcceptNewFailsStep DEF Accept
  <1>4. ASSUME NEW f \in Fd, OtherOpen(f) \/ OtherClose(f) PROVE IInv'
    BY <1>4, OtherStep
  <1> QED BY <1>1, <1>2, <1>3, <1>4, StutterKeepsIInv DEF Next

THEOREM Inductive == Spec => []IInv
  <1>1. Init => IInv
    BY InitIInv
  <1>2. IInv /\ [Next]_vars => IInv'
    BY NextKeepsIInv
  <1> QED BY <1>1, <1>2, PTL DEF Spec

\* The variables of the objects and of the kernel keep their types.
THEOREM TypeCorrect == Spec => []TypeOK
  <1>1. IInv => TypeOK
    BY DEF IInv
  <1> QED BY <1>1, Inductive, PTL

\* Whatever the number of objects, threads and descriptors, and wherever the
\* calls of Socket.cpp interleave: no descriptor is ever answered for twice.
THEOREM DescriptorsAreUnique == Spec => []UniqueOwnership
  <1>1. IInv => UniqueOwnership
    BY DEF IInv, OwnInv
  <1> QED BY <1>1, Inductive, PTL

\* Destructors, failed constructors and failed calls to open() leave no
\* descriptor behind, whatever the number of objects and descriptors.
THEOREM NothingLeaks == Spec => []NoDescriptorLeak
  <1>1. IInv => NoDescriptorLeak
    BY DEF IInv, OwnInv
  <1> QED BY <1>1, Inductive, PTL

----------------------------------------------------------------------------
(* The classes implement HandleOwnership, and only the holder of a socket   *)
(* acts on it.                                                              *)

USE LifecycleAssumption DEF Fd, INVALID

(* The state of HandleOwnership that a state of the objects stands for. *)
Holders == {"object", "accept"} \X Objs
Holding == [h \in Holders |->
              (IF h[1] = "object" THEN {handle(h[2])} ELSE {newConnSD[h[2]]}) \ {INVALID}]
FreeFds == {f \in Fd : kern[f].type = "free"}
OtherFds == {f \in Fd : kern[f].type = "other"}

LEMMA Mapping ==
  /\ Ownership!vars = <<Holding, FreeFds, OtherFds, lost>>
  /\ Ownership!vars' = <<Holding', FreeFds', OtherFds', lost'>>
  BY DEF Ownership!vars, Holding, Holders, FreeFds, OtherFds

LEMMA InitMaps == Init => Ownership!Init
  <1> SUFFICES ASSUME Init PROVE Ownership!Init
    OBVIOUS
  <1>1. Holding = [h \in Holders |-> {}]
    BY DEF Init, Holding, Holders, handle
  <1>2. PICK used \in SUBSET Fd :
          kern = [f \in Fd |-> IF f \in used THEN [type |-> "other", flags |-> {}] ELSE FreeEntry]
    BY DEF Init
  <1>3. OtherFds = used /\ FreeFds = Fd \ used
    BY <1>2 DEF OtherFds, FreeFds, FreeEntry
  <1> QED BY <1>1, <1>3 DEF Init, Ownership!Init, Holding, Holders, OtherFds, FreeFds

\* A step that keeps Frame changes nothing that HandleOwnership speaks of.
LEMMA FrameStutters == ASSUME Frame PROVE UNCHANGED Ownership!vars
  BY DEF Frame, Ownership!vars

LEMMA SameOnHolders ==
  ASSUME NEW F, NEW G, F = [h \in Holders |-> F[h]], G = [h \in Holders |-> G[h]],
         \A o \in Objs : F[<<"object", o>>] = G[<<"object", o>>] /\ F[<<"accept", o>>] = G[<<"accept", o>>]
  PROVE  F = G
  <1>1. ASSUME NEW h \in Holders PROVE F[h] = G[h]
    <2>1. PICK kind \in {"object", "accept"}, o \in Objs : h = <<kind, o>>
      BY DEF Holders
    <2> QED BY <2>1
  <1> QED BY <1>1

\* What an object, or an accept(), gets or gives up.
LEMMA ObjectChanges ==
  ASSUME NEW o \in Objs, NEW v, handle(o)' = v,
         \A p \in Objs \ {o} : handle(p)' = handle(p), newConnSD' = newConnSD
  PROVE  Holding' = [Holding EXCEPT ![<<"object", o>>] = {v} \ {INVALID}]
  <1> DEFINE new == [Holding EXCEPT ![<<"object", o>>] = {v} \ {INVALID}]
  <1>1. new = [h \in Holders |-> new[h]] /\ Holding' = [h \in Holders |-> Holding'[h]]
    BY DEF Holding
  <1>2. ASSUME NEW p \in Objs
        PROVE  /\ Holding'[<<"object", p>>] = new[<<"object", p>>]
               /\ Holding'[<<"accept", p>>] = new[<<"accept", p>>]
    BY DEF Holding, Holders
  <1> HIDE DEF new
  <1>3. Holding' = new
    BY <1>1, <1>2, SameOnHolders
  <1> QED BY <1>3 DEF new

LEMMA AcceptChanges ==
  ASSUME NEW o \in Objs, newConnSD \in [Objs -> Fd \cup {INVALID}], NEW v,
         newConnSD' = [newConnSD EXCEPT ![o] = v],
         \A p \in Objs : handle(p)' = handle(p)
  PROVE  Holding' = [Holding EXCEPT ![<<"accept", o>>] = {v} \ {INVALID}]
  <1> DEFINE new == [Holding EXCEPT ![<<"accept", o>>] = {v} \ {INVALID}]
  <1>1. new = [h \in Holders |-> new[h]] /\ Holding' = [h \in Holders |-> Holding'[h]]
    BY DEF Holding
  <1>2. ASSUME NEW p \in Objs
        PROVE  /\ Holding'[<<"object", p>>] = new[<<"object", p>>]
               /\ Holding'[<<"accept", p>>] = new[<<"accept", p>>]
    BY DEF Holding, Holders
  <1> HIDE DEF new
  <1>3. Holding' = new
    BY <1>1, <1>2, SameOnHolders
  <1> QED BY <1>3 DEF new

LEMMA BothChange ==
  ASSUME NEW o \in Objs, NEW c \in Objs, newConnSD \in [Objs -> Fd \cup {INVALID}],
         NEW x \in Fd,
         newConnSD' = [newConnSD EXCEPT ![o] = INVALID], handle(c)' = x,
         \A p \in Objs \ {c} : handle(p)' = handle(p)
  PROVE  Holding' = [Holding EXCEPT ![<<"accept", o>>] = {}, ![<<"object", c>>] = {x}]
  <1> DEFINE new == [Holding EXCEPT ![<<"accept", o>>] = {}, ![<<"object", c>>] = {x}]
  <1>1. new = [h \in Holders |-> new[h]] /\ Holding' = [h \in Holders |-> Holding'[h]]
    BY DEF Holding
  <1>2. ASSUME NEW p \in Objs
        PROVE  /\ Holding'[<<"object", p>>] = new[<<"object", p>>]
               /\ Holding'[<<"accept", p>>] = new[<<"accept", p>>]
    <2>0. {x} \ {INVALID} = {x}
      <3>1. x # INVALID
        OBVIOUS
      <3> QED BY <3>1
    <2>1. Holding'[<<"object", p>>] = new[<<"object", p>>]
      <3>1. CASE p = c
        BY <2>0, <3>1 DEF Holding, Holders
      <3>2. CASE p # c
        BY <3>2 DEF Holding, Holders
      <3> QED BY <3>1, <3>2
    <2>2. <<"accept", p>> # <<"object", c>>
      OBVIOUS
    <2>3. Holding'[<<"accept", p>>] = new[<<"accept", p>>]
      BY <2>2 DEF Holding, Holders
    <2> QED BY <2>1, <2>3
  <1> HIDE DEF new
  <1>3. Holding' = new
    BY <1>1, <1>2, SameOnHolders
  <1> QED BY <1>3 DEF new

(* What each step that is not a stutter does to the mapped state. *)

LEMMA AcquireMaps ==
  ASSUME NEW h \in Holders, NEW x \in FreeFds,
         Holding[h] = {},
         Holding' = [Holding EXCEPT ![h] = {x}],
         FreeFds' = FreeFds \ {x}, OtherFds' = OtherFds, lost' = lost
  PROVE  Ownership!Next
  <1>1. Ownership!Acquire(h, x)
    BY DEF Ownership!Acquire, Holding, Holders, FreeFds, OtherFds
  <1> QED BY <1>1 DEF Ownership!Next, Holders, FreeFds

LEMMA ReleaseMaps ==
  ASSUME NEW h \in Holders, NEW x \in Holding[h], x \in Fd,
         Holding' = [Holding EXCEPT ![h] = {}],
         FreeFds' = FreeFds \cup {x}, OtherFds' = OtherFds, lost' = lost
  PROVE  Ownership!Next
  <1>1. Ownership!Release(h, x)
    BY DEF Ownership!Release, Holding, Holders, FreeFds, OtherFds
  <1> QED BY <1>1 DEF Ownership!Next, Holders

LEMMA HandOverMaps ==
  ASSUME NEW h \in Holders, NEW g \in Holders, NEW x \in Holding[h], x \in Fd,
         Holding[g] = {},
         Holding' = [Holding EXCEPT ![h] = {}, ![g] = {x}],
         FreeFds' = FreeFds, OtherFds' = OtherFds, lost' = lost
  PROVE  Ownership!Next
  <1>1. Ownership!HandOver(h, g, x)
    BY DEF Ownership!HandOver, Holding, Holders, FreeFds, OtherFds
  <1> QED BY <1>1 DEF Ownership!Next, Holders

LEMMA AbandonMaps ==
  ASSUME NEW h \in Holders, NEW x \in Holding[h], x \in Fd,
         Holding' = [Holding EXCEPT ![h] = {}],
         FreeFds' = FreeFds, OtherFds' = OtherFds, lost' = lost \cup {x}
  PROVE  Ownership!Next
  <1>1. Ownership!Abandon(h, x)
    BY DEF Ownership!Abandon, Holding, Holders, FreeFds, OtherFds
  <1> QED BY <1>1 DEF Ownership!Next, Holders

LEMMA CloseMaps ==
  ASSUME IInv, NEW o \in Objs, SysClose(o)
  PROVE  Ownership!Next \/ UNCHANGED Ownership!vars
  <1>1. CASE ~isOpened(o)
    <2>1. Frame
      BY <1>1 DEF IInv, TypeOK, SysClose, Goto, Frame, handle, isOpened
    <2> QED BY <2>1, FrameStutters
  <1>2. CASE isOpened(o)
    <2> DEFINE h == <<"object", o>>
               x == sockDesc[o]
    <2>1. h \in Holders /\ x \in Fd /\ handle(o) = x
      BY <1>2 DEF Holders, IInv, TypeOK, SysClose, isOpened, handle
    <2>2. x \in Holding[h]
      BY <1>2, <2>1 DEF Holding, isOpened
    <2>3. IsSocket(x)
      BY <1>2, <2>1 DEF IInv, OwnInv, UniqueOwnership, Held, isOpened
    <2>4. kern' = [kern EXCEPT ![x] = FreeEntry]
      BY <1>2 DEF SysClose
    <2>5. FreeFds' = FreeFds \cup {x} /\ OtherFds' = OtherFds
      BY <2>1, <2>3, <2>4 DEF IInv, TypeOK, FreeFds, OtherFds, IsSocket, FreeEntry
    <2>6. handle(o)' = INVALID /\ \A p \in Objs \ {o} : handle(p)' = handle(p)
      BY DEF IInv, TypeOK, SysClose, Goto, handle
    <2>7. Holding' = [Holding EXCEPT ![h] = {}]
      BY <2>6, ObjectChanges DEF SysClose
    <2> HIDE DEF h, x
    <2> QED BY <2>1, <2>2, <2>5, <2>7, ReleaseMaps DEF SysClose
  <1> QED BY <1>1, <1>2

LEMMA SocketMaps == ASSUME IInv, NEW o \in Objs, SysSocket(o) PROVE Ownership!Next
  <1>1. PICK f \in Fd :
          /\ LowestFree(f)
          /\ kern' = [kern EXCEPT ![f] =
                        [type |-> SocketType(cls[o], task[o]), flags |-> {}]]
          /\ sockDesc' = [sockDesc EXCEPT ![o] = f]
    BY DEF SysSocket
  <1>2. SocketType(cls[o], task[o]) \in {"STREAM", "DGRAM"}
    BY DEF SocketType
  <1> DEFINE h == <<"object", o>>
  <1>3. h \in Holders /\ f \in FreeFds
    BY <1>1 DEF Holders, FreeFds, LowestFree
  <1>4. Holding[h] = {}
    BY DEF IInv, ControlInv, SysSocket, Holding, Holders, handle
  <1>5. FreeFds' = FreeFds \ {f} /\ OtherFds' = OtherFds
    BY <1>1, <1>2 DEF IInv, TypeOK, FreeFds, OtherFds, LowestFree
  <1>6. handle(o)' = f /\ \A p \in Objs \ {o} : handle(p)' = handle(p)
    BY <1>1 DEF IInv, TypeOK, SysSocket, Goto, AfterCreate, handle
  <1>7. Holding' = [Holding EXCEPT ![h] = {f}]
    <2>1. f # INVALID
      OBVIOUS
    <2> QED BY <1>6, <2>1, ObjectChanges DEF SysSocket
  <1> HIDE DEF h
  <1> QED BY <1>3, <1>4, <1>5, <1>7, AcquireMaps DEF SysSocket

LEMMA AcceptMaps == ASSUME IInv, NEW o \in Objs, SysAccept(o) PROVE Ownership!Next
  <1>1. PICK f \in Fd :
          /\ LowestFree(f)
          /\ kern' = [kern EXCEPT ![f] =
                        [type |-> "STREAM", flags |-> {"bound", "connected"}]]
          /\ newConnSD' = [newConnSD EXCEPT ![o] = f]
    BY DEF SysAccept
  <1> DEFINE h == <<"accept", o>>
  <1>2. h \in Holders /\ f \in FreeFds
    BY <1>1 DEF Holders, FreeFds, LowestFree
  <1>3. Holding[h] = {}
    BY DEF IInv, TypeOK, ControlInv, SysAccept, Live, Holding, Holders
  <1>4. FreeFds' = FreeFds \ {f} /\ OtherFds' = OtherFds
    BY <1>1 DEF IInv, TypeOK, FreeFds, OtherFds, LowestFree
  <1>5. \A p \in Objs : handle(p)' = handle(p)
    BY DEF IInv, TypeOK, SysAccept, Live, Goto, handle
  <1>6. Holding' = [Holding EXCEPT ![h] = {f}]
    <2>1. f # INVALID /\ newConnSD \in [Objs -> Fd \cup {INVALID}]
      BY DEF IInv, TypeOK
    <2>2. {f} \ {INVALID} = {f}
      BY <2>1
    <2> QED BY <1>1, <1>5, <2>1, <2>2, AcceptChanges
  <1> HIDE DEF h
  <1> QED BY <1>2, <1>3, <1>4, <1>6, AcquireMaps DEF SysAccept

LEMMA AcceptReturnsMaps ==
  ASSUME IInv, NEW o \in Objs, NEW c \in Objs, AcceptReturns(o, c) PROVE Ownership!Next
  <1> DEFINE h == <<"accept", o>>
             g == <<"object", c>>
             x == newConnSD[o]
  <1>1. o # c /\ x \in Fd /\ sockDesc[c] = INVALID
    BY DEF IInv, TypeOK, ControlInv, AcceptReturns
  <1>2. h \in Holders /\ g \in Holders /\ h # g
    BY DEF Holders
  <1>3. x \in Holding[h] /\ Holding[g] = {}
    BY <1>1, <1>2 DEF Holding, AcceptReturns, handle
  <1>4. handle(c)' = x /\ \A p \in Objs \ {c} : handle(p)' = handle(p)
    BY <1>1 DEF IInv, TypeOK, AcceptReturns, Return, Goto, handle
  <1>5. newConnSD' = [newConnSD EXCEPT ![o] = INVALID]
    BY DEF AcceptReturns
  <1>6. Holding' = [Holding EXCEPT ![h] = {}, ![g] = {x}]
    BY <1>1, <1>4, <1>5, BothChange DEF IInv, TypeOK
  <1>7. FreeFds' = FreeFds /\ OtherFds' = OtherFds
    BY DEF AcceptReturns, FreeFds, OtherFds
  <1> HIDE DEF h, g, x
  <1> QED BY <1>1, <1>2, <1>3, <1>6, <1>7, HandOverMaps DEF AcceptReturns

LEMMA AcceptNewFailsMaps ==
  ASSUME IInv, NEW o \in Objs, AcceptNewFails(o) PROVE Ownership!Next
  <1> DEFINE h == <<"accept", o>>
             x == newConnSD[o]
  <1>1. h \in Holders /\ x \in Fd
    BY DEF Holders, IInv, TypeOK, ControlInv, AcceptNewFails
  <1>2. x \in Holding[h]
    BY <1>1 DEF Holding
  <1>3. \A p \in Objs : handle(p)' = handle(p)
    BY DEF IInv, TypeOK, AcceptNewFails, Return, Goto, handle
  <1>4. Holding' = [Holding EXCEPT ![h] = {}]
    <2>1. newConnSD \in [Objs -> Fd \cup {INVALID}]
      BY DEF IInv, TypeOK
    <2> QED BY <1>3, <2>1, AcceptChanges DEF AcceptNewFails
  <1>5. FreeFds' = FreeFds /\ OtherFds' = OtherFds /\ lost' = lost \cup {x}
    BY DEF AcceptNewFails, FreeFds, OtherFds
  <1> HIDE DEF h, x
  <1> QED BY <1>1, <1>2, <1>4, <1>5, AbandonMaps

LEMMA OtherMaps ==
  ASSUME IInv, NEW f \in Fd, OtherOpen(f) \/ OtherClose(f) PROVE Ownership!Next
  <1>1. Holding' = Holding /\ lost' = lost
    BY DEF Holding, handle, OtherOpen, OtherClose
  <1>2. CASE OtherOpen(f)
    <2>1. f \in FreeFds /\ FreeFds' = FreeFds \ {f} /\ OtherFds' = OtherFds \cup {f}
      BY <1>2 DEF IInv, TypeOK, OtherOpen, LowestFree, FreeFds, OtherFds
    <2>2. Ownership!OutsideAcquire(f)
      BY <1>1, <2>1 DEF Ownership!OutsideAcquire, Holding, Holders, FreeFds, OtherFds
    <2> QED BY <2>2 DEF Ownership!Next
  <1>3. CASE OtherClose(f)
    <2>1. f \in OtherFds /\ FreeFds' = FreeFds \cup {f} /\ OtherFds' = OtherFds \ {f}
      BY <1>3 DEF IInv, TypeOK, OtherClose, FreeEntry, FreeFds, OtherFds
    <2>2. Ownership!OutsideRelease(f)
      BY <1>1, <2>1 DEF Ownership!OutsideRelease, Holding, Holders, FreeFds, OtherFds
    <2> QED BY <2>2 DEF Ownership!Next
  <1> QED BY <1>2, <1>3

-----------------------------------------------------------------------------
LEMMA NextMaps == IInv /\ [Next]_vars => [Ownership!Next]_(Ownership!vars)
  <1> SUFFICES ASSUME IInv, [Next]_vars PROVE Ownership!Next \/ UNCHANGED Ownership!vars
    OBVIOUS
  <1>1. ASSUME NEW o \in Objs, Call(o) PROVE UNCHANGED Ownership!vars
    BY <1>1, DefaultConstructStep, ConstructWithAddressStep, DestroyStep, OpenStep, CloseStep,
      BindStep, ListenStep, ConnectStep, DisconnectStep, SendToStep, FrameStutters DEF Call
  <1>2. ASSUME NEW o \in Objs, SystemCall(o)
        PROVE  Ownership!Next \/ UNCHANGED Ownership!vars
    BY <1>2, SysShutdownStep, ResetStep, SysSocketFailsStep, SysBindStep, SysListenStep,
      SysConnectStep, SysSendtoStep, FrameStutters, CloseMaps, SocketMaps DEF SystemCall
  <1>3. ASSUME NEW o \in Objs, Accept(o) PROVE Ownership!Next
    BY <1>3, AcceptMaps, AcceptReturnsMaps, AcceptNewFailsMaps DEF Accept
  <1>4. ASSUME NEW f \in Fd, OtherOpen(f) \/ OtherClose(f) PROVE Ownership!Next
    BY <1>4, OtherMaps
  <1>5. ASSUME UNCHANGED vars PROVE Frame
    BY <1>5 DEF vars, Frame, handle
  <1> QED BY <1>1, <1>2, <1>3, <1>4, <1>5, FrameStutters DEF Next

\* The member functions of Socket, TCPSocket, TCPServerSocket, UDPSocket and
\* UDPClientSocket implement the ownership discipline: every system call is a
\* step of HandleOwnership on one descriptor, or invisible to it.
THEOREM ImplementsOwnership == Spec => OwnershipSpec
  <1>1. Init => Ownership!Init
    BY InitMaps
  <1>2. IInv /\ [Next]_vars => [Ownership!Next]_(Ownership!vars)
    BY NextMaps
  <1> QED BY <1>1, <1>2, Inductive, PTL DEF Spec, OwnershipSpec, Ownership!Spec

-----------------------------------------------------------------------------
(* Who acts on a socket. *)

HolderActs ==
  \A f \in Fd : kern[f].type # "free" /\ kern'[f] # kern[f] =>
    IF IsSocket(f)
    THEN \E o \in Objs : /\ f = handle(o)
                        /\ \A p \in Objs \ {o} : Moves(p)' = Moves(p)
    ELSE kern'[f] = FreeEntry /\ \A p \in Objs : Moves(p)' = Moves(p)

\* A step of object o that changes, of all sockets, at most its own.
LEMMA ActsOnItsOwn ==
  ASSUME NEW o \in Objs, \A p \in Objs \ {o} : Moves(p)' = Moves(p),
         \A f \in Fd : kern[f].type # "free" /\ kern'[f] # kern[f] => f = handle(o) /\ IsSocket(f)
  PROVE  HolderActs
  BY DEF HolderActs

\* Calls that set a flag, and the system calls that have a socket in hand.
LEMMA OpenSocketIsHeld ==
  ASSUME IInv, NEW o \in Objs, pc[o] # "reset", isOpened(o)
  PROVE  sockDesc[o] \in Fd /\ sockDesc[o] = handle(o) /\ IsSocket(sockDesc[o])
  BY DEF IInv, TypeOK, OwnInv, UniqueOwnership, Held, handle, isOpened

LEMMA SetFlagsChangesOneEntry ==
  ASSUME TypeOK, NEW x \in Fd, NEW flags, SetFlags(x, flags) \/ UNCHANGED kern
  PROVE  \A f \in Fd : kern'[f] # kern[f] => f = x
  BY DEF TypeOK, SetFlags

LEMMA CallActs == ASSUME IInv, NEW o \in Objs, Call(o) PROVE HolderActs
  <1>1. CASE UNCHANGED kern
    BY <1>1 DEF HolderActs
  <1>2. CASE Bind(o) \/ Listen(o) \/ Connect(o) \/ Disconnect(o)
    <2>1. sockDesc[o] \in Fd /\ sockDesc[o] = handle(o) /\ IsSocket(sockDesc[o])
      BY <1>2, OpenSocketIsHeld DEF Bind, Listen, Connect, Disconnect, Live
    <2>2. \A f \in Fd : kern'[f] # kern[f] => f = sockDesc[o]
      BY <1>2, <2>1, SetFlagsChangesOneEntry DEF IInv, TypeOK, Bind, Listen, Connect, Disconnect
    <2>3. \A p \in Objs \ {o} : Moves(p)' = Moves(p)
      BY <1>2 DEF Bind, Listen, Connect, Disconnect, Moves
    <2> QED BY <2>1, <2>2, <2>3, ActsOnItsOwn
  <1> QED
    BY <1>1, <1>2 DEF Call, DefaultConstruct, ConstructWithAddress, Destroy, Open, Close, SendTo

LEMMA SystemCallActs == ASSUME IInv, NEW o \in Objs, SystemCall(o) PROVE HolderActs
  <1>1. CASE UNCHANGED kern
    BY <1>1 DEF HolderActs
  <1>2. CASE SysShutdown(o) \/ SysClose(o)
    <2>1. CASE ~isOpened(o)
      BY <1>1, <1>2, <2>1 DEF SysShutdown, SysClose
    <2>2. CASE isOpened(o)
      <3>1. sockDesc[o] \in Fd /\ sockDesc[o] = handle(o) /\ IsSocket(sockDesc[o])
        BY <1>2, <2>2, OpenSocketIsHeld DEF SysShutdown, SysClose
      <3>2. \A f \in Fd : kern'[f] # kern[f] => f = sockDesc[o]
        BY <1>2, <2>2, <3>1 DEF IInv, TypeOK, SysShutdown, SysClose
      <3>3. \A p \in Objs \ {o} : Moves(p)' = Moves(p)
        BY <1>2 DEF IInv, TypeOK, SysShutdown, SysClose, Goto, Moves
      <3> QED BY <3>1, <3>2, <3>3, ActsOnItsOwn
    <2> QED BY <2>1, <2>2
  <1>3. CASE SysSocket(o)
    <2>1. \A f \in Fd : kern'[f] # kern[f] => kern[f].type = "free"
      BY <1>3 DEF IInv, TypeOK, SysSocket, LowestFree
    <2> QED BY <2>1 DEF HolderActs
  <1>4. CASE SysBind(o) \/ SysListen(o) \/ SysConnect(o) \/ SysSendto(o)
    <2>1. sockDesc[o] \in Fd /\ sockDesc[o] = handle(o) /\ IsSocket(sockDesc[o])
      BY <1>4, OpenSocketIsHeld
        DEF IInv, ControlInv, SysBind, SysListen, SysConnect, SysSendto, isOpened
    <2>2. \A f \in Fd : kern'[f] # kern[f] => f = sockDesc[o]
      BY <1>4, <2>1, SetFlagsChangesOneEntry
        DEF IInv, SysBind, SysListen, SysConnect, SysSendto
    <2>3. \A p \in Objs \ {o} : Moves(p)' = Moves(p)
      BY <1>4 DEF IInv, TypeOK, SysBind, SysListen, SysConnect, SysSendto, Destructor,
        Return, Goto, Moves
    <2> QED BY <2>1, <2>2, <2>3, ActsOnItsOwn
  <1> QED BY <1>1, <1>2, <1>3, <1>4 DEF SystemCall, Reset, SysSocketFails

LEMMA AcceptActs == ASSUME IInv, NEW o \in Objs, Accept(o) PROVE HolderActs
  <1>1. CASE UNCHANGED kern
    BY <1>1 DEF HolderActs
  <1>2. CASE SysAccept(o)
    <2>1. \A f \in Fd : kern'[f] # kern[f] => kern[f].type = "free"
      BY <1>2 DEF IInv, TypeOK, SysAccept, LowestFree
    <2> QED BY <2>1 DEF HolderActs
  <1> QED BY <1>1, <1>2 DEF Accept, AcceptReturns, AcceptNewFails

LEMMA OtherActs == ASSUME IInv, NEW f \in Fd, OtherOpen(f) \/ OtherClose(f) PROVE HolderActs
  <1>1. \A p \in Objs : Moves(p)' = Moves(p)
    BY DEF OtherOpen, OtherClose, Moves
  <1>2. \A g \in Fd : kern[g].type # "free" /\ kern'[g] # kern[g] => ~IsSocket(g) /\ kern'[g] = FreeEntry
    BY DEF IInv, TypeOK, OtherOpen, OtherClose, LowestFree, IsSocket
  <1> QED BY <1>1, <1>2 DEF HolderActs

\* While a socket exists only the thread of the object that answers for it
\* changes or closes it, at whatever system calls the threads interleave; and
\* no member function touches a descriptor of the rest of the process.
THEOREM HoldersAct == Spec => OnlyTheHolderActs
  <1>1. IInv /\ [Next]_vars => [HolderActs]_vars
    BY CallActs, SystemCallActs, AcceptActs, OtherActs DEF Next
  <1> QED BY <1>1, Inductive, PTL DEF Spec, OnlyTheHolderActs, HolderActs

----------------------------------------------------------------------------
(* What a constructor delivers. *)

(* A constructor is at one of its own system calls, and at those of its     *)
(* class.                                                                   *)
BuildInv ==
  \A o \in Objs : task[o] = "constructor" =>
    /\ pc[o] \in {"socket", "bind", "listen", "connect"}
    /\ cls[o] \in {"TCPServerSocket", "UDPSocket"} => pc[o] # "connect"
    /\ cls[o] \in {"TCPSocket", "UDPClientSocket"} => pc[o] \in {"socket", "connect"}
    /\ pc[o] = "listen" => cls[o] = "TCPServerSocket"

Delivers ==
  \A o \in Objs : task[o] = "constructor" /\ task'[o] = "none" /\ cls'[o] # "none" =>
    /\ sockDesc'[o] # INVALID
    /\ Delivered(cls[o]) \subseteq kern'[sockDesc'[o]].flags

(* Only the thread of o moves, and no constructor ends. *)
OthersStay(o) ==
  \A p \in Objs \ {o} : task'[p] = task[p] /\ pc'[p] = pc[p] /\ cls'[p] = cls[p]

LEMMA CallBuilds == ASSUME IInv, BuildInv, NEW o \in Objs, Call(o) PROVE BuildInv' /\ Delivers
  <1>1. task[o] = "none"
    BY DEF Call, DefaultConstruct, ConstructWithAddress, Destroy, Open, Close, Bind, Listen, Connect,
      Disconnect, SendTo, Live, IInv, ControlInv
  <1>2. OthersStay(o)
    BY DEF Call, DefaultConstruct, ConstructWithAddress, Destroy, Destructor, Open, Close, Bind, Listen, Connect,
      Disconnect, SendTo, CreateSocket, Return, Goto, OthersStay, IInv, TypeOK
  <1>3. task'[o] = "constructor" => pc'[o] = "socket"
    BY <1>1 DEF Call, DefaultConstruct, ConstructWithAddress, Destroy, Destructor, Open, Close, Bind, Listen, Connect,
      Disconnect, SendTo, CreateSocket, Return, Goto, isOpened, IInv, TypeOK, ControlInv
  <1>4. BuildInv'
    BY <1>2, <1>3 DEF BuildInv, OthersStay
  <1>5. Delivers
    BY <1>1, <1>2 DEF Delivers, OthersStay
  <1> QED BY <1>4, <1>5

LEMMA SystemCallBuilds == ASSUME IInv, BuildInv, NEW o \in Objs, SystemCall(o) PROVE BuildInv' /\ Delivers
  <1>1. OthersStay(o)
    BY DEF SystemCall, SysShutdown, SysClose, Reset, SysSocket, SysSocketFails, SysBind, SysListen, SysConnect,
      SysSendto, Destructor, Return, Goto, OthersStay, IInv, TypeOK
  <1>2. CASE task[o] # "constructor"
    <2>1. task'[o] # "constructor" \/ SysBind(o)
      BY <1>2 DEF SystemCall, SysShutdown, SysClose, Reset, SysSocket, SysSocketFails, SysListen, SysConnect,
        SysSendto, Destructor, Return, Goto, IInv, TypeOK
    <2>2. SysBind(o) /\ task'[o] = "constructor" => pc'[o] = "listen" /\ cls'[o] = "TCPServerSocket"
      BY <1>2 DEF SysBind, Destructor, Return, Goto, IInv, TypeOK
    <2> QED BY <1>1, <1>2, <2>1, <2>2 DEF BuildInv, Delivers, OthersStay
  <1>3. CASE task[o] = "constructor"
    <2>1. CASE SysSocket(o)
      BY <1>1, <1>3, <2>1 DEF SysSocket, AfterCreate, Goto, BuildInv, Delivers, OthersStay, IInv, TypeOK, AllClasses
    <2>2. CASE SysSocketFails(o)
      BY <1>1, <1>3, <2>2 DEF SysSocketFails, Return, Goto, BuildInv, Delivers, OthersStay, IInv, TypeOK
    <2>3. sockDesc[o] # INVALID => sockDesc[o] \in Fd /\ kern[sockDesc[o]] \in KernelEntry
      BY DEF IInv, TypeOK
    <2>4. CASE SysBind(o)
      <3>1. sockDesc[o] # INVALID /\ sockDesc' = sockDesc
        BY <2>4 DEF SysBind, IInv, ControlInv
      <3>2. CASE SetFlags(sockDesc[o], {"bound"}) /\ UNCHANGED cls
                 /\ IF cls[o] = "TCPServerSocket" THEN Goto(o, "listen", "constructor") ELSE Return(o)
        <4>1. cls[o] \in {"UDPSocket", "TCPServerSocket"}
          BY <1>3, <2>4 DEF SysBind, BuildInv, IInv, TypeOK, ControlInv, AllClasses
        <4>2. {"bound"} \subseteq kern'[sockDesc[o]].flags
          BY <2>3, <3>1, <3>2 DEF SetFlags, IInv, TypeOK, KernelEntry
        <4> QED BY <1>1, <3>1, <3>2, <4>1, <4>2 DEF Return, Goto, BuildInv, Delivers, Delivered, OthersStay, IInv, TypeOK
      <3>3. CASE Destructor(o)
        BY <1>1, <3>3 DEF Destructor, Return, Goto, BuildInv, Delivers, OthersStay, IInv, TypeOK
      <3> QED BY <2>4, <3>2, <3>3 DEF SysBind
    <2>5. CASE SysListen(o)
      <3>1. cls[o] = "TCPServerSocket" /\ sockDesc' = sockDesc
        BY <1>3, <2>5 DEF SysListen, BuildInv
      <3>2. CASE CanListen(sockDesc[o]) /\ SetFlags(sockDesc[o], {"bound", "listening"}) /\ Return(o) /\ UNCHANGED cls
        <4>1. sockDesc[o] # INVALID
          BY <3>2, <2>5 DEF SysListen, IInv, ControlInv, CanListen
        <4>2. {"bound", "listening"} \subseteq kern'[sockDesc[o]].flags
          BY <2>3, <3>2, <4>1 DEF SetFlags, IInv, TypeOK, KernelEntry
        <4> QED BY <1>1, <3>1, <3>2, <4>1, <4>2 DEF Return, Goto, BuildInv, Delivers, Delivered, OthersStay, IInv, TypeOK
      <3>3. CASE Destructor(o)
        BY <1>1, <3>3 DEF Destructor, Return, Goto, BuildInv, Delivers, OthersStay, IInv, TypeOK
      <3> QED BY <2>5, <3>2, <3>3 DEF SysListen
    <2>6. CASE SysConnect(o)
      <3>1. cls[o] \in {"TCPSocket", "UDPClientSocket"} /\ sockDesc' = sockDesc /\ sockDesc[o] # INVALID
        BY <1>3, <2>6 DEF SysConnect, BuildInv, IInv, TypeOK, ControlInv, AllClasses
      <3>2. CASE SetFlags(sockDesc[o], {"bound", "connected"}) /\ Return(o) /\ UNCHANGED cls
        <4>1. {"connected"} \subseteq kern'[sockDesc[o]].flags
          BY <2>3, <3>1, <3>2 DEF SetFlags, IInv, TypeOK, KernelEntry
        <4> QED BY <1>1, <3>1, <3>2, <4>1 DEF Return, Goto, BuildInv, Delivers, Delivered, OthersStay, IInv, TypeOK
      <3>3. CASE Destructor(o)
        BY <1>1, <3>3 DEF Destructor, Return, Goto, BuildInv, Delivers, OthersStay, IInv, TypeOK
      <3> QED BY <2>6, <3>2, <3>3 DEF SysConnect
    <2> QED BY <1>3, <2>1, <2>2, <2>4, <2>5, <2>6 DEF SystemCall, SysShutdown, SysClose, Reset, SysSendto, BuildInv
  <1> QED BY <1>2, <1>3

LEMMA AcceptBuilds == ASSUME IInv, BuildInv, NEW o \in Objs, Accept(o) PROVE BuildInv' /\ Delivers
  <1>1. \A p \in Objs : /\ task[p] = "constructor" => task'[p] = task[p] /\ pc'[p] = pc[p] /\ cls'[p] = cls[p]
                        /\ task'[p] = "constructor" => task[p] = "constructor"
    <2>1. task[o] # "constructor"
      BY DEF Accept, SysAccept, AcceptReturns, AcceptNewFails, Live, BuildInv, IInv, ControlInv
    <2>2. ASSUME NEW c \in Objs, AcceptReturns(o, c)
          PROVE  task[c] = "none" /\ \A p \in Objs \ {o, c} : task'[p] = task[p] /\ pc'[p] = pc[p] /\ cls'[p] = cls[p]
      BY <2>2 DEF AcceptReturns, Return, Goto, IInv, TypeOK, ControlInv
    <2>3. ASSUME NEW c \in Objs, AcceptReturns(o, c)
          PROVE  task'[o] # "constructor" /\ task'[c] # "constructor"
      BY <2>2, <2>3 DEF AcceptReturns, Return, Goto, IInv, TypeOK
    <2> QED BY <2>1, <2>2, <2>3 DEF Accept, SysAccept, AcceptNewFails, Return, Goto, IInv, TypeOK
  <1> QED BY <1>1 DEF BuildInv, Delivers

LEMMA NextBuilds == IInv /\ BuildInv /\ [Next]_vars => BuildInv' /\ [Delivers]_vars
  <1> SUFFICES ASSUME IInv, BuildInv, [Next]_vars PROVE BuildInv' /\ [Delivers]_vars
    OBVIOUS
  <1>1. CASE UNCHANGED vars
    BY <1>1 DEF vars, BuildInv
  <1>2. ASSUME NEW f \in Fd, OtherOpen(f) \/ OtherClose(f) PROVE BuildInv' /\ Delivers
    BY <1>2 DEF OtherOpen, OtherClose, BuildInv, Delivers
  <1> QED BY <1>1, <1>2, CallBuilds, SystemCallBuilds, AcceptBuilds DEF Next

(* A constructor given an address returns only an object whose socket is    *)
(* bound, listening or connected as its class says, for every class and     *)
(* whatever other threads do between its system calls.                      *)
THEOREM ConstructorsDeliver == Spec => ConstructorDelivers
  <1>1. Init => BuildInv
    BY DEF Init, BuildInv
  <1> QED BY <1>1, NextBuilds, Inductive, PTL DEF Spec, ConstructorDelivers, Delivers

----------------------------------------------------------------------------
(* The iostream of a TCPSocket.                                             *)

HIDE LifecycleAssumption DEF Fd, INVALID

(* The byte overflow() holds, and what a direct sendAll() may still send. *)
CallInv ==
  /\ call = "put" => ch \in 1 .. MaxPut
  /\ direct + nleft <= MaxDirect

(* A byte the stream has taken is on the connection or still to be sent. *)
NothingLost ==
  \A j \in 1 .. Len(written) :
    \/ \E k \in 1 .. Len(streamed) : streamed[k] = written[j]
    \/ \E k \in 1 .. Len(Rest) : Rest[k] = written[j]

StreamIInv == StreamTypeOK /\ CallInv /\ OutputIntact /\ NothingLost

USE StreamAssumption

(* The part of a sequence behind position i. *)
LEMMA TailPart ==
  ASSUME NEW S, NEW s \in Seq(S), NEW i \in 0 .. Len(s)
  PROVE  /\ SubSeq(s, i + 1, Len(s)) \in Seq(S)
         /\ Len(SubSeq(s, i + 1, Len(s))) = Len(s) - i
         /\ \A k \in 1 .. (Len(s) - i) : SubSeq(s, i + 1, Len(s))[k] = s[i + k]
  BY SubSeqProperties

(* The first n elements of that part, and what remains. *)
LEMMA FirstPart ==
  ASSUME NEW S, NEW s \in Seq(S), NEW i \in 0 .. Len(s), NEW n \in 1 .. (Len(s) - i)
  PROVE  LET r == SubSeq(s, i + 1, Len(s))
         IN  /\ SubSeq(r, 1, n) \in Seq(S)
             /\ r = SubSeq(r, 1, n) \o SubSeq(s, i + n + 1, Len(s))
  <1>1. SubSeq(SubSeq(s, i + 1, Len(s)), 1, n) = SubSeq(s, i + 1, i + n)
    OBVIOUS
  <1>2. SubSeq(s, i + 1, Len(s)) = SubSeq(s, i + 1, i + n) \o SubSeq(s, i + n + 1, Len(s))
    BY ConcatAdjacentSubSeq
  <1> QED BY <1>1, <1>2

(* An element appended to the sequence is appended to that part. *)
LEMMA AppendPart ==
  ASSUME NEW S, NEW s \in Seq(S), NEW i \in 0 .. Len(s), NEW x \in S
  PROVE  SubSeq(Append(s, x), i + 1, Len(Append(s, x))) = Append(SubSeq(s, i + 1, Len(s)), x)
  <1> DEFINE t == Append(s, x)
             a == SubSeq(t, i + 1, Len(t))
             r == SubSeq(s, i + 1, Len(s))
             b == Append(r, x)
  <1>1. t \in Seq(S) /\ Len(t) = Len(s) + 1 /\ \A k \in 1 .. Len(s) : t[k] = s[k]
    OBVIOUS
  <1>2. t[Len(s) + 1] = x
    OBVIOUS
  <1>3. r \in Seq(S) /\ Len(r) = Len(s) - i /\ \A k \in 1 .. (Len(s) - i) : r[k] = s[i + k]
    BY TailPart
  <1> HIDE DEF t, r
  <1>4. i \in 0 .. Len(t)
    BY <1>1
  <1>5. a \in Seq(S) /\ Len(a) = Len(t) - i /\ \A k \in 1 .. (Len(t) - i) : a[k] = t[i + k]
    BY <1>1, <1>4, TailPart
  <1>6. /\ b \in Seq(S) /\ Len(b) = Len(r) + 1
        /\ \A k \in 1 .. Len(r) : b[k] = r[k]
        /\ b[Len(r) + 1] = x
    BY <1>3
  <1> HIDE DEF a, b
  <1>7. ASSUME NEW k \in 1 .. Len(a) PROVE a[k] = b[k]
    <2>1. CASE k = Len(r) + 1
      BY <2>1, <1>1, <1>2, <1>3, <1>5, <1>6
    <2>2. CASE k \in 1 .. Len(r)
      BY <2>2, <1>1, <1>3, <1>5, <1>6
    <2> QED BY <2>1, <2>2, <1>1, <1>3, <1>5
  <1>8. a = b
    BY <1>1, <1>3, <1>5, <1>6, <1>7, SeqEqual
  <1> QED BY <1>8 DEF a, b, t, r

(* Moving a part from one sequence to the other keeps their concatenation. *)
LEMMA MovePart ==
  ASSUME NEW S, NEW s \in Seq(S), NEW r, NEW a \in Seq(S), NEW b \in Seq(S), r = a \o b
  PROVE  (s \o a) \o b = s \o r
  BY ConcatAssociative

LEMMA RestType == ASSUME StreamTypeOK PROVE Rest \in Seq(1 .. MaxPut) /\ Len(Rest) = Len(outBuf) - ptr
  BY TailPart DEF StreamTypeOK, Rest

(* Nothing about the output changes, except that a sync may begin. *)
Quiet == UNCHANGED <<outBuf, ptr, resent, written, streamed>>
Restart == UNCHANGED <<outBuf, written, streamed>> /\ SyncStarts

LEMMA QuietKeepsOutput == ASSUME OutputIntact, NothingLost, Quiet PROVE OutputIntact' /\ NothingLost'
  BY DEF Quiet, OutputIntact, NothingLost, Rest

LEMMA RestartKeepsOutput == ASSUME StreamTypeOK, OutputIntact, NothingLost, Restart PROVE OutputIntact' /\ NothingLost'
  <1>2. Rest' = outBuf
    BY DEF Restart, SyncStarts, Rest, StreamTypeOK
  <1>5. ptr = 0 => Rest = outBuf
    BY DEF Rest, StreamTypeOK
  <1>1. OutputIntact'
    <2> SUFFICES ASSUME ~resent' PROVE (streamed \o Rest = written)'
      BY DEF OutputIntact
    <2>1. ~resent
      BY Zenon DEF Restart, SyncStarts
    <2>2. ~(ptr > 0)
      BY Zenon DEF Restart, SyncStarts
    <2>3. Rest = outBuf
      BY <2>2, <1>5 DEF StreamTypeOK
    <2> QED BY <2>1, <2>3, <1>2 DEF Restart, OutputIntact
  <1>3. \A k \in 1 .. Len(Rest) : \E m \in 1 .. Len(outBuf) : outBuf[m] = Rest[k]
    <2> TAKE k \in 1 .. Len(Rest)
    <2>2. outBuf \in Seq(1 .. MaxPut) /\ ptr \in 0 .. Len(outBuf)
      BY DEF StreamTypeOK
    <2>1. ptr + k \in 1 .. Len(outBuf) /\ Rest[k] = outBuf[ptr + k]
      BY <2>2, TailPart DEF Rest
    <2> QED BY <2>1
  <1>4. NothingLost'
    BY <1>2, <1>3 DEF Restart, NothingLost
  <1> QED BY <1>1, <1>4

LEMMA StreamInitIInv == StreamInit => StreamIInv
  <1> SUFFICES ASSUME StreamInit PROVE StreamIInv
    OBVIOUS
  <1>1. resent \in BOOLEAN /\ fin \in BOOLEAN /\ dead \in BOOLEAN
    BY Zenon DEF StreamInit
  <1>4. StreamTypeOK
    BY <1>1 DEF StreamInit, StreamTypeOK, Calls, Bits, Errors
  <1>2. Rest = <<>> /\ streamed = <<>> /\ written = <<>>
    BY DEF StreamInit, Rest
  <1>3. OutputIntact /\ NothingLost
    BY <1>2 DEF OutputIntact, NothingLost
  <1> QED BY <1>3, <1>4 DEF StreamInit, StreamIInv, CallInv

(* What most actions leave alone, and the types of what they change. *)
LEMMA PutStep == ASSUME StreamIInv, Put PROVE StreamIInv'
  <1>1. CASE rdstate # {}
    <2>1. Quiet BY <1>1 DEF Put, Quiet
    <2>3. rdstate' = rdstate \cup {"fail"} /\ nput' = nput + 1 /\ nput < MaxPut
      BY <1>1 DEF Put
    <2>4. UNCHANGED <<outBuf, ptr, resent, written, ch, call, nclear, nleft, streamed, direct, inVars, netVars, unread>>
      BY <1>1 DEF Put
    <2>2. StreamTypeOK' /\ CallInv'
      BY <2>3, <2>4 DEF StreamIInv, StreamTypeOK, CallInv, Bits, inVars, netVars, Calls
    <2> QED BY <2>1, <2>2, QuietKeepsOutput DEF StreamIInv
  <1>2. CASE rdstate = {} /\ Len(outBuf) < BufSize
    <2> DEFINE x == nput + 1
    <2>0. x \in 1 .. MaxPut
      BY DEF StreamIInv, StreamTypeOK, Put
    <2> HIDE DEF x
    <2>1. /\ outBuf' = Append(outBuf, x) /\ written' = Append(written, x)
          /\ UNCHANGED <<ptr, resent, streamed>>
      BY <1>2 DEF Put, x
    <2>2. /\ outBuf \in Seq(1 .. MaxPut) /\ written \in Seq(1 .. MaxPut)
          /\ streamed \in Seq(1 .. MaxPut) /\ ptr \in 0 .. Len(outBuf)
      BY DEF StreamIInv, StreamTypeOK
    <2>3. StreamTypeOK' /\ CallInv'
      BY <1>2, <2>0, <2>1, <2>2 DEF StreamIInv, Put, StreamTypeOK, CallInv, Bits, inVars, netVars, Calls
    <2>4. Rest \in Seq(1 .. MaxPut) /\ Rest' = Append(Rest, x)
      BY <2>0, <2>1, <2>2, AppendPart, RestType DEF Rest, StreamIInv
    <2>7. streamed \o Append(Rest, x) = Append(streamed \o Rest, x)
      BY <2>0, <2>2, <2>4
    <2>5. OutputIntact'
      BY <2>1, <2>4, <2>7 DEF StreamIInv, OutputIntact
    <2>6. NothingLost'
      <3> SUFFICES ASSUME NEW j \in 1 .. Len(written')
                   PROVE  \/ \E k \in 1 .. Len(streamed') : streamed'[k] = written'[j]
                          \/ \E k \in 1 .. Len(Rest') : Rest'[k] = written'[j]
        BY DEF NothingLost
      <3>1. Len(Rest') = Len(Rest) + 1 /\ Rest'[Len(Rest) + 1] = x /\ \A k \in 1 .. Len(Rest) : Rest'[k] = Rest[k]
        BY <2>0, <2>4
      <3>2. Len(written') = Len(written) + 1 /\ written'[Len(written) + 1] = x
            /\ \A k \in 1 .. Len(written) : written'[k] = written[k]
        BY <2>0, <2>1, <2>2
      <3>3. CASE j = Len(written) + 1
        BY <3>1, <3>2, <3>3, <2>4
      <3>4. CASE j \in 1 .. Len(written)
        <4>1. written'[j] = written[j]
          BY <3>2, <3>4
        <4>2. CASE \E k \in 1 .. Len(streamed) : streamed[k] = written[j]
          BY <4>1, <4>2, <2>1
        <4>3. CASE \E k \in 1 .. Len(Rest) : Rest[k] = written[j]
          BY <4>1, <4>3, <3>1, <2>4
        <4> QED BY <3>4, <4>2, <4>3 DEF StreamIInv, NothingLost
      <3> QED BY <3>2, <3>3, <3>4, <2>2
    <2> QED BY <2>3, <2>5, <2>6 DEF StreamIInv
  <1>3. CASE rdstate = {} /\ ~(Len(outBuf) < BufSize)
    <2>1. Restart BY <1>3 DEF Put, Restart
    <2>2. StreamTypeOK' /\ CallInv'
      BY <1>3 DEF StreamIInv, Put, SyncStarts, StreamTypeOK, CallInv, Bits, inVars, netVars, Calls
    <2> QED BY <2>1, <2>2, RestartKeepsOutput DEF StreamIInv
  <1> QED BY <1>1, <1>2, <1>3

LEMMA FlushStep == ASSUME StreamIInv, Flush PROVE StreamIInv'
  <1>0. UNCHANGED <<nclear, outBuf, ch, nleft, nput, written, streamed, direct, inVars, netVars, unread>>
    BY DEF Flush
  <1>1. CASE rdstate # {}
    <2>1. rdstate' = rdstate \cup {"fail"} /\ UNCHANGED <<ptr, resent, call>>
      BY <1>1 DEF Flush
    <2>2. StreamTypeOK' /\ CallInv'
      BY <1>0, <2>1 DEF StreamIInv, StreamTypeOK, CallInv, Bits, inVars, netVars, Calls
    <2>3. Quiet
      BY <1>0, <2>1 DEF Quiet
    <2> QED BY <2>2, <2>3, QuietKeepsOutput DEF StreamIInv
  <1>2. CASE rdstate = {}
    <2>1. call' = "flush" /\ SyncStarts /\ UNCHANGED rdstate
      BY <1>2 DEF Flush
    <2>2. StreamTypeOK' /\ CallInv'
      BY <1>0, <2>1 DEF StreamIInv, StreamTypeOK, CallInv, SyncStarts, inVars, netVars, Calls
    <2>3. Restart
      BY <1>0, <2>1 DEF Restart
    <2> QED BY <2>2, <2>3, RestartKeepsOutput DEF StreamIInv
  <1> QED BY <1>1, <1>2

LEMMA SyncSendsStep == ASSUME StreamIInv, SyncSends PROVE StreamIInv'
  <1>1. PICK n \in 1 .. Len(Rest) :
          /\ unread + n <= SendSpace
          /\ streamed' = streamed \o SubSeq(Rest, 1, n)
          /\ unread' = unread + n
          /\ ptr' = ptr + n
    BY DEF SyncSends
  <1> DEFINE a == SubSeq(Rest, 1, n)
  <1>2. UNCHANGED <<outBuf, ch, nleft, nput, written, direct, resent, inVars, netVars, iosVars, call>>
    BY DEF SyncSends
  <1>3. /\ outBuf \in Seq(1 .. MaxPut) /\ ptr \in 0 .. Len(outBuf)
        /\ streamed \in Seq(1 .. MaxPut) /\ written \in Seq(1 .. MaxPut)
    BY DEF StreamIInv, StreamTypeOK
  <1>4. Rest \in Seq(1 .. MaxPut) /\ Len(Rest) = Len(outBuf) - ptr
    BY RestType DEF StreamIInv
  <1>5. n \in 1 .. (Len(outBuf) - ptr)
    BY <1>4
  <1>6. Rest' = SubSeq(outBuf, ptr + n + 1, Len(outBuf))
    BY <1>1, <1>2 DEF Rest
  <1>7. a \in Seq(1 .. MaxPut) /\ Rest = a \o Rest'
    BY <1>3, <1>5, <1>6, FirstPart DEF Rest
  <1>8. Rest' \in Seq(1 .. MaxPut)
    BY <1>3, <1>5, <1>6, TailPart, ptr + n \in 0 .. Len(outBuf)
  <1> HIDE DEF a
  <1>9. streamed' = streamed \o a
    BY <1>1 DEF a
  <1>13. streamed' \in Seq(1 .. MaxPut) /\ ptr' \in 0 .. Len(outBuf) /\ unread' \in 0 .. SendSpace
    <2>1. streamed' \in Seq(1 .. MaxPut)
      BY <1>3, <1>7, <1>9
    <2>2. ptr' \in 0 .. Len(outBuf)
      BY <1>1, <1>3, <1>5
    <2>3. unread' \in 0 .. SendSpace
      BY <1>1, <1>4 DEF StreamIInv, StreamTypeOK
    <2> QED BY <2>1, <2>2, <2>3
  <1>10. StreamTypeOK' /\ CallInv'
    BY <1>2, <1>13 DEF StreamIInv, StreamTypeOK, CallInv, inVars, netVars, iosVars, Calls, Bits
  <1>11. OutputIntact'
    <2>1. streamed' \o Rest' = streamed \o Rest
      <3>1. PICK S : S = 1 .. MaxPut
        OBVIOUS
      <3>2. streamed \in Seq(S) /\ a \in Seq(S) /\ Rest' \in Seq(S)
        BY <1>3, <1>7, <1>8, <3>1
      <3>3. (streamed \o a) \o Rest' = streamed \o Rest
        BY <3>2, <1>7, MovePart
      <3> QED BY <3>3, <1>9
    <2> QED BY <2>1, <1>2 DEF StreamIInv, OutputIntact
  <1>12. NothingLost'
    <2>1. ASSUME NEW k \in 1 .. Len(streamed)
          PROVE  k \in 1 .. Len(streamed') /\ streamed'[k] = streamed[k]
      BY <1>3, <1>7, <1>9
    <2>2. ASSUME NEW k \in 1 .. Len(Rest)
          PROVE  \/ \E m \in 1 .. Len(streamed') : streamed'[m] = Rest[k]
                 \/ \E m \in 1 .. Len(Rest') : Rest'[m] = Rest[k]
      <3>1. CASE k <= Len(a)
        <4>1. Len(streamed) + k \in 1 .. Len(streamed') /\ streamed'[Len(streamed) + k] = a[k]
          BY <3>1, <1>3, <1>7, <1>9
        <4>2. Rest[k] = a[k]
          BY <3>1, <1>7, <1>8
        <4> QED BY <4>1, <4>2
      <3>2. CASE k > Len(a)
        <4>1. k - Len(a) \in 1 .. Len(Rest') /\ Rest[k] = Rest'[k - Len(a)]
          BY <3>2, <1>7, <1>8
        <4> QED BY <4>1
      <3>3. k \in Nat /\ Len(a) \in Nat
        BY <1>7
      <3> QED BY <3>1, <3>2, <3>3
    <2>3. ASSUME NEW j \in 1 .. Len(written')
          PROVE  \/ \E k \in 1 .. Len(streamed') : streamed'[k] = written'[j]
                 \/ \E k \in 1 .. Len(Rest') : Rest'[k] = written'[j]
      <3>1. CASE \E k \in 1 .. Len(streamed) : streamed[k] = written[j]
        BY <3>1, <2>1, <1>2
      <3>2. CASE \E k \in 1 .. Len(Rest) : Rest[k] = written[j]
        BY <3>2, <2>2, <1>2
      <3> QED BY <3>1, <3>2, <1>2 DEF StreamIInv, NothingLost
    <2> QED BY <2>3 DEF NothingLost
  <1> QED BY <1>10, <1>11, <1>12 DEF StreamIInv

LEMMA SyncReturnsStep == ASSUME StreamIInv, SyncReturns PROVE StreamIInv'
  <1>1. /\ Rest = <<>> /\ ptr' = 0
        /\ UNCHANGED <<nleft, nput, streamed, direct, resent, inVars, netVars, iosVars, unread>>
        /\ call' = "none" /\ ch' = 0
    BY DEF SyncReturns
  <1>2. streamed \in Seq(1 .. MaxPut) /\ written \in Seq(1 .. MaxPut)
    BY DEF StreamIInv, StreamTypeOK
  <1>3. ~resent => streamed = written
    BY <1>1, <1>2 DEF StreamIInv, OutputIntact
  <1>4. \A j \in 1 .. Len(written) : \E k \in 1 .. Len(streamed) : streamed[k] = written[j]
    BY <1>1 DEF StreamIInv, NothingLost
  <1>5. CASE call = "put"
    <2>1. outBuf' = <<ch>> /\ written' = Append(written, ch) /\ ch \in 1 .. MaxPut
      BY <1>5 DEF SyncReturns, StreamIInv, CallInv
    <2>2. StreamTypeOK' /\ CallInv'
      BY <1>1, <1>2, <2>1 DEF StreamIInv, StreamTypeOK, CallInv, inVars, netVars, iosVars, Calls, Bits
    <2>6. <<ch>> \in Seq(1 .. MaxPut) /\ Len(<<ch>>) = 1
      BY <2>1
    <2>3. Rest' = <<ch>>
      <3>1. SubSeq(<<ch>>, 1, Len(<<ch>>)) = <<ch>>
        BY <2>6, SubSeqFull, Zenon
      <3>2. Rest' = SubSeq(<<ch>>, 0 + 1, Len(<<ch>>))
        BY <1>1, <2>1, Zenon DEF Rest
      <3> QED BY <3>1, <3>2
    <2>4. OutputIntact'
      <3> SUFFICES ASSUME ~resent PROVE streamed \o <<ch>> = Append(written, ch)
        BY <1>1, <2>1, <2>3 DEF OutputIntact
      <3> QED BY <1>2, <1>3, <2>1
    <2>5. ASSUME NEW j \in 1 .. Len(written')
          PROVE  \/ \E k \in 1 .. Len(streamed') : streamed'[k] = written'[j]
                 \/ \E k \in 1 .. Len(Rest') : Rest'[k] = written'[j]
      <3>1. CASE j = Len(written) + 1
        BY <3>1, <1>2, <2>1, <2>3
      <3>2. CASE j \in 1 .. Len(written)
        <4>1. written'[j] = written[j]
          BY <3>2, <1>2, <2>1
        <4> QED BY <4>1, <3>2, <1>1, <1>4
      <3>3. Len(written') = Len(written) + 1 /\ Len(written) \in Nat
        BY <1>2, <2>1
      <3> QED BY <3>1, <3>2, <3>3
    <2> QED BY <2>2, <2>4, <2>5 DEF StreamIInv, NothingLost
  <1>6. CASE call # "put"
    <2>1. outBuf' = <<>> /\ written' = written
      BY <1>6 DEF SyncReturns
    <2>2. StreamTypeOK' /\ CallInv'
      BY <1>1, <1>2, <2>1 DEF StreamIInv, StreamTypeOK, CallInv, inVars, netVars, iosVars, Calls, Bits
    <2>3. Rest' = <<>>
      BY <1>1, <2>1 DEF Rest
    <2>4. OutputIntact'
      BY <1>1, <1>2, <1>3, <2>1, <2>3 DEF OutputIntact
    <2>5. NothingLost'
      BY <1>1, <1>4, <2>1 DEF NothingLost
    <2> QED BY <2>2, <2>4, <2>5 DEF StreamIInv
  <1> QED BY <1>5, <1>6

(* What recv() returns, and what it leaves. *)
LEMMA ReceivedPart ==
  ASSUME inq \in Seq(1 .. MaxPeer), NEW n \in Nat
  PROVE  /\ Chunk(n) \in Seq(1 .. MaxPeer)
         /\ Len(Chunk(n)) <= n
         /\ inq # <<>> /\ n # 0 => Chunk(n) # <<>>
         /\ After(n) \in Seq(1 .. MaxPeer)
  <1> DEFINE m == IF Len(inq) < n THEN Len(inq) ELSE n
  <1>1. m \in 0 .. Len(inq) /\ m <= n /\ (inq # <<>> /\ n # 0 => m # 0)
    OBVIOUS
  <1> HIDE DEF m
  <1>2. Chunk(n) = SubSeq(inq, 1, m)
    BY DEF Chunk, m
  <1>3. Chunk(n) \in Seq(1 .. MaxPeer) /\ Len(Chunk(n)) = m
    BY <1>1, <1>2
  <1>4. After(n) = SubSeq(inq, m + 1, Len(inq))
    BY <1>3 DEF After
  <1>5. After(n) \in Seq(1 .. MaxPeer)
    BY <1>1, <1>4
  <1> QED BY <1>1, <1>3, <1>5

(* The other actions leave the output alone. *)
LEMMA InputStep ==
  ASSUME StreamIInv, Get \/ UnderflowFills \/ UnderflowEnds \/ Clear \/ Recv \/ RecvReturns
  PROVE  StreamIInv'
  <1>1. Quiet /\ UNCHANGED <<ch, nleft, nput, direct>> /\ (call' = "put" => call = "put")
    BY DEF Get, UnderflowFills, UnderflowEnds, Clear, Recv, RecvReturns, outVars, Quiet
  <1>2. CallInv'
    BY <1>1 DEF StreamIInv, CallInv
  <1>3. CASE Get
    <2>5. inBuf \in Seq(1 .. MaxPeer) /\ Len(inBuf) <= BufSize /\ got \in Seq(1 .. MaxPeer)
      BY DEF StreamIInv, StreamTypeOK
    <2>6. \/ UNCHANGED <<inBuf, got>>
          \/ inBuf # <<>> /\ got' = Append(got, Head(inBuf)) /\ inBuf' = Tail(inBuf)
      BY <1>3 DEF Get
    <2>2. inBuf' \in Seq(1 .. MaxPeer) /\ Len(inBuf') <= BufSize /\ got' \in Seq(1 .. MaxPeer)
      <3>1. CASE UNCHANGED <<inBuf, got>>
        BY <2>5, <3>1
      <3>2. CASE inBuf # <<>> /\ got' = Append(got, Head(inBuf)) /\ inBuf' = Tail(inBuf)
        <4>1. Head(inBuf) \in 1 .. MaxPeer /\ Tail(inBuf) \in Seq(1 .. MaxPeer) /\ Len(Tail(inBuf)) = Len(inBuf) - 1
          BY <2>5, <3>2
        <4>2. Len(Tail(inBuf)) <= BufSize
          BY <2>5, <4>1
        <4>3. Append(got, Head(inBuf)) \in Seq(1 .. MaxPeer)
          BY <2>5, <4>1
        <4> QED BY <3>2, <4>1, <4>2, <4>3
      <3> QED BY <2>6, <3>1, <3>2
    <2>4. rdstate' \subseteq Bits /\ call' \in Calls
      BY <1>3 DEF StreamIInv, StreamTypeOK, Get, Bits, Calls
    <2>1. StreamTypeOK'
      BY <1>3, <2>2, <2>4 DEF StreamIInv, StreamTypeOK, Get, outVars, netVars
    <2> QED BY <1>1, <1>2, <2>1, QuietKeepsOutput DEF StreamIInv
  <1>4. CASE UnderflowFills
    <2>1. /\ Chunk(BufSize) \in Seq(1 .. MaxPeer) /\ Chunk(BufSize) # <<>> /\ Len(Chunk(BufSize)) <= BufSize
          /\ After(BufSize) \in Seq(1 .. MaxPeer)
      BY <1>4, ReceivedPart DEF StreamIInv, StreamTypeOK, UnderflowFills
    <2>2. inBuf' \in Seq(1 .. MaxPeer) /\ Len(inBuf') <= BufSize
      BY <1>4, <2>1 DEF UnderflowFills
    <2>5. /\ inq \in Seq(1 .. MaxPeer) /\ got \in Seq(1 .. MaxPeer) /\ inq # <<>>
          /\ inq' = After(BufSize) /\ got' = Append(got, Head(inq))
      BY <1>4 DEF StreamIInv, StreamTypeOK, UnderflowFills
    <2>3. inq' \in Seq(1 .. MaxPeer) /\ got' \in Seq(1 .. MaxPeer)
      BY <2>1, <2>5
    <2>4. StreamTypeOK'
      BY <1>4, <2>2, <2>3 DEF StreamIInv, StreamTypeOK, UnderflowFills, outVars, iosVars, Calls, Bits
    <2> QED BY <1>1, <1>2, <2>4, QuietKeepsOutput DEF StreamIInv
  <1>5. CASE UnderflowEnds
    <2>1. StreamTypeOK'
      BY <1>5 DEF StreamIInv, StreamTypeOK, UnderflowEnds, outVars, inVars, netVars, Calls, Bits
    <2> QED BY <1>1, <1>2, <2>1, QuietKeepsOutput DEF StreamIInv
  <1>6. CASE Clear
    <2>1. StreamTypeOK'
      BY <1>6 DEF StreamIInv, StreamTypeOK, Clear, outVars, inVars, netVars, Calls, Bits
    <2> QED BY <1>1, <1>2, <2>1, QuietKeepsOutput DEF StreamIInv
  <1>7. CASE Recv
    <2>1. StreamTypeOK'
      BY <1>7 DEF StreamIInv, StreamTypeOK, Recv, outVars, inVars, netVars, iosVars, Calls, Bits
    <2> QED BY <1>1, <1>2, <2>1, QuietKeepsOutput DEF StreamIInv
  <1>8. CASE RecvReturns
    <2>1. inq' \in Seq(1 .. MaxPeer) /\ taken' \in Seq(1 .. MaxPeer)
      <3>1. CASE UNCHANGED <<taken, inq>>
        BY <3>1 DEF StreamIInv, StreamTypeOK
      <3>2. CASE \E n \in 1 .. Len(inq) : taken' = taken \o Chunk(n) /\ inq' = After(n)
        <4>1. PICK n \in 1 .. Len(inq) : taken' = taken \o Chunk(n) /\ inq' = After(n)
          BY <3>2
        <4>2. Chunk(n) \in Seq(1 .. MaxPeer) /\ After(n) \in Seq(1 .. MaxPeer)
          BY ReceivedPart DEF StreamIInv, StreamTypeOK
        <4> QED BY <4>1, <4>2 DEF StreamIInv, StreamTypeOK
      <3> QED BY <1>8, <3>1, <3>2 DEF RecvReturns
    <2>2. StreamTypeOK'
      BY <1>8, <2>1 DEF StreamIInv, StreamTypeOK, RecvReturns, outVars, iosVars, Calls, Bits
    <2> QED BY <1>1, <1>2, <2>2, QuietKeepsOutput DEF StreamIInv
  <1> QED BY <1>3, <1>4, <1>5, <1>6, <1>7, <1>8

LEMMA DirectStep == ASSUME StreamIInv, SendAll \/ SendAllSends \/ SendKills PROVE StreamIInv'
  <1>1. Quiet
    BY DEF SendAll, SendAllSends, SendKills, Quiet, outVars
  <1>2. CASE SendAll
    <2>1. PICK n \in 1 .. (MaxDirect - direct) : nleft' = n
      BY <1>2 DEF SendAll
    <2>2. StreamTypeOK' /\ CallInv'
      BY <1>2, <2>1 DEF StreamIInv, StreamTypeOK, CallInv, SendAll, inVars, netVars, iosVars, Calls, Bits
    <2> QED BY <1>1, <2>2, QuietKeepsOutput DEF StreamIInv
  <1>3. CASE SendAllSends
    <2>1. PICK n \in 1 .. nleft : unread + n <= SendSpace /\ nleft' = nleft - n /\ direct' = direct + n /\ unread' = unread + n
      BY <1>3 DEF SendAllSends
    <2>2. nleft' \in 0 .. MaxDirect /\ direct' \in 0 .. MaxDirect /\ direct' + nleft' <= MaxDirect /\ unread' \in 0 .. SendSpace
      BY <2>1 DEF StreamIInv, StreamTypeOK, CallInv
    <2>3. call' \in {"none", "sendAll"}
      BY <1>3 DEF SendAllSends
    <2>4. StreamTypeOK' /\ CallInv'
      BY <1>3, <2>2, <2>3 DEF StreamIInv, StreamTypeOK, CallInv, SendAllSends, inVars, netVars, iosVars, Calls, Bits
    <2> QED BY <1>1, <2>4, QuietKeepsOutput DEF StreamIInv
  <1>4. CASE SendKills
    <2>1. StreamTypeOK' /\ CallInv'
      BY <1>4 DEF StreamIInv, StreamTypeOK, CallInv, SendKills, outVars, inVars, netVars, iosVars, Calls, Bits
    <2> QED BY <1>1, <2>1, QuietKeepsOutput DEF StreamIInv
  <1> QED BY <1>2, <1>3, <1>4

LEMMA FailureStep == ASSUME StreamIInv, CallFails \/ CallInterrupted PROVE StreamIInv'
  <1>1. Throw /\ err' \in Errors
    BY DEF CallFails, CallInterrupted, StreamIInv, StreamTypeOK, Errors
  <1>2. Quiet
    BY <1>1 DEF Throw, Quiet
  <1>3. rdstate' \subseteq Bits
    BY <1>1 DEF Throw, StreamIInv, StreamTypeOK, Bits
  <1>4. StreamTypeOK' /\ CallInv'
    BY <1>1, <1>3 DEF StreamIInv, StreamTypeOK, CallInv, Throw, inVars, Calls
  <1> QED BY <1>2, <1>4, QuietKeepsOutput DEF StreamIInv

(* close() and open() leave the stream as it is. *)
LEMMA ReopenStep == ASSUME StreamIInv, CloseSocket \/ Reopen PROVE StreamIInv'
  <1>1. Quiet /\ UNCHANGED <<outVars, inVars, iosVars, call, nsent>>
    BY DEF CloseSocket, Reopen, Quiet, outVars
  <1>2. CASE CloseSocket
    <2>1. inq \in Seq(1 .. MaxPeer) /\ \A k \in 1 .. Len(inq) : inq[k] \in 1 .. MaxPeer
      BY DEF StreamIInv, StreamTypeOK
    <2>2. inq' \in Seq(1 .. MaxPeer) /\ unread' \in 0 .. SendSpace
      BY <1>2 DEF CloseSocket
    <2>4. dropped' \subseteq 1 .. MaxPeer
      BY <1>2, <2>1 DEF StreamIInv, StreamTypeOK, CloseSocket
    <2>5. fin' = FALSE /\ dead' = TRUE
      BY <1>2, Zenon DEF CloseSocket
    <2>3. err' \in Errors /\ nreopen' = nreopen
      BY <1>2 DEF CloseSocket, Errors
    <2>6. StreamTypeOK' /\ CallInv'
      BY <1>1, <2>2, <2>3, <2>4, <2>5 DEF StreamIInv, StreamTypeOK, CallInv, outVars, inVars, iosVars
    <2> QED BY <1>1, <2>6, QuietKeepsOutput DEF StreamIInv
  <1>3. CASE Reopen
    <2>1. UNCHANGED <<inq, dropped, fin, unread>> /\ err' \in Errors
      BY <1>3 DEF Reopen, Errors
    <2>2. nreopen' \in 0 .. MaxReopen
      BY <1>3 DEF StreamIInv, StreamTypeOK, Reopen
    <2>3. dead' = FALSE
      BY <1>3, Zenon DEF Reopen
    <2>4. StreamTypeOK' /\ CallInv'
      BY <1>1, <2>1, <2>2, <2>3 DEF StreamIInv, StreamTypeOK, CallInv, outVars, inVars, iosVars
    <2> QED BY <1>1, <2>4, QuietKeepsOutput DEF StreamIInv
  <1> QED BY <1>2, <1>3

LEMMA PeerStep == ASSUME StreamIInv, Peer PROVE StreamIInv'
  <1>1. Quiet /\ UNCHANGED <<outVars, inVars, iosVars, call>>
    BY DEF Peer, PeerSends, PeerReads, PeerEnds, PeerResets, Quiet, outVars
  <1>2. nsent' \in 0 .. MaxPeer /\ unread' \in 0 .. SendSpace
    <2>1. CASE PeerSends BY <2>1 DEF StreamIInv, StreamTypeOK, PeerSends
    <2>2. CASE PeerReads BY <2>2 DEF StreamIInv, StreamTypeOK, PeerReads, netVars
    <2>3. CASE PeerEnds \/ PeerResets BY <2>3 DEF StreamIInv, StreamTypeOK, PeerEnds, PeerResets
    <2> QED BY <2>1, <2>2, <2>3 DEF Peer
  <1>3. inq' \in Seq(1 .. MaxPeer)
    <2>1. CASE PeerSends BY <2>1 DEF StreamIInv, StreamTypeOK, PeerSends
    <2>2. CASE PeerReads BY <2>2 DEF StreamIInv, StreamTypeOK, PeerReads, netVars
    <2>3. CASE PeerEnds \/ PeerResets BY <2>3 DEF StreamIInv, StreamTypeOK, PeerEnds, PeerResets
    <2> QED BY <2>1, <2>2, <2>3 DEF Peer
  <1>4. fin' \in BOOLEAN /\ dead' \in BOOLEAN
    <2>1. fin' \in {fin, TRUE} /\ dead' \in {dead, TRUE}
      BY Zenon DEF Peer, PeerSends, PeerReads, PeerEnds, PeerResets, netVars
    <2> QED BY <2>1 DEF StreamIInv, StreamTypeOK
  <1>5. err' \in Errors
    BY DEF StreamIInv, StreamTypeOK, Errors, Peer, PeerSends, PeerReads, PeerEnds, PeerResets, netVars
  <1>7. UNCHANGED <<nreopen, dropped>>
    BY DEF Peer, PeerSends, PeerReads, PeerEnds, PeerResets, netVars
  <1>6. StreamTypeOK' /\ CallInv'
    BY <1>1, <1>2, <1>3, <1>4, <1>5, <1>7 DEF StreamIInv, StreamTypeOK, CallInv, outVars, inVars, iosVars, Calls
  <1> QED BY <1>1, <1>6, QuietKeepsOutput DEF StreamIInv

LEMMA Step == ASSUME StreamIInv, [StreamNext]_streamVars PROVE StreamIInv'
  <1>1. CASE UNCHANGED streamVars
    <2>1. Quiet
      BY <1>1 DEF Quiet, streamVars, outVars
    <2>2. StreamTypeOK' /\ CallInv'
      BY <1>1 DEF StreamIInv, StreamTypeOK, CallInv, streamVars, outVars, inVars, netVars, iosVars
    <2> QED BY <2>1, <2>2, QuietKeepsOutput DEF StreamIInv
  <1>2. CASE StreamNext
    BY <1>2, PutStep, FlushStep, SyncSendsStep, SyncReturnsStep, InputStep, DirectStep, FailureStep, ReopenStep, PeerStep
      DEF StreamNext, System, User
  <1> QED BY <1>1, <1>2

THEOREM StreamInductive == StreamSpec => []StreamIInv
  <1>1. StreamInit => StreamIInv
    BY StreamInitIInv
  <1>2. StreamIInv /\ [StreamNext]_streamVars => StreamIInv'
    BY Step
  <1> QED BY <1>1, <1>2, PTL DEF StreamSpec

(* The buffers, the counters and the state of the iostream keep their      *)
(* types: the put area never exceeds outBuffer_.                           *)
THEOREM StreamTypeCorrect == StreamSpec => []StreamTypeOK
  BY StreamInductive, PTL DEF StreamIInv

(* sync(), overflow() and sendAll() together neither lose, repeat nor      *)
(* reorder a byte, however short the writes are, as long as no sync() has  *)
(* started over after a failure.                                           *)
THEOREM OutputIsIntact == StreamSpec => []OutputIntact
  BY StreamInductive, PTL DEF StreamIInv

(* A flush() that leaves the stream good has handed everything over, after *)
(* any number of failures before it.                                       *)
THEOREM FlushIsComplete == StreamSpec => FlushDelivers
  <1> DEFINE AllOut == \A j \in 1 .. Len(written) : \E k \in 1 .. Len(streamed) : streamed[k] = written[j]
             Completes == call = "flush" /\ call' = "none" /\ rdstate' = {}
  <1>1. ASSUME StreamIInv, [StreamNext]_streamVars, Completes PROVE AllOut
    <2>1. SyncReturns
      BY <1>1 DEF StreamNext, System, User, Peer, Put, Flush, SyncSends, SyncReturns, UnderflowFills, UnderflowEnds,
        SendAll, SendAllSends, Get, Recv, RecvReturns, Clear, CallFails, CallInterrupted, Throw, SendKills,
        CloseSocket, Reopen, PeerSends, PeerReads, PeerEnds, PeerResets, streamVars
    <2>2. Rest = <<>>
      BY <2>1 DEF SyncReturns
    <2> QED BY <1>1, <2>2 DEF StreamIInv, NothingLost
  <1>2. StreamIInv /\ [StreamNext]_streamVars => [Completes => AllOut]_streamVars
    BY <1>1
  <1> QED BY <1>2, StreamInductive, PTL DEF StreamSpec, FlushDelivers

----------------------------------------------------------------------------
(* A sync() that starts over repeats bytes but skips none. *)

(* The bytes written before those that the put area holds. *)
Base == Len(written) - Len(outBuf)

(* Bytes are written in the order in which they were offered. *)
Increasing ==
  /\ \A i, j \in 1 .. Len(written) : i < j => written[i] < written[j]
  /\ \A j \in 1 .. Len(written) : written[j] <= nput
  /\ call = "put" => ch = nput /\ \A j \in 1 .. Len(written) : written[j] < ch

(* The put area holds the last bytes written. *)
Suffix ==
  /\ Len(outBuf) <= Len(written)
  /\ \A i \in 1 .. Len(outBuf) : outBuf[i] = written[Base + i]

(* Those before it, and what the running sendAll() has sent, are gone out. *)
Sent == \A j \in 1 .. (Base + ptr) : \E k \in 1 .. Len(streamed) : streamed[k] = written[j]

(* Nothing goes out that was not written. *)
Genuine == \A k \in 1 .. Len(streamed) : \E j \in 1 .. Len(written) : streamed[k] = written[j]

OrderInv == Increasing /\ Suffix /\ Sent /\ Genuine /\ NoByteSkipped

\* The sequences and the numbers that OrderInv is about.
LEMMA Sequences ==
  ASSUME StreamIInv
  PROVE  outBuf \in Seq(1 .. MaxPut) /\ written \in Seq(1 .. MaxPut) /\ streamed \in Seq(1 .. MaxPut)
  BY DEF StreamIInv, StreamTypeOK

LEMMA Elements ==
  ASSUME NEW s \in Seq(1 .. MaxPut)
  PROVE  Len(s) \in Nat /\ \A j \in 1 .. Len(s) : s[j] \in Nat
  OBVIOUS

LEMMA Numbers ==
  ASSUME StreamIInv
  PROVE  /\ Len(outBuf) \in Nat /\ Len(written) \in Nat /\ Len(streamed) \in Nat
         /\ ptr \in Nat /\ ptr <= Len(outBuf) /\ nput \in Nat /\ nput <= MaxPut
         /\ Base = Len(written) - Len(outBuf)
         /\ \A j \in 1 .. Len(written) : written[j] \in Nat
         /\ \A k \in 1 .. Len(streamed) : streamed[k] \in Nat
  <1>1. ptr \in Nat /\ ptr <= Len(outBuf) /\ nput \in Nat /\ nput <= MaxPut
    BY DEF StreamIInv, StreamTypeOK
  <1> QED BY <1>1, Sequences, Elements DEF Base

LEMMA AppendedPart ==
  ASSUME NEW S, NEW s \in Seq(S), NEW t \in Seq(S)
  PROVE  /\ Len(s \o t) = Len(s) + Len(t)
         /\ \A k \in 1 .. Len(s) : (s \o t)[k] = s[k]
         /\ \A k \in 1 .. Len(t) : (s \o t)[Len(s) + k] = t[k]
  OBVIOUS

LEMMA LastOrBefore ==
  ASSUME NEW l \in Nat, NEW i \in 1 .. (l + 1) PROVE i = l + 1 \/ i \in 1 .. l
  OBVIOUS

LEMMA InitOrder == StreamInit => OrderInv
  BY DEF StreamInit, OrderInv, Increasing, Suffix, Sent, Genuine, NoByteSkipped, Base

\* Steps that neither write nor send, and a sync() that begins.
OrderQuiet ==
  /\ UNCHANGED <<outBuf, written, streamed, nput>>
  /\ ptr' = ptr \/ ptr' = 0
  /\ call' = "put" => call = "put" /\ ch' = ch

LEMMA QuietKeepsOrder == ASSUME StreamIInv, OrderInv, OrderQuiet PROVE OrderInv'
  <1>1. Increasing'
    BY DEF OrderInv, Increasing, OrderQuiet
  <1>2. Suffix' /\ Genuine' /\ NoByteSkipped'
    BY DEF OrderInv, Suffix, Base, Genuine, NoByteSkipped, OrderQuiet
  <1>3. Sent'
    <2>1. Base' = Base /\ UNCHANGED <<written, streamed>>
      BY DEF OrderQuiet, Base
    <2>2. \A j \in 1 .. (Base + ptr') : j \in 1 .. (Base + ptr)
      BY Numbers DEF OrderQuiet
    <2> QED BY <2>1, <2>2 DEF OrderInv, Sent
  <1> QED BY <1>1, <1>2, <1>3 DEF OrderInv

\* A byte that finds room.
LEMMA StoreKeepsOrder ==
  ASSUME StreamIInv, OrderInv, NEW x \in 1 .. MaxPut, \A j \in 1 .. Len(written) : written[j] < x,
         written' = Append(written, x), nput' = x, call' # "put",
         UNCHANGED streamed,
         \/ outBuf' = Append(outBuf, x) /\ ptr' = ptr
         \/ outBuf' = <<x>> /\ ptr' = 0 /\ ptr = Len(outBuf)
  PROVE  OrderInv'
  <1>1. /\ Len(written') = Len(written) + 1
        /\ \A j \in 1 .. Len(written) : written'[j] = written[j]
        /\ written'[Len(written) + 1] = x
    BY Sequences
  <1>2. Increasing'
    <2>1. ASSUME NEW i \in 1 .. Len(written'), NEW j \in 1 .. Len(written'), i < j
          PROVE  written'[i] < written'[j]
      <3>1. CASE j = Len(written) + 1
        BY <1>1, <2>1, <3>1, Numbers
      <3>2. CASE j # Len(written) + 1
        <4>1. i \in 1 .. Len(written) /\ j \in 1 .. Len(written)
          <5>1. Len(written') = Len(written) + 1 /\ Len(written) \in Nat
            BY <1>1, Numbers
          <5> QED BY <2>1, <3>2, <5>1
        <4>2. written'[i] = written[i] /\ written'[j] = written[j]
          BY <1>1, <4>1
        <4> QED BY <2>1, <4>1, <4>2 DEF OrderInv, Increasing
      <3> QED BY <3>1, <3>2
    <2>2. ASSUME NEW j \in 1 .. Len(written') PROVE written'[j] <= nput'
      <3>1. CASE j = Len(written) + 1
        BY <1>1, <3>1
      <3>2. CASE j \in 1 .. Len(written)
        BY <1>1, <3>2, Numbers
      <3> QED BY <1>1, <3>1, <3>2, Numbers
    <2> QED BY <2>1, <2>2 DEF Increasing
  <1>3. Suffix' /\ Sent'
    <2>1. CASE outBuf' = Append(outBuf, x) /\ ptr' = ptr
      <3>1. /\ Len(outBuf') = Len(outBuf) + 1 /\ Base' = Base
            /\ \A i \in 1 .. Len(outBuf) : outBuf'[i] = outBuf[i]
            /\ outBuf'[Len(outBuf) + 1] = x
        BY <1>1, <2>1, Sequences, Numbers DEF Base
      <3>2. Len(outBuf') <= Len(written')
        BY <1>1, <3>1, Numbers DEF OrderInv, Suffix
      <3>3. ASSUME NEW i \in 1 .. Len(outBuf') PROVE outBuf'[i] = written'[Base' + i]
        <4>1. CASE i = Len(outBuf) + 1
          <5>1. Base + i = Len(written) + 1
            BY <4>1, Numbers DEF Base
          <5> QED BY <1>1, <3>1, <4>1, <5>1
        <4>2. CASE i \in 1 .. Len(outBuf)
          <5>1. Base + i \in 1 .. Len(written)
            BY <4>2, Numbers DEF OrderInv, Suffix, Base
          <5> QED BY <1>1, <3>1, <4>2, <5>1 DEF OrderInv, Suffix
        <4>3. Len(outBuf') = Len(outBuf) + 1 /\ Len(outBuf) \in Nat
          BY <3>1, Numbers
        <4> QED BY <4>1, <4>2, <4>3, LastOrBefore
      <3>4. ASSUME NEW j \in 1 .. (Base' + ptr')
            PROVE  \E k \in 1 .. Len(streamed') : streamed'[k] = written'[j]
        <4>1. j \in 1 .. (Base + ptr) /\ j \in 1 .. Len(written)
          BY <2>1, <3>1, Numbers DEF OrderInv, Suffix, Base
        <4> QED BY <1>1, <4>1 DEF OrderInv, Sent
      <3> QED BY <3>2, <3>3, <3>4 DEF Suffix, Sent
    <2>2. CASE outBuf' = <<x>> /\ ptr' = 0 /\ ptr = Len(outBuf)
      <3>1. Len(outBuf') = 1 /\ outBuf'[1] = x /\ Base' = Len(written) /\ Base + ptr = Len(written)
        BY <1>1, <2>2, Numbers DEF Base
      <3>2. Suffix'
        BY <1>1, <3>1, Numbers DEF Suffix
      <3>3. Sent'
        BY <1>1, <2>2, <3>1, Numbers DEF Sent, OrderInv
      <3> QED BY <3>2, <3>3
    <2> QED BY <2>1, <2>2
  <1>4. Genuine'
    BY <1>1, Numbers DEF OrderInv, Genuine
  <1>5. NoByteSkipped'
    <2> SUFFICES ASSUME NEW k \in 1 .. Len(streamed), NEW b \in 1 .. (streamed[k] - 1),
                        NEW m \in 1 .. Len(written'), written'[m] = b
                 PROVE  \E j \in 1 .. (k - 1) : streamed[j] = b
      BY DEF NoByteSkipped
    <2>1. PICK j \in 1 .. Len(written) : streamed[k] = written[j]
      BY DEF OrderInv, Genuine
    <2>2. b < x
      BY <2>1, Numbers
    <2>3. m \in 1 .. Len(written) /\ written[m] = b
      <3>1. Len(written') = Len(written) + 1 /\ Len(written) \in Nat
        BY <1>1, Numbers
      <3>2. m = Len(written) + 1 \/ m \in 1 .. Len(written)
        BY <3>1, LastOrBefore
      <3>3. m # Len(written) + 1
        BY <1>1, <2>2
      <3> QED BY <1>1, <3>2, <3>3
    <2> QED BY <2>3 DEF OrderInv, NoByteSkipped
  <1> QED BY <1>2, <1>3, <1>4, <1>5 DEF OrderInv

LEMMA PutOrder == ASSUME StreamIInv, OrderInv, Put PROVE OrderInv'
  <1>0. call # "put" /\ nput' = nput + 1 /\ nput + 1 \in 1 .. MaxPut /\ UNCHANGED streamed
    BY Numbers DEF Put
  <1>1. CASE rdstate # {}
    <2>1. UNCHANGED <<outBuf, ptr, written, streamed, call>>
      BY <1>1 DEF Put
    <2>2. Increasing'
      BY <1>0, <2>1, Numbers DEF OrderInv, Increasing
    <2>3. Suffix' /\ Sent' /\ Genuine' /\ NoByteSkipped'
      BY <2>1 DEF OrderInv, Suffix, Sent, Base, Genuine, NoByteSkipped
    <2> QED BY <2>2, <2>3 DEF OrderInv
  <1>2. CASE rdstate = {} /\ Len(outBuf) < BufSize
    <2>1. /\ outBuf' = Append(outBuf, nput + 1) /\ written' = Append(written, nput + 1)
          /\ UNCHANGED <<ptr, call>>
      BY <1>2 DEF Put
    <2>2. \A j \in 1 .. Len(written) : written[j] < nput + 1
      BY Numbers DEF OrderInv, Increasing
    <2> QED BY <1>0, <2>1, <2>2, StoreKeepsOrder
  <1>3. CASE rdstate = {} /\ ~(Len(outBuf) < BufSize)
    <2>1. UNCHANGED <<outBuf, written, streamed>> /\ ptr' = 0 /\ call' = "put" /\ ch' = nput + 1
      BY <1>3 DEF Put, SyncStarts
    <2>2. Increasing'
      BY <1>0, <2>1, Numbers DEF OrderInv, Increasing
    <2>3. Suffix' /\ Genuine' /\ NoByteSkipped'
      BY <2>1 DEF OrderInv, Suffix, Base, Genuine, NoByteSkipped
    <2>4. Sent'
      <3>1. Base' = Base /\ \A j \in 1 .. (Base + ptr') : j \in 1 .. (Base + ptr)
        BY <2>1, Numbers DEF Base
      <3> QED BY <2>1, <3>1 DEF OrderInv, Sent
    <2> QED BY <2>2, <2>3, <2>4 DEF OrderInv
  <1> QED BY <1>1, <1>2, <1>3

\* One send() sends the bytes that follow those already gone out.
LEMMA SyncSendsOrder == ASSUME StreamIInv, OrderInv, SyncSends PROVE OrderInv'
  <1>1. PICK n \in 1 .. Len(Rest) :
          streamed' = streamed \o SubSeq(Rest, 1, n) /\ ptr' = ptr + n
    BY DEF SyncSends
  <1>2. UNCHANGED <<outBuf, ch, nput, written, call>>
    BY DEF SyncSends
  <1> DEFINE a == SubSeq(Rest, 1, n)
             at == Base + ptr
  <1>3. Rest \in Seq(1 .. MaxPut) /\ Len(Rest) = Len(outBuf) - ptr
        /\ \A i \in 1 .. Len(Rest) : Rest[i] = outBuf[ptr + i]
    <2>1. outBuf \in Seq(1 .. MaxPut) /\ ptr \in 0 .. Len(outBuf)
      BY Sequences, Numbers
    <2> QED BY <2>1, TailPart DEF Rest
  <1>4. a \in Seq(1 .. MaxPut) /\ Len(a) = n /\ \A i \in 1 .. n : a[i] = Rest[i]
    BY <1>3
  <1>5. n \in Nat /\ n >= 1 /\ at \in Nat /\ at + n <= Len(written) /\ ptr + n \in 0 .. Len(outBuf)
    BY <1>3, Numbers DEF OrderInv, Suffix, Base
  <1> HIDE DEF a
  <1>6. streamed' = streamed \o a
    BY <1>1 DEF a
  <1>7. /\ Len(streamed') = Len(streamed) + n
        /\ \A k \in 1 .. Len(streamed) : streamed'[k] = streamed[k]
        /\ \A i \in 1 .. n : streamed'[Len(streamed) + i] = a[i]
    <2>1. PICK S : S = 1 .. MaxPut
      OBVIOUS
    <2>2. streamed \in Seq(S) /\ a \in Seq(S)
      BY <1>4, <2>1, Sequences
    <2>3. /\ Len(streamed \o a) = Len(streamed) + Len(a)
          /\ \A k \in 1 .. Len(streamed) : (streamed \o a)[k] = streamed[k]
          /\ \A k \in 1 .. Len(a) : (streamed \o a)[Len(streamed) + k] = a[k]
      BY <2>2, AppendedPart
    <2> QED BY <1>4, <1>6, <2>3
  <1>8. ASSUME NEW i \in 1 .. n
        PROVE  /\ at + i \in 1 .. Len(written)
               /\ Len(streamed) + i \in 1 .. Len(streamed')
               /\ streamed'[Len(streamed) + i] = written[at + i]
    <2>1. ptr + i \in 1 .. Len(outBuf) /\ Base + (ptr + i) = at + i
      BY <1>5, Numbers
    <2>2. outBuf[ptr + i] = written[at + i]
      BY <2>1 DEF OrderInv, Suffix
    <2>4. Len(streamed') = Len(streamed) + n /\ Len(streamed) \in Nat
      BY <1>7, Numbers
    <2>5. i \in Nat /\ i >= 1 /\ i <= n /\ Len(written) \in Nat
      BY <1>5, Numbers
    <2>3. at + i \in 1 .. Len(written) /\ Len(streamed) + i \in 1 .. Len(streamed')
      BY <1>5, <2>4, <2>5
    <2> QED BY <1>3, <1>4, <1>7, <2>2, <2>3
  <1>9. Base' = Base
    BY <1>2 DEF Base
  <1>10. Increasing' /\ Suffix'
    BY <1>2, <1>9 DEF OrderInv, Increasing, Suffix
  <1>11. Sent'
    <2> SUFFICES ASSUME NEW j \in 1 .. (at + n)
                 PROVE  \E k \in 1 .. Len(streamed') : streamed'[k] = written[j]
      <3>1. Base' + ptr' = at + n
        BY <1>1, <1>5, <1>9, Numbers
      <3> QED BY <1>2, <3>1 DEF Sent
    <2>1. CASE j \in 1 .. at
      <3>1. PICK k \in 1 .. Len(streamed) : streamed[k] = written[j]
        BY <2>1 DEF OrderInv, Sent
      <3> QED BY <1>5, <1>7, <3>1, Numbers
    <2>2. CASE j > at
      <3>1. j - at \in 1 .. n /\ at + (j - at) = j
        BY <1>5, <2>2
      <3> QED BY <1>8, <3>1
    <2> QED BY <1>5, <2>1, <2>2
  <1>12. ASSUME NEW k \in 1 .. Len(streamed'), k \notin 1 .. Len(streamed)
         PROVE  k - Len(streamed) \in 1 .. n /\ Len(streamed) + (k - Len(streamed)) = k
    BY <1>5, <1>7, <1>12, Numbers
  <1>13. Genuine'
    <2> SUFFICES ASSUME NEW k \in 1 .. Len(streamed')
                 PROVE  \E j \in 1 .. Len(written) : streamed'[k] = written[j]
      BY <1>2 DEF Genuine
    <2>1. CASE k \in 1 .. Len(streamed)
      BY <1>7, <2>1 DEF OrderInv, Genuine
    <2>2. CASE k \notin 1 .. Len(streamed)
      BY <1>8, <1>12, <2>2
    <2> QED BY <2>1, <2>2
  <1>14. NoByteSkipped'
    <2> SUFFICES ASSUME NEW k \in 1 .. Len(streamed'), NEW b \in 1 .. (streamed'[k] - 1),
                        NEW m \in 1 .. Len(written), written[m] = b
                 PROVE  \E j \in 1 .. (k - 1) : streamed'[j] = b
      BY <1>2 DEF NoByteSkipped
    <2>1. CASE k \in 1 .. Len(streamed)
      <3>1. PICK j \in 1 .. (k - 1) : streamed[j] = b
        BY <1>7, <2>1 DEF OrderInv, NoByteSkipped
      <3>2. j \in 1 .. Len(streamed)
        BY <2>1, Numbers
      <3> QED BY <1>7, <3>1, <3>2
    <2>2. CASE k \notin 1 .. Len(streamed)
      <3> DEFINE i == k - Len(streamed)
      <3>1. i \in 1 .. n /\ k = Len(streamed) + i
        BY <1>12, <2>2
      <3> HIDE DEF i
      <3>2. at + i \in 1 .. Len(written) /\ streamed'[k] = written[at + i]
        BY <1>8, <3>1
      <3>3. written[m] < written[at + i]
        BY <3>2, Numbers
      <3>4. m < at + i
        <4>1. CASE m = at + i
          BY <3>2, <3>3, <4>1, Numbers
        <4>2. CASE at + i < m
          <5>1. written[at + i] < written[m]
            BY <3>2, <4>2 DEF OrderInv, Increasing
          <5>2. written[at + i] \in Nat /\ written[m] \in Nat
            BY <3>2, Numbers
          <5> QED BY <3>3, <5>1, <5>2
        <4>3. m \in Nat /\ at + i \in Nat
          BY <1>5, <3>1
        <4> QED BY <4>1, <4>2, <4>3
      <3>5. CASE m \in 1 .. at
        <4>1. PICK j \in 1 .. Len(streamed) : streamed[j] = written[m]
          BY <3>5 DEF OrderInv, Sent
        <4>2. j \in 1 .. (k - 1) /\ streamed'[j] = b
          BY <1>7, <3>1, <4>1, Numbers
        <4> QED BY <4>2
      <3>6. CASE m > at
        <4>1. m - at \in 1 .. n /\ at + (m - at) = m /\ m - at < i
          BY <1>5, <3>1, <3>4, <3>6
        <4>2. streamed'[Len(streamed) + (m - at)] = b
          BY <1>8, <4>1
        <4>3. Len(streamed) + (m - at) \in 1 .. (k - 1)
          <5>1. Len(streamed) \in Nat /\ m - at >= 1 /\ m - at \in Int /\ i \in Nat
            BY <3>1, <4>1, Numbers
          <5> QED BY <3>1, <4>1, <5>1
        <4> QED BY <4>2, <4>3
      <3> QED BY <1>5, <3>5, <3>6
    <2> QED BY <2>1, <2>2
  <1> QED BY <1>10, <1>11, <1>13, <1>14 DEF OrderInv

LEMMA SyncReturnsOrder == ASSUME StreamIInv, OrderInv, SyncReturns PROVE OrderInv'
  <1>1. Rest = <<>> /\ ptr' = 0 /\ call' = "none" /\ UNCHANGED <<nput, streamed>>
    BY DEF SyncReturns
  <1>2. ptr = Len(outBuf)
    BY <1>1, RestType, Numbers DEF StreamIInv
  <1>3. CASE call = "put"
    <2>1. outBuf' = <<ch>> /\ written' = Append(written, ch)
      BY <1>3 DEF SyncReturns
    <2>2. ch \in 1 .. MaxPut /\ nput' = ch /\ \A j \in 1 .. Len(written) : written[j] < ch
      BY <1>1, <1>3 DEF StreamIInv, CallInv, OrderInv, Increasing
    <2> QED BY <1>1, <1>2, <2>1, <2>2, StoreKeepsOrder
  <1>4. CASE call # "put"
    <2>1. outBuf' = <<>> /\ UNCHANGED written
      BY <1>4 DEF SyncReturns
    <2>2. Base' = Len(written) /\ Base + ptr = Len(written)
      BY <1>2, <2>1, Numbers DEF Base
    <2>3. Increasing' /\ Genuine' /\ NoByteSkipped'
      BY <1>1, <2>1 DEF OrderInv, Increasing, Genuine, NoByteSkipped
    <2>4. Suffix'
      BY <2>1, Numbers DEF Suffix
    <2>5. Sent'
      BY <1>1, <2>1, <2>2, Numbers DEF OrderInv, Sent
    <2> QED BY <2>3, <2>4, <2>5 DEF OrderInv
  <1> QED BY <1>3, <1>4

LEMMA OrderStep == ASSUME StreamIInv, OrderInv, [StreamNext]_streamVars PROVE OrderInv'
  <1>1. CASE Put \/ SyncSends \/ SyncReturns
    BY <1>1, PutOrder, SyncSendsOrder, SyncReturnsOrder
  <1>2. CASE Flush
    BY <1>2, QuietKeepsOrder DEF Flush, SyncStarts, OrderQuiet
  <1>3. CASE UnderflowFills \/ UnderflowEnds \/ Get \/ Recv \/ RecvReturns \/ Clear \/ CloseSocket \/ Reopen
    BY <1>3, QuietKeepsOrder
      DEF UnderflowFills, UnderflowEnds, Get, Recv, RecvReturns, Clear, CloseSocket, Reopen, outVars, OrderQuiet
  <1>4. CASE SendAll \/ SendAllSends \/ SendKills
    BY <1>4, QuietKeepsOrder DEF SendAll, SendAllSends, SendKills, outVars, OrderQuiet
  <1>5. CASE CallFails \/ CallInterrupted
    BY <1>5, QuietKeepsOrder DEF CallFails, CallInterrupted, Throw, OrderQuiet
  <1>6. CASE Peer
    BY <1>6, QuietKeepsOrder DEF Peer, PeerSends, PeerReads, PeerEnds, PeerResets, outVars, OrderQuiet
  <1>7. CASE UNCHANGED streamVars
    BY <1>7, QuietKeepsOrder DEF streamVars, outVars, OrderQuiet
  <1> QED BY <1>1, <1>2, <1>3, <1>4, <1>5, <1>6, <1>7 DEF StreamNext, System, User

(* Whatever fails and starts over, no byte reaches the peer before all the *)
(* bytes the user had written before it: a repeated put area is only a     *)
(* repetition.                                                             *)
THEOREM NothingIsSkipped == StreamSpec => []NoByteSkipped
  <1>1. StreamInit => OrderInv
    BY InitOrder
  <1>2. StreamIInv /\ OrderInv /\ [StreamNext]_streamVars => OrderInv'
    BY OrderStep
  <1>3. OrderInv => NoByteSkipped
    BY DEF OrderInv
  <1> QED BY <1>1, <1>2, <1>3, StreamInductive, PTL DEF StreamSpec

----------------------------------------------------------------------------
(* Each byte of the peer is in one place. *)

PeerBytes == 1 .. MaxPeer
BytesOf(s) == {s[k] : k \in 1 .. Len(s)}
Sorted(s) == \A j, k \in 1 .. Len(s) : j < k => s[j] < s[k]
Before(A, B) == \A a \in A : \A b \in B : a < b

(* What the user has got through the stream, what the get area holds, what  *)
(* recv() has returned, what close() has dropped and what is on its way are *)
(* apart, and together all that the peer has sent.                          *)
Apart(g, i, t, d, q) ==
  /\ Before(g, i)
  /\ Before(((g \cup i) \cup t) \cup d, q)
  /\ (g \cup i) \cap (t \cup d) = {}
  /\ t \cap d = {}
  /\ (((g \cup i) \cup t) \cup d) \cup q = 1 .. nsent

Places == Apart(BytesOf(got), BytesOf(inBuf), BytesOf(taken), dropped, BytesOf(inq))

InputInv ==
  /\ Sorted(got) /\ Sorted(inBuf) /\ Sorted(taken) /\ Sorted(inq)
  /\ Places
  /\ call = "get" => inBuf = <<>>

LEMMA InputSequences ==
  ASSUME StreamIInv
  PROVE  /\ got \in Seq(PeerBytes) /\ inBuf \in Seq(PeerBytes)
         /\ taken \in Seq(PeerBytes) /\ inq \in Seq(PeerBytes)
         /\ dropped \subseteq PeerBytes /\ nsent \in Nat /\ PeerBytes \subseteq Nat
  BY DEF StreamIInv, StreamTypeOK, PeerBytes

LEMMA BytesAreNumbers ==
  ASSUME NEW s \in Seq(PeerBytes)
  PROVE  BytesOf(s) \subseteq PeerBytes /\ BytesOf(s) \subseteq Int
  <1>1. BytesOf(s) \subseteq PeerBytes
    BY DEF BytesOf
  <1> QED BY <1>1 DEF PeerBytes

(* The first n bytes of a sequence, and the others. *)
LEMMA Divided ==
  ASSUME NEW s \in Seq(PeerBytes), NEW n \in 0 .. Len(s), Sorted(s)
  PROVE  /\ BytesOf(SubSeq(s, 1, n)) \cup BytesOf(SubSeq(s, n + 1, Len(s))) = BytesOf(s)
         /\ Sorted(SubSeq(s, 1, n)) /\ Sorted(SubSeq(s, n + 1, Len(s)))
         /\ Before(BytesOf(SubSeq(s, 1, n)), BytesOf(SubSeq(s, n + 1, Len(s))))
  <1>0. PICK a, b : a = SubSeq(s, 1, n) /\ b = SubSeq(s, n + 1, Len(s))
    OBVIOUS
  <1>1. Len(a) = n /\ \A k \in 1 .. n : a[k] = s[k]
    BY <1>0
  <1>2. Len(b) = Len(s) - n /\ \A k \in 1 .. (Len(s) - n) : b[k] = s[n + k]
    BY <1>0, TailPart
  <1>3. Len(s) \in Nat /\ n \in Nat /\ n <= Len(s)
    OBVIOUS
  <1>4. BytesOf(a) \cup BytesOf(b) = BytesOf(s)
    <2>1. BytesOf(a) \subseteq BytesOf(s)
      BY <1>1, <1>3 DEF BytesOf
    <2>2. BytesOf(b) \subseteq BytesOf(s)
      <3>1. \A k \in 1 .. (Len(s) - n) : n + k \in 1 .. Len(s)
        BY <1>3
      <3> QED BY <1>2, <3>1 DEF BytesOf
    <2>3. ASSUME NEW k \in 1 .. Len(s) PROVE s[k] \in BytesOf(a) \cup BytesOf(b)
      <3>1. CASE k \in 1 .. n
        BY <1>1, <3>1 DEF BytesOf
      <3>2. CASE k \notin 1 .. n
        <4>1. k - n \in 1 .. (Len(s) - n) /\ n + (k - n) = k
          BY <1>3, <3>2
        <4> QED BY <1>2, <4>1 DEF BytesOf
      <3> QED BY <3>1, <3>2
    <2> QED BY <2>1, <2>2, <2>3 DEF BytesOf
  <1>5. Sorted(a)
    BY <1>1, <1>3 DEF Sorted
  <1>6. Sorted(b)
    <2>1. \A j, k \in 1 .. (Len(s) - n) :
            j < k => n + j \in 1 .. Len(s) /\ n + k \in 1 .. Len(s) /\ n + j < n + k
      BY <1>3
    <2> QED BY <1>2, <2>1 DEF Sorted
  <1>7. Before(BytesOf(a), BytesOf(b))
    <2>1. \A j \in 1 .. n : \A k \in 1 .. (Len(s) - n) :
            j \in 1 .. Len(s) /\ n + k \in 1 .. Len(s) /\ j < n + k
      BY <1>3
    <2> SUFFICES ASSUME NEW x \in BytesOf(a), NEW y \in BytesOf(b) PROVE x < y
      BY DEF Before
    <2>2. PICK j \in 1 .. n : x = s[j]
      BY <1>1 DEF BytesOf
    <2>3. PICK k \in 1 .. (Len(s) - n) : y = s[n + k]
      BY <1>2 DEF BytesOf
    <2> QED BY <2>1, <2>2, <2>3 DEF Sorted
  <1> QED BY <1>0, <1>4, <1>5, <1>6, <1>7

LEMMA Parted ==
  ASSUME NEW s \in Seq(PeerBytes), s # <<>>, Sorted(s)
  PROVE  /\ Head(s) \in PeerBytes /\ Tail(s) \in Seq(PeerBytes)
         /\ {Head(s)} \cup BytesOf(Tail(s)) = BytesOf(s)
         /\ Sorted(Tail(s)) /\ Before({Head(s)}, BytesOf(Tail(s)))
  <1>1. /\ Len(s) \in Nat \ {0} /\ Head(s) = s[1] /\ s[1] \in PeerBytes
        /\ Tail(s) \in Seq(PeerBytes) /\ Tail(s) = SubSeq(s, 2, Len(s))
    OBVIOUS
  <1>2. PICK a, b : a = SubSeq(s, 1, 1) /\ b = SubSeq(s, 1 + 1, Len(s))
    OBVIOUS
  <1>3. b = Tail(s) /\ Len(a) = 1 /\ a[1] = s[1]
    BY <1>1, <1>2
  <1>4. BytesOf(a) = {Head(s)}
    BY <1>1, <1>3 DEF BytesOf
  <1>5. 1 \in 0 .. Len(s)
    BY <1>1
  <1>6. BytesOf(a) \cup BytesOf(b) = BytesOf(s) /\ Sorted(b) /\ Before(BytesOf(a), BytesOf(b))
    BY <1>2, <1>5, Divided
  <1> QED BY <1>1, <1>3, <1>4, <1>6

LEMMA Joined ==
  ASSUME NEW s \in Seq(PeerBytes), NEW t \in Seq(PeerBytes), Sorted(s), Sorted(t),
         Before(BytesOf(s), BytesOf(t))
  PROVE  /\ s \o t \in Seq(PeerBytes)
         /\ BytesOf(s \o t) = BytesOf(s) \cup BytesOf(t) /\ Sorted(s \o t)
  <1>1. PICK S : S = PeerBytes
    OBVIOUS
  <1>2. PICK u \in Seq(S) :
          /\ u = s \o t /\ Len(u) = Len(s) + Len(t)
          /\ \A k \in 1 .. Len(s) : u[k] = s[k]
          /\ \A k \in 1 .. Len(t) : u[Len(s) + k] = t[k]
    <2>1. s \in Seq(S) /\ t \in Seq(S)
      BY <1>1
    <2>2. PICK u : u = s \o t
      OBVIOUS
    <2>3. /\ u \in Seq(S) /\ Len(u) = Len(s) + Len(t)
          /\ \A k \in 1 .. Len(s) : u[k] = s[k]
          /\ \A k \in 1 .. Len(t) : u[Len(s) + k] = t[k]
      BY <2>1, <2>2, AppendedPart
    <2> QED BY <2>2, <2>3
  <1>3. Len(s) \in Nat /\ Len(t) \in Nat
    OBVIOUS
  <1>4. \A k \in 1 .. Len(u) :
          \/ k \in 1 .. Len(s)
          \/ k - Len(s) \in 1 .. Len(t) /\ Len(s) + (k - Len(s)) = k
    BY <1>2, <1>3
  <1>5. BytesOf(u) = BytesOf(s) \cup BytesOf(t)
    <2>1. BytesOf(u) \subseteq BytesOf(s) \cup BytesOf(t)
      BY <1>2, <1>4 DEF BytesOf
    <2>2. BytesOf(s) \subseteq BytesOf(u)
      BY <1>2, <1>3 DEF BytesOf
    <2>3. BytesOf(t) \subseteq BytesOf(u)
      <3>1. \A k \in 1 .. Len(t) : Len(s) + k \in 1 .. Len(u)
        BY <1>2, <1>3
      <3> QED BY <1>2, <3>1 DEF BytesOf
    <2> QED BY <2>1, <2>2, <2>3
  <1>6. ASSUME NEW j \in 1 .. Len(u), NEW k \in 1 .. Len(u), j < k PROVE u[j] < u[k]
    <2>1. CASE k \in 1 .. Len(s)
      <3>1. j \in 1 .. Len(s)
        BY <1>3, <1>6, <2>1
      <3> QED BY <1>2, <1>6, <2>1, <3>1 DEF Sorted
    <2>2. CASE j \in 1 .. Len(s) /\ k \notin 1 .. Len(s)
      <3>1. u[j] \in BytesOf(s) /\ u[k] \in BytesOf(t)
        <4>1. u[j] = s[j] /\ k - Len(s) \in 1 .. Len(t) /\ u[k] = t[k - Len(s)]
          BY <1>2, <1>4, <2>2
        <4> QED BY <2>2, <4>1 DEF BytesOf
      <3> QED BY <3>1 DEF Before
    <2>3. CASE j \notin 1 .. Len(s) /\ k \notin 1 .. Len(s)
      <3>1. /\ j - Len(s) \in 1 .. Len(t) /\ u[j] = t[j - Len(s)]
            /\ k - Len(s) \in 1 .. Len(t) /\ u[k] = t[k - Len(s)]
        BY <1>2, <1>4, <2>3
      <3>2. j - Len(s) < k - Len(s)
        BY <1>3, <1>6
      <3> QED BY <3>1, <3>2 DEF Sorted
    <2> QED BY <2>1, <2>2, <2>3
  <1>7. Sorted(u)
    BY <1>6 DEF Sorted
  <1> QED BY <1>1, <1>2, <1>5, <1>7

LEMMA Appended ==
  ASSUME NEW s \in Seq(PeerBytes), NEW x \in PeerBytes, Sorted(s), Before(BytesOf(s), {x})
  PROVE  BytesOf(Append(s, x)) = BytesOf(s) \cup {x} /\ Sorted(Append(s, x))
  <1>1. PICK t \in Seq(PeerBytes) : t = <<x>> /\ Len(t) = 1 /\ t[1] = x
    <2>1. <<x>> \in Seq(PeerBytes) /\ Len(<<x>>) = 1 /\ <<x>>[1] = x
      OBVIOUS
    <2> QED BY <2>1
  <1>2. BytesOf(t) = {x} /\ Sorted(t)
    BY <1>1 DEF BytesOf, Sorted
  <1>3. Append(s, x) = s \o t
    BY <1>1
  <1> QED BY <1>2, <1>3, Joined

LEMMA InitInput == StreamInit => InputInv
  <1> SUFFICES ASSUME StreamInit PROVE InputInv
    OBVIOUS
  <1>1. /\ got = <<>> /\ inBuf = <<>> /\ taken = <<>> /\ inq = <<>> /\ dropped = {} /\ nsent = 0
        /\ call = "none"
    BY DEF StreamInit
  <1>2. BytesOf(<<>>) = {} /\ Sorted(<<>>)
    BY DEF BytesOf, Sorted
  <1> QED BY <1>1, <1>2 DEF InputInv, Places, Apart, Before

\* Steps in which no byte of the peer moves.
InputQuiet ==
  /\ UNCHANGED <<got, inBuf, taken, inq, dropped, nsent>>
  /\ call' = "get" => call = "get" \/ inBuf = <<>>

LEMMA QuietKeepsInput == ASSUME InputInv, InputQuiet PROVE InputInv'
  BY DEF InputInv, InputQuiet, Places, Apart

\* istream::get() takes the first byte of the get area.
LEMMA GetInput == ASSUME StreamIInv, InputInv, Get PROVE InputInv'
  <1>1. CASE UNCHANGED <<got, inBuf>>
    BY <1>1, QuietKeepsInput DEF Get, netVars, InputQuiet
  <1>2. CASE /\ inBuf # <<>> /\ got' = Append(got, Head(inBuf)) /\ inBuf' = Tail(inBuf)
             /\ UNCHANGED call
    <2>1. UNCHANGED <<taken, inq, dropped, nsent>> /\ call' # "get"
      BY <1>2 DEF Get, netVars
    <2>2. PICK g, i, t, q, x, r :
            /\ g = BytesOf(got) /\ i = BytesOf(inBuf) /\ t = BytesOf(taken) /\ q = BytesOf(inq)
            /\ x = Head(inBuf) /\ r = BytesOf(Tail(inBuf))
      OBVIOUS
    <2>3. x \in PeerBytes /\ {x} \cup r = i /\ Sorted(inBuf') /\ Before({x}, r)
      BY <1>2, <2>2, InputSequences, Parted DEF InputInv
    <2>4. Apart(g, i, t, dropped, q)
      BY <2>2 DEF InputInv, Places
    <2>5. Before(BytesOf(got), {x})
      BY <2>2, <2>3, <2>4 DEF Apart, Before
    <2>6. BytesOf(got') = g \cup {x} /\ Sorted(got')
      BY <1>2, <2>2, <2>3, <2>5, InputSequences, Appended DEF InputInv
    <2>7. Apart(g \cup {x}, r, t, dropped, q)
      <3>1. Before(g \cup {x}, r)
        BY <2>3, <2>4 DEF Apart, Before
      <3>2. (g \cup {x}) \cup r = g \cup i
        BY <2>3
      <3> QED BY <2>4, <3>1, <3>2 DEF Apart
    <2>8. Places'
      BY <1>2, <2>1, <2>2, <2>6, <2>7 DEF Places, Apart
    <2> QED BY <2>1, <2>3, <2>6, <2>8 DEF InputInv
  <1> QED BY <1>1, <1>2 DEF Get

\* What recv() returns, and what it leaves, for at most n bytes.
LEMMA ChunkInput ==
  ASSUME inq \in Seq(PeerBytes), inq # <<>>, Sorted(inq), NEW n \in Nat \ {0}
  PROVE  /\ Chunk(n) \in Seq(PeerBytes) /\ Chunk(n) # <<>>
         /\ BytesOf(Chunk(n)) \cup BytesOf(After(n)) = BytesOf(inq)
         /\ Sorted(Chunk(n)) /\ Sorted(After(n))
         /\ Before(BytesOf(Chunk(n)), BytesOf(After(n)))
         /\ Head(Chunk(n)) = Head(inq)
  <1>1. PICK m \in 1 .. Len(inq) : m = IF Len(inq) < n THEN Len(inq) ELSE n
    OBVIOUS
  <1>2. Chunk(n) = SubSeq(inq, 1, m)
    BY <1>1 DEF Chunk
  <1>3. Chunk(n) \in Seq(PeerBytes) /\ Len(Chunk(n)) = m /\ Head(Chunk(n)) = Head(inq)
    BY <1>1, <1>2
  <1>4. After(n) = SubSeq(inq, m + 1, Len(inq))
    BY <1>3 DEF After
  <1>5. m \in 0 .. Len(inq) /\ m # 0
    BY <1>1
  <1>6. Chunk(n) # <<>>
    BY <1>3, <1>5
  <1>7. PICK a, b : a = Chunk(n) /\ b = After(n)
    OBVIOUS
  <1>8. /\ BytesOf(a) \cup BytesOf(b) = BytesOf(inq)
        /\ Sorted(a) /\ Sorted(b) /\ Before(BytesOf(a), BytesOf(b))
    BY <1>2, <1>4, <1>5, <1>7, Divided
  <1> QED BY <1>3, <1>6, <1>7, <1>8

\* recv() fills the get area, and its first byte goes to the user.
LEMMA FillInput == ASSUME StreamIInv, InputInv, UnderflowFills PROVE InputInv'
  <1>1. /\ inq # <<>> /\ inBuf = <<>> /\ UNCHANGED <<taken, dropped, nsent>> /\ call' # "get"
        /\ inBuf' = Tail(Chunk(BufSize)) /\ got' = Append(got, Head(inq)) /\ inq' = After(BufSize)
    BY DEF UnderflowFills, InputInv
  <1>2. /\ Chunk(BufSize) \in Seq(PeerBytes) /\ Chunk(BufSize) # <<>>
        /\ BytesOf(Chunk(BufSize)) \cup BytesOf(After(BufSize)) = BytesOf(inq)
        /\ Sorted(Chunk(BufSize)) /\ Sorted(After(BufSize))
        /\ Before(BytesOf(Chunk(BufSize)), BytesOf(After(BufSize)))
        /\ Head(Chunk(BufSize)) = Head(inq)
    BY <1>1, ChunkInput, InputSequences DEF InputInv
  <1>3. PICK g, t, q, x, i, r :
          /\ g = BytesOf(got) /\ t = BytesOf(taken) /\ q = BytesOf(inq)
          /\ x = Head(inq) /\ i = BytesOf(Tail(Chunk(BufSize))) /\ r = BytesOf(After(BufSize))
    OBVIOUS
  <1>4. /\ x \in PeerBytes /\ ({x} \cup i) \cup r = q /\ Sorted(inBuf')
        /\ Before({x}, i) /\ Before({x} \cup i, r)
    BY <1>1, <1>2, <1>3, Parted
  <1>5. Apart(g, {}, t, dropped, q)
    <2>1. BytesOf(inBuf) = {}
      BY <1>1 DEF BytesOf
    <2> QED BY <1>3, <2>1 DEF InputInv, Places
  <1>6. Before(BytesOf(got), {x})
    BY <1>3, <1>4, <1>5 DEF Apart, Before
  <1>7. BytesOf(got') = g \cup {x} /\ Sorted(got')
    BY <1>1, <1>3, <1>4, <1>6, InputSequences, Appended DEF InputInv
  <1>8. Apart(g \cup {x}, i, t, dropped, r)
    <2>1. g \subseteq Int /\ t \subseteq Int /\ dropped \subseteq Int /\ q \subseteq Int
      BY <1>3, InputSequences, BytesAreNumbers
    <2>2. \A b \in q : b \notin (g \cup t) \cup dropped
      BY <1>5, <2>1 DEF Apart, Before
    <2>3. Before(g \cup {x}, i)
      BY <1>4, <1>5 DEF Apart, Before
    <2>4. Before((((g \cup {x}) \cup i) \cup t) \cup dropped, r)
      BY <1>4, <1>5 DEF Apart, Before
    <2>5. ((g \cup {x}) \cup i) \cap (t \cup dropped) = {}
      BY <1>4, <1>5, <2>2 DEF Apart
    <2>6. t \cap dropped = {} /\ (((((g \cup {x}) \cup i) \cup t) \cup dropped) \cup r) = 1 .. nsent
      BY <1>4, <1>5 DEF Apart
    <2> QED BY <2>3, <2>4, <2>5, <2>6 DEF Apart
  <1>9. Places'
    BY <1>1, <1>3, <1>7, <1>8 DEF Places, Apart
  <1> QED BY <1>1, <1>2, <1>4, <1>7, <1>9 DEF InputInv

\* A direct recv() returns the first bytes that have arrived.
LEMMA RecvInput == ASSUME StreamIInv, InputInv, RecvReturns PROVE InputInv'
  <1>1. UNCHANGED <<got, inBuf, dropped, nsent>> /\ call' # "get"
    BY DEF RecvReturns
  <1>2. CASE UNCHANGED <<taken, inq>>
    BY <1>1, <1>2, QuietKeepsInput DEF InputQuiet
  <1>3. CASE \E n \in 1 .. Len(inq) : taken' = taken \o Chunk(n) /\ inq' = After(n)
    <2>1. PICK n \in 1 .. Len(inq) : taken' = taken \o Chunk(n) /\ inq' = After(n)
      BY <1>3
    <2>2. inq # <<>> /\ n \in Nat \ {0}
      BY <2>1, InputSequences
    <2>3. /\ Chunk(n) \in Seq(PeerBytes)
          /\ BytesOf(Chunk(n)) \cup BytesOf(After(n)) = BytesOf(inq)
          /\ Sorted(Chunk(n)) /\ Sorted(After(n))
          /\ Before(BytesOf(Chunk(n)), BytesOf(After(n)))
      BY <2>2, ChunkInput, InputSequences DEF InputInv
    <2>4. PICK g, i, t, q, c, r :
            /\ g = BytesOf(got) /\ i = BytesOf(inBuf) /\ t = BytesOf(taken) /\ q = BytesOf(inq)
            /\ c = BytesOf(Chunk(n)) /\ r = BytesOf(After(n))
      OBVIOUS
    <2>5. Apart(g, i, t, dropped, q) /\ c \cup r = q /\ Before(c, r)
      BY <2>3, <2>4 DEF InputInv, Places
    <2>6. Before(BytesOf(taken), BytesOf(Chunk(n)))
      BY <2>4, <2>5 DEF Apart, Before
    <2>7. BytesOf(taken') = t \cup c /\ Sorted(taken')
      BY <2>1, <2>3, <2>4, <2>6, InputSequences, Joined DEF InputInv
    <2>8. Apart(g, i, t \cup c, dropped, r)
      <3>1. /\ g \subseteq Int /\ i \subseteq Int /\ t \subseteq Int
            /\ dropped \subseteq Int /\ q \subseteq Int
        BY <2>4, InputSequences, BytesAreNumbers
      <3>2. \A b \in q : b \notin ((g \cup i) \cup t) \cup dropped
        BY <2>5, <3>1 DEF Apart, Before
      <3>3. Before(((g \cup i) \cup (t \cup c)) \cup dropped, r)
        BY <2>5 DEF Apart, Before
      <3>4. (g \cup i) \cap ((t \cup c) \cup dropped) = {} /\ (t \cup c) \cap dropped = {}
        BY <2>5, <3>2 DEF Apart
      <3>5. (((g \cup i) \cup (t \cup c)) \cup dropped) \cup r = 1 .. nsent
        BY <2>5 DEF Apart
      <3> QED BY <2>5, <3>3, <3>4, <3>5 DEF Apart
    <2>9. Places'
      BY <1>1, <2>1, <2>4, <2>7, <2>8 DEF Places, Apart
    <2> QED BY <1>1, <2>1, <2>3, <2>7, <2>9 DEF InputInv
  <1> QED BY <1>2, <1>3 DEF RecvReturns

\* close() drops what has arrived.
LEMMA CloseInput == ASSUME StreamIInv, InputInv, CloseSocket PROVE InputInv'
  <1>1. /\ UNCHANGED <<got, inBuf, taken, nsent>> /\ call' # "get"
        /\ dropped' = dropped \cup BytesOf(inq) /\ inq' = <<>>
    BY DEF CloseSocket, inVars, BytesOf
  <1>2. BytesOf(inq') = {} /\ Sorted(inq')
    BY <1>1 DEF BytesOf, Sorted
  <1>3. PICK g, i, t, q :
          g = BytesOf(got) /\ i = BytesOf(inBuf) /\ t = BytesOf(taken) /\ q = BytesOf(inq)
    OBVIOUS
  <1>4. Apart(g, i, t, dropped, q)
    BY <1>3 DEF InputInv, Places
  <1>5. Apart(g, i, t, dropped \cup q, {})
    <2>1. g \subseteq Int /\ i \subseteq Int /\ t \subseteq Int /\ q \subseteq Int
      BY <1>3, InputSequences, BytesAreNumbers
    <2>2. \A b \in q : b \notin (g \cup i) \cup t
      BY <1>4, <2>1 DEF Apart, Before
    <2> QED BY <1>4, <2>2 DEF Apart, Before
  <1>6. Places'
    BY <1>1, <1>2, <1>3, <1>5 DEF Places, Apart
  <1> QED BY <1>1, <1>2, <1>6 DEF InputInv

\* The next byte of the peer arrives.
LEMMA PeerSendsInput == ASSUME StreamIInv, InputInv, PeerSends PROVE InputInv'
  <1>1. /\ UNCHANGED <<got, inBuf, taken, dropped, call>>
        /\ nsent' = nsent + 1 /\ inq' = Append(inq, nsent + 1) /\ nsent + 1 \in PeerBytes
    BY InputSequences DEF PeerSends, inVars, PeerBytes
  <1>2. PICK g, i, t, q, n :
          /\ g = BytesOf(got) /\ i = BytesOf(inBuf) /\ t = BytesOf(taken) /\ q = BytesOf(inq)
          /\ n = nsent
    OBVIOUS
  <1>3. Apart(g, i, t, dropped, q) /\ n \in Nat
    BY <1>2, InputSequences DEF InputInv, Places
  <1>4. /\ Before(q, {n + 1}) /\ Before(((g \cup i) \cup t) \cup dropped, {n + 1})
        /\ (1 .. n) \cup {n + 1} = 1 .. (n + 1)
    <2>1. \A b \in (((g \cup i) \cup t) \cup dropped) \cup q : b \in 1 .. n
      BY <1>2, <1>3 DEF Apart
    <2>2. \A b \in 1 .. n : b < n + 1
      BY <1>3
    <2>3. (1 .. n) \cup {n + 1} = 1 .. (n + 1)
      BY <1>3
    <2> QED BY <2>1, <2>2, <2>3 DEF Before
  <1>5. BytesOf(inq') = q \cup {n + 1} /\ Sorted(inq')
    BY <1>1, <1>2, <1>4, InputSequences, Appended DEF InputInv
  <1>6. Places'
    <2>1. Before(((g \cup i) \cup t) \cup dropped, q \cup {n + 1})
      BY <1>3, <1>4 DEF Apart, Before
    <2>2. (((g \cup i) \cup t) \cup dropped) \cup (q \cup {n + 1}) = 1 .. (n + 1)
      BY <1>2, <1>3, <1>4 DEF Apart
    <2> QED BY <1>1, <1>2, <1>3, <1>5, <2>1, <2>2 DEF Places, Apart
  <1> QED BY <1>1, <1>5, <1>6 DEF InputInv

LEMMA InputOrderStep == ASSUME StreamIInv, InputInv, [StreamNext]_streamVars PROVE InputInv'
  <1>1. CASE Get \/ UnderflowFills \/ RecvReturns \/ CloseSocket \/ PeerSends
    BY <1>1, GetInput, FillInput, RecvInput, CloseInput, PeerSendsInput
  <1>2. CASE Put \/ Flush \/ SyncSends \/ SyncReturns
    BY <1>2, QuietKeepsInput DEF Put, Flush, SyncSends, SyncReturns, inVars, netVars, InputQuiet
  <1>3. CASE UnderflowEnds \/ Recv \/ Clear \/ Reopen
    BY <1>3, QuietKeepsInput DEF UnderflowEnds, Recv, Clear, Reopen, inVars, netVars, InputQuiet
  <1>4. CASE SendAll \/ SendAllSends \/ SendKills
    BY <1>4, QuietKeepsInput DEF SendAll, SendAllSends, SendKills, inVars, netVars, InputQuiet
  <1>5. CASE CallFails \/ CallInterrupted
    BY <1>5, QuietKeepsInput DEF CallFails, CallInterrupted, Throw, inVars, InputQuiet
  <1>6. CASE PeerReads \/ PeerEnds \/ PeerResets
    BY <1>6, QuietKeepsInput DEF PeerReads, PeerEnds, PeerResets, inVars, netVars, InputQuiet
  <1>7. CASE UNCHANGED streamVars
    BY <1>7, QuietKeepsInput DEF streamVars, inVars, netVars, InputQuiet
  <1> QED BY <1>1, <1>2, <1>3, <1>4, <1>5, <1>6, <1>7 DEF StreamNext, System, User, Peer

\* A byte that is in one of the places is in it once, and in no other.
LEMMA PlaceIsOne ==
  ASSUME NEW s \in Seq(PeerBytes), Sorted(s), NEW b
  PROVE  /\ b \notin BytesOf(s) => {j \in 1 .. Len(s) : s[j] = b} = {}
         /\ b \in BytesOf(s) => \E k \in 1 .. Len(s) : {j \in 1 .. Len(s) : s[j] = b} = {k}
  <1>1. b \notin BytesOf(s) => {j \in 1 .. Len(s) : s[j] = b} = {}
    BY DEF BytesOf
  <1>2. ASSUME b \in BytesOf(s)
        PROVE  \E k \in 1 .. Len(s) : {j \in 1 .. Len(s) : s[j] = b} = {k}
    <2>1. PICK k \in 1 .. Len(s) : s[k] = b
      BY <1>2 DEF BytesOf
    <2>2. ASSUME NEW j \in 1 .. Len(s), s[j] = b PROVE j = k
      <3>1. ~(j < k) /\ ~(k < j)
        <4>1. b \in PeerBytes
          BY <2>1
        <4>2. b \in Nat
          BY <4>1 DEF PeerBytes
        <4> QED BY <2>1, <2>2, <4>2 DEF Sorted
      <3>2. Len(s) \in Nat
        OBVIOUS
      <3> QED BY <3>1, <3>2
    <2> QED BY <2>1, <2>2
  <1> QED BY <1>1, <1>2

LEMMA PlacesInput == StreamIInv /\ InputInv => InputIntact
  <1> SUFFICES ASSUME StreamIInv, InputInv PROVE InputIntact
    OBVIOUS
  <1>1. Sorted(got \o inBuf) /\ Sorted(taken)
    <2>1. Before(BytesOf(got), BytesOf(inBuf))
      BY DEF InputInv, Places, Apart
    <2> QED BY <2>1, InputSequences, Joined DEF InputInv
  <1>2. ASSUME NEW b \in 1 .. nsent
        PROVE  Cardinality({<<1, k>> : k \in {j \in 1 .. Len(got) : got[j] = b}}
                 \cup {<<2, k>> : k \in {j \in 1 .. Len(inBuf) : inBuf[j] = b}}
                 \cup {<<3, k>> : k \in {j \in 1 .. Len(taken) : taken[j] = b}}
                 \cup {<<4, k>> : k \in {j \in 1 .. Len(inq) : inq[j] = b}}
                 \cup {<<5, 1>> : k \in dropped \cap {b}}) = 1
    <2>1. PICK g, i, t, q :
            /\ g = {j \in 1 .. Len(got) : got[j] = b}
            /\ i = {j \in 1 .. Len(inBuf) : inBuf[j] = b}
            /\ t = {j \in 1 .. Len(taken) : taken[j] = b}
            /\ q = {j \in 1 .. Len(inq) : inq[j] = b}
      OBVIOUS
    <2>2. PICK d : d = dropped \cap {b}
      OBVIOUS
    <2>3. \/ (\E k : g = {k}) /\ i = {} /\ t = {} /\ q = {} /\ d = {}
          \/ (\E k : i = {k}) /\ g = {} /\ t = {} /\ q = {} /\ d = {}
          \/ (\E k : t = {k}) /\ g = {} /\ i = {} /\ q = {} /\ d = {}
          \/ (\E k : q = {k}) /\ g = {} /\ i = {} /\ t = {} /\ d = {}
          \/ d = {b} /\ g = {} /\ i = {} /\ t = {} /\ q = {}
      <3>1. PICK G, I, T, Q :
              G = BytesOf(got) /\ I = BytesOf(inBuf) /\ T = BytesOf(taken) /\ Q = BytesOf(inq)
        OBVIOUS
      <3>2. /\ (b \notin G => g = {}) /\ (b \in G => \E k : g = {k})
            /\ (b \notin I => i = {}) /\ (b \in I => \E k : i = {k})
            /\ (b \notin T => t = {}) /\ (b \in T => \E k : t = {k})
            /\ (b \notin Q => q = {}) /\ (b \in Q => \E k : q = {k})
        BY <2>1, <3>1, InputSequences, PlaceIsOne DEF InputInv
      <3>3. (b \notin dropped => d = {}) /\ (b \in dropped => d = {b})
        BY <2>2
      <3>4. Apart(G, I, T, dropped, Q)
        BY <3>1 DEF InputInv, Places
      <3>5. \/ b \in G /\ b \notin I /\ b \notin T /\ b \notin Q /\ b \notin dropped
            \/ b \in I /\ b \notin G /\ b \notin T /\ b \notin Q /\ b \notin dropped
            \/ b \in T /\ b \notin G /\ b \notin I /\ b \notin Q /\ b \notin dropped
            \/ b \in Q /\ b \notin G /\ b \notin I /\ b \notin T /\ b \notin dropped
            \/ b \in dropped /\ b \notin G /\ b \notin I /\ b \notin T /\ b \notin Q
        <4>1. ~(b < b)
          OBVIOUS
        <4>2. /\ ~(b \in G /\ b \in I)
              /\ b \in Q => b \notin G /\ b \notin I /\ b \notin T /\ b \notin dropped
          BY <3>4, <4>1 DEF Apart, Before
        <4>3. /\ b \in G \/ b \in I => b \notin T /\ b \notin dropped
              /\ ~(b \in T /\ b \in dropped)
              /\ b \in G \/ b \in I \/ b \in T \/ b \in dropped \/ b \in Q
          BY <3>4 DEF Apart
        <4> QED BY <4>2, <4>3
      <3> QED BY <3>2, <3>3, <3>5
    <2>4. PICK S : S = {<<1, k>> : k \in g} \cup {<<2, k>> : k \in i} \cup {<<3, k>> : k \in t}
                        \cup {<<4, k>> : k \in q} \cup {<<5, 1>> : k \in d}
      OBVIOUS
    <2>5. \E x : S = {x}
      <3>1. ASSUME NEW k, g = {k}, i = {}, t = {}, q = {}, d = {} PROVE S = {<<1, k>>}
        BY <2>4, <3>1
      <3>2. ASSUME NEW k, i = {k}, g = {}, t = {}, q = {}, d = {} PROVE S = {<<2, k>>}
        BY <2>4, <3>2
      <3>3. ASSUME NEW k, t = {k}, g = {}, i = {}, q = {}, d = {} PROVE S = {<<3, k>>}
        BY <2>4, <3>3
      <3>4. ASSUME NEW k, q = {k}, g = {}, i = {}, t = {}, d = {} PROVE S = {<<4, k>>}
        BY <2>4, <3>4
      <3>5. ASSUME d = {b}, g = {}, i = {}, t = {}, q = {} PROVE S = {<<5, 1>>}
        BY <2>4, <3>5
      <3> QED BY <2>3, <3>1, <3>2, <3>3, <3>4, <3>5
    <2>6. Cardinality(S) = 1
      BY <2>5, FS_Singleton
    <2> QED BY <2>1, <2>2, <2>4, <2>6
  <1>3. \A s \in {got \o inBuf, taken} : \A j, k \in 1 .. Len(s) : j < k => s[j] < s[k]
    BY <1>1 DEF Sorted
  <1> QED BY <1>2, <1>3 DEF InputIntact

(* Each byte of the peer reaches the user once and in order, by the stream or *)
(* by a direct recv(), or was dropped by close(), whatever fails in between   *)
(* and however the two kinds of call alternate.                               *)
THEOREM InputIsIntact == StreamSpec => []InputIntact
  <1>1. StreamInit => InputInv
    BY InitInput
  <1>2. StreamIInv /\ InputInv /\ [StreamNext]_streamVars => InputInv'
    BY InputOrderStep
  <1> QED BY <1>1, <1>2, PlacesInput, StreamInductive, PTL DEF StreamSpec
=============================================================================
