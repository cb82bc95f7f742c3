----------------------------- MODULE Datagrams -----------------------------
(***************************************************************************)
(* The UDP echo programs: clients that send a line and wait for an answer  *)
(* (dg_cli), with a plain socket or one connected to the server, and a     *)
(* server with one buffer and one address (dg_echo), over a network that   *)
(* reorders datagrams, may lose or duplicate them, and carries those of    *)
(* other programs too.                                                     *)
(* A line is a pair of the client that has read it and its number.         *)
(***************************************************************************)
EXTENDS Naturals, Sequences, FiniteSets

CONSTANTS
  Clients,
  Server,    \* the server's address
  Stranger,  \* the address of another program
  MaxLines,  \* bound on the lines of a client's input
  MaxDups,   \* bound on the datagrams that the network duplicates
  MaxStrange \* bound on those of the other program

ASSUME DatagramAssumption ==
  /\ Server \notin Clients /\ Stranger \notin Clients /\ Server # Stranger
  /\ MaxLines \in Nat \ {0}
  /\ MaxDups \in Nat
  /\ MaxStrange \in Nat

VARIABLES
  kind,     \* of each client's socket, "plain" or "connected"
  lossy,    \* whether the network may lose datagrams in this run
  net,      \* how many copies of each datagram are on their way or in a socket
  dups,     \* how many datagrams have been duplicated
  strange,  \* how many the other program has sent
  refused,  \* connected sockets that have an error to report
  asked,    \* the lines each client has sent
  printed,  \* the answers it has printed
  at,       \* where each client is
  mesg, cliaddr,  \* of dg_echo
  server    \* where the server is

rigid == <<kind, lossy>>
counts == <<dups, strange>>
netVars == <<rigid, net, counts, refused>>
clientVars == <<asked, printed, at>>
serverVars == <<mesg, cliaddr, server>>
vars == <<netVars, clientVars, serverVars>>

Lines == Clients \X (1 .. MaxLines)
Noise == <<Stranger, 1>>
Packets ==
  {[to |-> Server, from |-> l[1], data |-> l] : l \in Lines \cup {Noise}}
  \cup [to : Clients, from : {Server}, data : Lines]
  \cup [to : Clients, from : {Stranger}, data : {Noise}]

TypeOK ==
  /\ kind \in [Clients -> {"plain", "connected"}]
  /\ lossy \in BOOLEAN
  /\ net \in [Packets -> 0 .. 1 + MaxDups + MaxStrange]
  /\ dups \in 0 .. MaxDups /\ strange \in 0 .. MaxStrange
  /\ refused \subseteq {c \in Clients : kind[c] = "connected"}
  /\ asked \in [Clients -> 0 .. MaxLines]
  /\ printed \in [Clients -> Seq(Lines \cup {Noise})]
  /\ at \in [Clients -> {"fgets", "recvfrom", "done", "quit"}]
  /\ \A c \in Clients :
       /\ at[c] \in {"fgets", "done"} => Len(printed[c]) = asked[c]
       /\ at[c] = "recvfrom" => Len(printed[c]) = asked[c] - 1
  /\ mesg \in Lines \cup {Noise} /\ cliaddr \in Clients \cup {Stranger}
  /\ server \in {"recvfrom", "sendto", "quit"}

Init ==
  /\ kind \in [Clients -> {"plain", "connected"}]
  /\ lossy \in BOOLEAN
  /\ net = [p \in Packets |-> 0]
  /\ dups = 0 /\ strange = 0
  /\ refused = {}
  /\ asked = [c \in Clients |-> 0]
  /\ printed = [c \in Clients |-> <<>>]
  /\ at = [c \in Clients |-> "fgets"]
  /\ mesg = Noise /\ cliaddr = Stranger   \* uninitialised, and not used
  /\ server = "recvfrom"

Put(p) == net' = [net EXCEPT ![p] = @ + 1]
Take(p) == net[p] > 0 /\ net' = [net EXCEPT ![p] = @ - 1]

\* A client that has ended has closed its socket: the error and the datagrams
\* that wait in it are thrown away, and so is what comes later.
Gone(c) == at[c] \in {"done", "quit"}
CloseSocket(c) ==
  /\ refused' = refused \ {c}
  /\ net' = [p \in Packets |-> IF p.to = c THEN 0 ELSE net[p]]

----------------------------------------------------------------------------
(* dg_cli() *)

\* fgets() and sendto(), to the server's address.
ClientSends(c) ==
  /\ at[c] = "fgets" /\ c \notin refused
  /\ asked[c] < MaxLines
  /\ asked' = [asked EXCEPT ![c] = @ + 1]
  /\ Put([to |-> Server, from |-> c, data |-> <<c, asked[c] + 1>>])
  /\ at' = [at EXCEPT ![c] = "recvfrom"]
  /\ UNCHANGED <<rigid, counts, refused, printed, serverVars>>

\* End of the input.
ClientEnds(c) ==
  /\ at[c] = "fgets" /\ asked[c] = MaxLines
  /\ at' = [at EXCEPT ![c] = "done"]
  /\ CloseSocket(c)
  /\ UNCHANGED <<rigid, counts, asked, printed, serverVars>>

\* err_quit("sendto error"), err_quit("recvfrom error"), or an exception.
ClientFails(c) ==
  /\ at[c] \in {"fgets", "recvfrom"}
  /\ at' = [at EXCEPT ![c] = "quit"]
  /\ CloseSocket(c)
  /\ UNCHANGED <<rigid, counts, asked, printed, serverVars>>

\* The datagrams a socket takes: a connected one only those of the server.
Accepted(c) ==
  {p \in Packets : p.to = c /\ (kind[c] = "connected" => p.from = Server)}

\* Defect: the client waits for one answer more.
ClientReceives_again(c) ==
  /\ at[c] = "recvfrom" /\ c \notin refused
  /\ \E p \in Accepted(c) :
       /\ Take(p)
       /\ printed' = [printed EXCEPT ![c] = Append(@, p.data)]
  /\ UNCHANGED <<rigid, counts, refused, asked, at, serverVars>>

\* recvfrom() or recv() takes any datagram that the socket accepts, and it is
\* printed.
ClientReceives(c) ==
  /\ at[c] = "recvfrom" /\ c \notin refused
  /\ \E p \in Accepted(c) :
       /\ Take(p)
       /\ printed' = [printed EXCEPT ![c] = Append(@, p.data)]
  /\ at' = [at EXCEPT ![c] = "fgets"]
  /\ UNCHANGED <<rigid, counts, refused, asked, serverVars>>

\* send() or recv() reports that nobody listens at the server's port, and the
\* client ends: err_quit(), or an exception that nothing catches.
ClientRefused(c) ==
  /\ c \in refused
  /\ \/ at[c] = "recvfrom"
     \/ at[c] = "fgets" /\ asked[c] < MaxLines
  /\ at' = [at EXCEPT ![c] = "quit"]
  /\ CloseSocket(c)
  /\ UNCHANGED <<rigid, counts, asked, printed, serverVars>>

Client(c) == ClientSends(c) \/ ClientEnds(c) \/ ClientReceives(c) \/ ClientRefused(c)

----------------------------------------------------------------------------
(* dg_echo() *)

\* Defect: the address of the client is kept from the first datagram on.
ServerReceives_first ==
  /\ server = "recvfrom"
  /\ \E p \in Packets :
       /\ p.to = Server
       /\ Take(p)
       /\ mesg' = p.data
       /\ cliaddr' = IF cliaddr = Stranger THEN p.from ELSE cliaddr
  /\ server' = "sendto"
  /\ UNCHANGED <<rigid, counts, refused, clientVars>>

ServerReceives ==
  /\ server = "recvfrom"
  /\ \E p \in Packets :
       /\ p.to = Server
       /\ Take(p)
       /\ mesg' = p.data
       /\ cliaddr' = p.from
  /\ server' = "sendto"
  /\ UNCHANGED <<rigid, counts, refused, clientVars>>

\* Defect: no answer to the address the last one went to.
ServerSends_skips ==
  /\ server = "sendto"
  /\ server' = "recvfrom"
  /\ UNCHANGED <<netVars, clientVars, mesg, cliaddr>>

ServerSends ==
  /\ server = "sendto"
  /\ IF cliaddr = Stranger \/ Gone(cliaddr) THEN UNCHANGED net
     ELSE Put([to |-> cliaddr, from |-> Server, data |-> mesg])
  /\ server' = "recvfrom"
  /\ UNCHANGED <<rigid, counts, refused, clientVars, mesg, cliaddr>>

\* err_quit("recvfrom error"), err_quit("sendto error"), or an exception: what
\* waits in the socket is lost, and so is the process's memory.
ServerQuits ==
  /\ server # "quit"
  /\ server' = "quit"
  /\ \E waiting \in SUBSET {p \in Packets : p.to = Server /\ net[p] > 0} :
       net' = [p \in Packets |-> IF p \in waiting THEN 0 ELSE net[p]]
  /\ mesg' = Noise /\ cliaddr' = Stranger
  /\ UNCHANGED <<rigid, counts, refused, clientVars>>

Echo == ServerReceives \/ ServerSends

----------------------------------------------------------------------------
(* The network; the order in which datagrams are taken is any. *)

Lose ==
  /\ lossy
  /\ \E p \in Packets : Take(p)
  /\ UNCHANGED <<rigid, counts, refused, clientVars, serverVars>>

Duplicate ==
  /\ dups < MaxDups
  /\ \E p \in Packets : net[p] > 0 /\ Put(p)
  /\ dups' = dups + 1
  /\ UNCHANGED <<rigid, strange, refused, clientVars, serverVars>>

\* Another program sends a datagram, to a client or to the server.
Strange ==
  /\ strange < MaxStrange
  /\ \E p \in Packets :
       /\ p.from = Stranger
       /\ p.to \in Clients => ~Gone(p.to)
       /\ Put(p)
  /\ strange' = strange + 1
  /\ UNCHANGED <<rigid, dups, refused, clientVars, serverVars>>

\* What comes for a server that has ended is refused; the sender is told if
\* its socket is connected.
Bounce ==
  /\ server = "quit"
  /\ \E p \in Packets :
       /\ p.to = Server
       /\ Take(p)
       /\ refused' = refused \cup {c \in Clients \cap {p.from} :
                                    kind[c] = "connected" /\ ~Gone(c)}
  /\ UNCHANGED <<rigid, counts, clientVars, serverVars>>

----------------------------------------------------------------------------
Next ==
  \/ Echo \/ ServerQuits
  \/ Lose \/ Duplicate \/ Strange \/ Bounce
  \/ \E c \in Clients : Client(c) \/ ClientFails(c)

Spec == Init /\ [][Next]_vars

(* Programs run when they can, and the kernel refuses what nobody takes;    *)
(* no system call has to fail.                                             *)
FairSpec ==
  /\ Spec
  /\ WF_vars(Bounce)
  /\ WF_vars(Echo)
  /\ \A c \in Clients : WF_vars(Client(c))

----------------------------------------------------------------------------
(* What must hold. *)

\* Each client prints answers to its own lines, none before it has sent the
\* line, and as many answers too late as the network has duplicated datagrams
\* and, on a plain socket, as other programs have sent: without either the
\* k-th answer belongs to the k-th line, whatever has been lost or reordered
\* and although the server has a single address.
InStep ==
  \A c \in Clients :
    LET own == {k \in DOMAIN printed[c] : printed[c][k] # Noise}
    IN  /\ \A k \in own : printed[c][k] \in {c} \X (1 .. k)
        /\ Cardinality({printed[c][k] : k \in own}) + dups >= Cardinality(own)
        /\ kind[c] = "connected" => own = DOMAIN printed[c]

\* Without loss every client ends, unless the server has given up; and one
\* with a connected socket ends even then, if it has a line still to send.
\* A plain one waits for ever: dg_cli() has no time limit.
EveryClientEnds ==
  /\ ~lossy ~> (server = "quit" \/ \A c \in Clients : Gone(c))
  /\ \A c \in Clients :
       (kind[c] = "connected" /\ ~lossy /\ server = "quit" /\ at[c] = "fgets")
         ~> Gone(c)
============================================================================
