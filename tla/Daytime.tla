------------------------------ MODULE Daytime ------------------------------
(***************************************************************************)
(* The daytime programs.  Over TCP an iterative server accepts, reads the  *)
(* clock, sends the line and closes, and a client reads to the end of the  *)
(* connection; over UDP a server with one buffer and one address answers   *)
(* each datagram, and a client sends one byte and waits for one answer.    *)
(* Clients that do not follow the programs reset their connections; test   *)
(* scripts and users kill client and server.                               *)
(***************************************************************************)
EXTENDS Naturals, Sequences, FiniteSets, SequencesExt

CONSTANTS
  Clients,
  LineLen,   \* the pieces of a line that a recv() can split it into
  MaxTime,   \* bound on the clock
  MaxDups    \* bound on the datagrams that the network duplicates

ASSUME DaytimeAssumption ==
  /\ Clients # {}
  /\ LineLen \in Nat \ {0} /\ MaxTime \in Nat \ {0} /\ MaxDups \in Nat

VARIABLES
  transport, \* "tcp", "udp", or "udp_connect": clients that connect their socket
  now,
  asked,     \* when each client's request was complete, 0 before that
  printed,   \* what each client has printed
  at,        \* where each client is
  queue,     \* TCP: connections that the server has not accepted
  inq,       \* TCP: what has been sent to each client
  link,      \* TCP: "none", "open", "fin", "reset" (to the client), "broken" (by it)
  requests,  \* UDP: requests on their way to the server or in its socket
  answers,   \* UDP: lines on their way to each client
  dups, lossy,
  server,    \* where the server is
  peer,      \* connfd, or cliaddr
  buff       \* the time in the server's buffer, 0 for none

tcpVars == <<queue, inq, link>>
udpVars == <<requests, answers, dups>>
clientVars == <<asked, printed, at>>
serverVars == <<server, peer, buff>>
rigid == <<transport, lossy>>
vars == <<rigid, now, tcpVars, udpVars, clientVars, serverVars>>

Line(t) == [k \in 1 .. LineLen |-> <<t, k>>]
Gone == {"done", "quit", "wild", "killed"}
Over(how) == transport \in IF how = "udp" THEN {"udp", "udp_connect"} ELSE {"tcp"}

TypeOK ==
  /\ transport \in {"tcp", "udp", "udp_connect"}
  /\ now \in 1 .. MaxTime
  /\ asked \in [Clients -> 0 .. MaxTime]
  /\ \A c \in Clients : \E t \in 1 .. MaxTime :
       IsPrefix(printed[c] \o inq[c], Line(t))
  /\ at \in [Clients -> {"start", "recv"} \cup Gone]
  /\ queue \in Seq(Clients) /\ IsInjective(queue)
  /\ link \in [Clients -> {"none", "open", "fin", "reset", "broken"}]
  /\ requests \in [Clients -> 0 .. 1 + MaxDups]
  /\ answers \in [Clients -> SUBSET (1 .. MaxTime)]
  /\ dups \in 0 .. MaxDups
  /\ server \in {"wait", "time", "send", "ended"}
  /\ peer \in Clients
  /\ buff \in 0 .. MaxTime
  /\ server = "send" => buff # 0

Init ==
  /\ transport \in {"tcp", "udp", "udp_connect"}
  /\ lossy \in IF Over("udp") THEN BOOLEAN ELSE {FALSE}
  /\ now = 1
  /\ asked = [c \in Clients |-> 0]
  /\ printed = [c \in Clients |-> <<>>]
  /\ at = [c \in Clients |-> "start"]
  /\ queue = <<>>
  /\ inq = [c \in Clients |-> <<>>]
  /\ link = [c \in Clients |-> "none"]
  /\ requests = [c \in Clients |-> 0]
  /\ answers = [c \in Clients |-> {}]
  /\ dups = 0
  /\ server = "wait"
  /\ peer = CHOOSE c \in Clients : TRUE   \* uninitialised, and not used
  /\ buff = 0

----------------------------------------------------------------------------
(* The server *)

\* Defect: the connection stays in the queue.
Accept_again ==
  /\ Over("tcp") /\ server = "wait" /\ queue # <<>>
  /\ peer' = Head(queue)
  /\ server' = "time"
  /\ UNCHANGED <<rigid, now, tcpVars, udpVars, clientVars, buff>>

\* accept() returns the oldest connection, whatever has become of it.
Accept ==
  /\ Over("tcp") /\ server = "wait" /\ queue # <<>>
  /\ peer' = Head(queue)
  /\ queue' = Tail(queue)
  /\ server' = "time"
  /\ UNCHANGED <<rigid, now, inq, link, udpVars, clientVars, buff>>

\* recvfrom() overwrites buff with the request.
RecvFrom ==
  /\ Over("udp") /\ server = "wait"
  /\ \E c \in Clients :
       /\ requests[c] > 0
       /\ requests' = [requests EXCEPT ![c] = @ - 1]
       /\ peer' = c
  /\ buff' = 0
  /\ server' = "time"
  /\ UNCHANGED <<rigid, now, tcpVars, answers, dups, clientVars>>

\* Defect: the clock is read once, before the loop.
Clock_once == IF buff # 0 THEN buff ELSE now

Clock == now

\* time(), ctime() and snprintf()
ReadsClock ==
  /\ server = "time"
  /\ buff' = Clock
  /\ server' = "send"
  /\ UNCHANGED <<rigid, now, tcpVars, udpVars, clientVars, peer>>

\* Defect: the connection stays open.
Closed_not(l) == l

\* What closing its end makes of a connection for the client.
Closed(l) == IF l = "open" THEN "fin" ELSE l

\* A line always fits into the buffer of a fresh connection, and the socket
\* is closed: by close(), or as the shared_ptr goes out of scope.
Sends ==
  /\ Over("tcp") /\ server = "send"
  /\ link[peer] # "broken"
  /\ inq' = [inq EXCEPT ![peer] = @ \o Line(buff)]
  /\ link' = [link EXCEPT ![peer] = Closed(@)]
  /\ server' = "wait"
  /\ UNCHANGED <<rigid, now, queue, udpVars, clientVars, peer, buff>>

\* sendto() to the address of the last request.  The port of a client that
\* has ended belongs to nobody.
SendsTo ==
  /\ Over("udp") /\ server = "send"
  /\ answers' = [answers EXCEPT ![peer] = IF at[peer] \in Gone THEN @ ELSE @ \cup {buff}]
  /\ server' = "wait"
  /\ UNCHANGED <<rigid, now, tcpVars, requests, dups, clientVars, peer, buff>>

\* With the process its sockets are closed: the connection it serves ends,
\* those in the queue are reset, and requests are thrown away that have come.
Ends ==
  /\ server' = "ended"
  /\ link' = [c \in Clients |->
                IF link[c] # "open" THEN link[c]
                ELSE IF Contains(queue, c) THEN "reset" ELSE "fin"]
  /\ queue' = <<>>
  /\ \E come \in SUBSET {c \in Clients : requests[c] > 0} :
       requests' = [c \in Clients |-> IF c \in come THEN 0 ELSE requests[c]]
  /\ UNCHANGED <<rigid, now, inq, answers, dups, clientVars, peer, buff>>

\* send() meets a connection that its client has reset: err_quit(), SIGPIPE,
\* or an exception that main() does not catch.
SendFails ==
  /\ Over("tcp") /\ server = "send"
  /\ link[peer] = "broken"
  /\ Ends

\* So does accept(), recvfrom() or sendto() that fails, for any reason.
Fails ==
  /\ server = "wait" \/ (Over("udp") /\ server = "send")
  /\ Ends

Killed == server # "ended" /\ Ends

Server == Accept \/ RecvFrom \/ ReadsClock \/ Sends \/ SendFails \/ SendsTo

----------------------------------------------------------------------------
(* Clients *)

\* connect() returns when the connection is in the queue.
Connects(c) ==
  /\ Over("tcp") /\ at[c] = "start" /\ server # "ended"
  /\ queue' = Append(queue, c)
  /\ link' = [link EXCEPT ![c] = "open"]
  /\ asked' = [asked EXCEPT ![c] = now]
  /\ at' = [at EXCEPT ![c] = "recv"]
  /\ UNCHANGED <<rigid, now, inq, udpVars, printed, serverVars>>

\* One byte, "" with its NUL.
SendsRequest(c) ==
  /\ Over("udp") /\ at[c] = "start"
  /\ requests' = [requests EXCEPT ![c] = @ + 1]
  /\ asked' = [asked EXCEPT ![c] = now]
  /\ at' = [at EXCEPT ![c] = "recv"]
  /\ UNCHANGED <<rigid, now, tcpVars, answers, dups, printed, serverVars>>

\* "connect error"
Refused(c) ==
  /\ Over("tcp") /\ at[c] = "start" /\ server = "ended"
  /\ at' = [at EXCEPT ![c] = "quit"]
  /\ UNCHANGED <<rigid, now, tcpVars, udpVars, asked, printed, serverVars>>

\* recv() returns any part of what has come, and it is printed.
Prints(c) ==
  /\ Over("tcp") /\ at[c] = "recv" /\ link[c] # "reset"
  /\ \E n \in 1 .. Len(inq[c]) :
       /\ printed' = [printed EXCEPT ![c] = @ \o SubSeq(inq[c], 1, n)]
       /\ inq' = [inq EXCEPT ![c] = SubSeq(@, n + 1, Len(@))]
  /\ UNCHANGED <<rigid, now, queue, link, udpVars, asked, at, serverVars>>

\* recv() returns 0, or fails; over UDP one answer is enough.
Finishes(c) ==
  /\ at[c] = "recv"
  /\ \/ link[c] = "fin" /\ inq[c] = <<>> /\ at' = [at EXCEPT ![c] = "done"]
     \/ link[c] = "reset" /\ at' = [at EXCEPT ![c] = "quit"]
     \/ Over("udp") /\ printed[c] # <<>> /\ at' = [at EXCEPT ![c] = "done"]
  /\ UNCHANGED <<rigid, now, tcpVars, udpVars, asked, printed, serverVars>>

\* recvfrom() takes the first answer that comes, and it is printed.
Answered(c) ==
  /\ Over("udp") /\ at[c] = "recv" /\ printed[c] = <<>>
  /\ \E t \in answers[c] : printed' = [printed EXCEPT ![c] = Line(t)]
  /\ answers' = [answers EXCEPT ![c] = {}]
  /\ UNCHANGED <<rigid, now, tcpVars, requests, dups, asked, at, serverVars>>

\* A request that comes too late bounces off a closed port, which only a connected socket is
\* told: recv() returns -1, recvline[-1] is written, and what recvline
\* happens to hold is printed.
Bounced(c) ==
  /\ transport = "udp_connect" /\ at[c] = "recv" /\ server = "ended"
  /\ requests[c] > 0 /\ printed[c] = <<>>
  /\ requests' = [requests EXCEPT ![c] = @ - 1]
  /\ at' = [at EXCEPT ![c] = "wild"]
  /\ UNCHANGED <<rigid, now, tcpVars, answers, dups, asked, printed, serverVars>>

\* A killed client's connection ends in good order unless it leaves bytes
\* unread; other programs may reset it at any time.
ClientKilled(c) ==
  /\ at[c] = "recv"
  /\ at' = [at EXCEPT ![c] = "killed"]
  /\ \E l \in {link[c]} \cup IF Over("tcp") THEN {"broken"} ELSE {} :
       link' = [link EXCEPT ![c] = l]
  /\ inq' = [inq EXCEPT ![c] = <<>>]
  /\ answers' = [answers EXCEPT ![c] = {}]
  /\ UNCHANGED <<rigid, now, queue, requests, dups, asked, printed, serverVars>>

Client(c) ==
  \/ Connects(c) \/ SendsRequest(c) \/ Refused(c)
  \/ Prints(c) \/ Finishes(c) \/ Answered(c) \/ Bounced(c)

----------------------------------------------------------------------------
(* The clock and the network *)

Tick ==
  /\ now < MaxTime
  /\ now' = now + 1
  /\ UNCHANGED <<rigid, tcpVars, udpVars, clientVars, serverVars>>

Duplicate ==
  /\ dups < MaxDups
  /\ \E c \in Clients :
       requests[c] > 0 /\ requests' = [requests EXCEPT ![c] = @ + 1]
  /\ dups' = dups + 1
  /\ UNCHANGED <<rigid, now, tcpVars, answers, clientVars, serverVars>>

Lose ==
  /\ lossy
  /\ \E c \in Clients :
       \/ requests[c] > 0 /\ requests' = [requests EXCEPT ![c] = @ - 1] /\ UNCHANGED answers
       \/ \E t \in answers[c] : answers' = [answers EXCEPT ![c] = @ \ {t}] /\ UNCHANGED requests
  /\ UNCHANGED <<rigid, now, tcpVars, dups, clientVars, serverVars>>

----------------------------------------------------------------------------
Next ==
  \/ Server \/ Fails \/ Killed \/ Tick \/ Duplicate \/ Lose
  \/ \E c \in Clients : Client(c) \/ ClientKilled(c)

Spec == Init /\ [][Next]_vars

(* The programs run when they can; nothing forces a failure or a kill. *)
FairSpec ==
  /\ Spec
  /\ WF_vars(Server)
  /\ \A c \in Clients : WF_vars(Client(c))

----------------------------------------------------------------------------
(* What must hold. *)

Fate == [c \in Clients |->
  IF at[c] \in {"start", "recv"} THEN "here" ELSE IF at[c] = "killed" THEN "killed" ELSE "ended"]

Service == INSTANCE DaytimeService
  WITH told <- printed, fate <- Fate, stopped <- server = "ended"

\* No client prints a time older than its request or pieces of two lines, and
\* none ends well with less than a line unless the server has ended, however
\* long a connection has waited in the queue and although the UDP server has
\* one buffer and one address for all.
DaytimeSpec == Service!Spec

\* Every client that has asked ends, one after the other through one server.
\* Only over UDP it waits for ever, for what has been lost or for a server
\* that has ended: no program has a time limit.
EveryClientEnds ==
  \A c \in Clients :
    (at[c] = "recv" /\ ~lossy) ~> (at[c] \in Gone \/ (Over("udp") /\ server = "ended"))
============================================================================
