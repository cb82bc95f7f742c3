---------------------------- MODULE TcpServPoll ----------------------------
(***************************************************************************)
(* The echo server built on poll(): one array of entries, entry 0 for the  *)
(* listening socket, whose revents say what poll() reported.  The array is *)
(* a local variable that main() initialises only in part, and poll() is    *)
(* given only its first maxi+1 entries.                                    *)
(***************************************************************************)
EXTENDS EventServer

CONSTANTS
  PollFd,     \* descriptor limit of the process
  OPEN_MAX    \* size of client[]

ASSUME PollAssumption ==
  /\ PollFd \in Nat
  /\ listenfd < PollFd
  /\ OPEN_MAX \in Nat \ {0}

PollSlots == 1 .. (OPEN_MAX - 1)
PollConnFds == (listenfd + 1) .. (PollFd - 1)

VARIABLE revents  \* client[].revents & (POLLRDNORM | POLLERR)

pollServerVars == <<conn, client, revents, maxi, nready, i, sockfd, buf, pc>>
pollVars == <<clientVars, pollServerVars>>

PollTypeOK ==
  /\ ClientsTypeOK
  /\ conn \in [PollConnFds -> Peers \cup {None}]
  /\ client \in [PollSlots -> PollConnFds \cup {-1}]
  /\ revents \in [PollSlots \cup {0} -> BOOLEAN]
  /\ maxi \in 0 .. (OPEN_MAX - 1)
  /\ nready \in 0 .. OPEN_MAX
  /\ i \in 0 .. OPEN_MAX
  /\ sockfd \in PollConnFds \cup {-1}
  /\ buf \in Seq(Bytes)
  /\ pc \in {"poll", "accept", "scan", "recv", "send", "stopped"}

\* Only fd is set for the entries from 1 on: their revents is what the stack holds.
PollInit ==
  /\ ClientsInit
  /\ conn = [f \in PollConnFds |-> None]
  /\ client = [s \in PollSlots |-> -1]
  /\ revents \in [PollSlots \cup {0} -> BOOLEAN]
  /\ maxi = 0
  /\ nready = 0
  /\ i = 0
  /\ sockfd = -1
  /\ buf = <<>>
  /\ pc = "poll"

----------------------------------------------------------------------------
PollFreeFds == {f \in PollConnFds : conn[f] = None}
PollFreeSlots == {s \in PollSlots : client[s] = -1}

ReadySlot(s) ==
  IF s = 0 THEN queue # <<>>
  ELSE client[s] # -1 /\ conn[client[s]] # None /\ Readable(conn[client[s]])

\* "if (--nready <= 0)": leave the loop, or go on with the next entry.
PollHandled(next) ==
  /\ nready' = nready - 1
  /\ IF nready - 1 <= 0
     THEN pc' = "poll" /\ i' = i
     ELSE pc' = "scan" /\ i' = next

\* err_quit(), or the default action of SIGPIPE.
PollExit ==
  /\ pc' = "stopped"
  /\ UNCHANGED <<conn, client, revents, maxi, nready, i, sockfd, buf>>

\* poll() fills revents of the entries it is given, those with fd -1 with 0.
Poll ==
  /\ pc = "poll"
  /\ LET ready == {s \in 0 .. maxi : ReadySlot(s)}
     IN  /\ ready # {}
         /\ revents' = [s \in DOMAIN revents |-> IF s <= maxi THEN s \in ready ELSE revents[s]]
         /\ nready' = Cardinality(ready)
         /\ pc' = IF 0 \in ready THEN "accept" ELSE "scan"
  /\ i' = 1
  /\ UNCHANGED <<clientVars, conn, client, maxi, sockfd, buf>>

\* fd and events are set, revents is not.
PollRegister(connfd, slot) ==
  /\ client' = [client EXCEPT ![slot] = connfd]
  /\ maxi' = IF slot > maxi THEN slot ELSE maxi

\* Defect: "too many clients" is not looked for, and i is OPEN_MAX.
PollAccept_unchecked ==
  /\ pc = "accept"
  /\ queue # <<>>
  /\ PollFreeFds # {}
  /\ LET slot == IF PollFreeSlots = {} THEN OPEN_MAX ELSE Min(PollFreeSlots)
     IN  /\ client' = [s \in PollSlots |-> IF s = slot THEN Min(PollFreeFds) ELSE client[s]]
         /\ maxi' = IF slot > maxi THEN slot ELSE maxi
  /\ conn' = [conn EXCEPT ![Min(PollFreeFds)] = Head(queue)]
  /\ queue' = Tail(queue)
  /\ PollHandled(1)
  /\ UNCHANGED <<revents, sockfd, buf, phase, nsent, inq, echoed, unread, fin, dead, err>>

\* A new connection goes into the first free entry.
PollAccept ==
  /\ pc = "accept"
  /\ queue # <<>>
  /\ PollFreeFds # {} /\ PollFreeSlots # {}
  /\ conn' = [conn EXCEPT ![Min(PollFreeFds)] = Head(queue)]
  /\ queue' = Tail(queue)
  /\ PollRegister(Min(PollFreeFds), Min(PollFreeSlots))
  /\ PollHandled(1)
  /\ UNCHANGED <<revents, sockfd, buf, phase, nsent, inq, echoed, unread, fin, dead, err>>

\* "accept error", for which a full descriptor table is one reason of many, or
\* "too many clients": the process ends.
PollAcceptFails ==
  /\ pc = "accept"
  /\ PollExit
  /\ UNCHANGED clientVars

\* The loop over client[1..maxi], up to the next entry with revents set.
PollScan ==
  /\ pc = "scan"
  /\ LET reported == {s \in PollSlots : i <= s /\ s <= maxi /\ client[s] # -1 /\ revents[s]}
     IN  IF reported = {}
         THEN pc' = "poll" /\ UNCHANGED <<i, sockfd>>
         ELSE /\ i' = Min(reported)
              /\ sockfd' = client[Min(reported)]
              /\ pc' = "recv"
  /\ UNCHANGED <<clientVars, conn, client, revents, maxi, nready, buf>>

PollRecvData ==
  /\ pc = "recv"
  /\ conn[sockfd] # None
  /\ RecvResult(conn[sockfd]) = "data"
  /\ RecvTakes(conn[sockfd])
  /\ buf' = Received(conn[sockfd])
  /\ pc' = "send"
  /\ UNCHANGED <<conn, client, revents, maxi, nready, i, sockfd>>

\* Defect: an ended connection is not counted in nready.
PollRecvEnds_uncounted ==
  /\ pc = "recv"
  /\ conn[sockfd] # None
  /\ \/ RecvResult(conn[sockfd]) = "eof" /\ UNCHANGED clientVars
     \/ RecvResult(conn[sockfd]) = "ECONNRESET" /\ ErrorReported(conn[sockfd])
  /\ conn' = [conn EXCEPT ![sockfd] = None]
  /\ client' = [client EXCEPT ![i] = -1]
  /\ pc' = "scan" /\ i' = i + 1
  /\ UNCHANGED <<nready, revents, maxi, sockfd, buf>>

\* End of stream or ECONNRESET: the entry and the descriptor are given up.
PollRecvEnds ==
  /\ pc = "recv"
  /\ conn[sockfd] # None
  /\ \/ RecvResult(conn[sockfd]) = "eof" /\ UNCHANGED clientVars
     \/ RecvResult(conn[sockfd]) = "ECONNRESET" /\ ErrorReported(conn[sockfd])
  /\ conn' = [conn EXCEPT ![sockfd] = None]
  /\ client' = [client EXCEPT ![i] = -1]
  /\ PollHandled(i + 1)
  /\ UNCHANGED <<revents, maxi, sockfd, buf>>

\* Any other error ends the process.
PollRecvFails ==
  /\ pc = "recv"
  /\ conn[sockfd] # None
  /\ RecvResult(conn[sockfd]) = "ETIMEDOUT"
  /\ PollExit
  /\ UNCHANGED clientVars

\* Defect: the echo goes to the last entry in use instead of sockfd.
PollSend_toLast ==
  /\ pc = "send"
  /\ LET to == IF client[maxi] = -1 THEN sockfd ELSE client[maxi]
     IN  /\ SendResult(conn[to]) = "sent"
         /\ \E n \in 1 .. Len(buf) :
              /\ SendTakes(conn[to], buf, n)
              /\ buf' = SubSeq(buf, n + 1, Len(buf))
  /\ IF buf' = <<>> THEN PollHandled(i + 1) ELSE UNCHANGED <<nready, i, pc>>
  /\ UNCHANGED <<conn, client, revents, maxi, sockfd>>

\* send_all(): one call of send(), which blocks while there is no room.
PollSend ==
  /\ pc = "send"
  /\ SendResult(conn[sockfd]) = "sent"
  /\ \E n \in 1 .. Len(buf) :
       /\ SendTakes(conn[sockfd], buf, n)
       /\ buf' = SubSeq(buf, n + 1, Len(buf))
  /\ IF buf' = <<>> THEN PollHandled(i + 1) ELSE UNCHANGED <<nready, i, pc>>
  /\ UNCHANGED <<conn, client, revents, maxi, sockfd>>

\* send_all() returns -1, which the server does not look at.
PollSendFails ==
  /\ pc = "send"
  /\ SendResult(conn[sockfd]) = "error"
  /\ ErrorReported(conn[sockfd])
  /\ buf' = <<>>
  /\ PollHandled(i + 1)
  /\ UNCHANGED <<conn, client, revents, maxi, sockfd>>

PollSendKills ==
  /\ pc = "send"
  /\ SendResult(conn[sockfd]) = "SIGPIPE"
  /\ PollExit
  /\ UNCHANGED clientVars

----------------------------------------------------------------------------
PollServer ==
  \/ Poll \/ PollAccept \/ PollAcceptFails \/ PollScan
  \/ PollRecvData \/ PollRecvEnds \/ PollRecvFails
  \/ PollSend \/ PollSendFails \/ PollSendKills

PollClientMoves == UNCHANGED pollServerVars /\ \E p \in Peers : ClientStep(p)

PollNext == PollServer \/ PollClientMoves

PollSpec == PollInit /\ [][PollNext]_pollVars

----------------------------------------------------------------------------
(* What must hold. *)

\* client[] lists exactly the open connections, each once, and poll() and the
\* loop see every entry in use.
PollBookkeepingAgrees ==
  /\ {client[s] : s \in PollSlots} \ {-1} = {f \in PollConnFds : conn[f] # None}
  /\ \A s, t \in PollSlots : client[s] = client[t] /\ client[s] # -1 => s = t
  /\ \A s \in PollSlots : client[s] # -1 => s <= maxi
============================================================================
