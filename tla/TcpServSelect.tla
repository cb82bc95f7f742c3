--------------------------- MODULE TcpServSelect ---------------------------
(***************************************************************************)
(* The echo server built on select(): one process, the table client[] of   *)
(* connections, the set allset it is watching, and a loop that serves the  *)
(* descriptors select() reported.                                          *)
(***************************************************************************)
EXTENDS EventServer

CONSTANTS
  SelectFd,   \* descriptor limit of the process
  FD_SETSIZE  \* size of an fd_set and of client[]

(* The usual limit of a process is not above FD_SETSIZE. *)
ASSUME SelectAssumption ==
  /\ SelectFd \in Nat
  /\ FD_SETSIZE \in Nat
  /\ listenfd < SelectFd
  /\ SelectFd <= FD_SETSIZE

SelectSlots == 0 .. (FD_SETSIZE - 1)
SelectConnFds == (listenfd + 1) .. (SelectFd - 1)

VARIABLES
  maxfd,    \* the highest descriptor given to select()
  allset,   \* the descriptors select() is to watch
  rset      \* those it has reported

selectServerVars == <<conn, client, maxi, maxfd, allset, rset, nready, i, sockfd, buf, pc>>
selectVars == <<clientVars, selectServerVars>>

SelectTypeOK ==
  /\ ClientsTypeOK
  /\ conn \in [SelectConnFds -> Peers \cup {None}]
  /\ client \in [SelectSlots -> SelectConnFds \cup {-1}]
  /\ maxi \in SelectSlots \cup {-1}
  /\ maxfd \in listenfd .. (SelectFd - 1)
  /\ allset \subseteq SelectConnFds \cup {listenfd}
  /\ rset \subseteq SelectConnFds \cup {listenfd}
  /\ nready \in 0 .. SelectFd
  /\ i \in 0 .. FD_SETSIZE
  /\ sockfd \in SelectConnFds \cup {-1}
  /\ buf \in Seq(Bytes)
  /\ pc \in {"select", "accept", "scan", "recv", "send", "stopped"}

SelectInit ==
  /\ ClientsInit
  /\ conn = [f \in SelectConnFds |-> None]
  /\ client = [s \in SelectSlots |-> -1]
  /\ maxi = -1
  /\ maxfd = listenfd
  /\ allset = {listenfd}
  /\ rset = {}
  /\ nready = 0
  /\ i = 0
  /\ sockfd = -1
  /\ buf = <<>>
  /\ pc = "select"

----------------------------------------------------------------------------
SelectFreeFds == {f \in SelectConnFds : conn[f] = None}
SelectFreeSlots == {s \in SelectSlots : client[s] = -1}

ReadyFd(f) == IF f = listenfd THEN queue # <<>> ELSE conn[f] # None /\ Readable(conn[f])

\* "if (--nready <= 0)": leave the loop, or go on with the next entry.
SelectHandled(next) ==
  /\ nready' = nready - 1
  /\ IF nready - 1 <= 0
     THEN pc' = "select" /\ i' = i
     ELSE pc' = "scan" /\ i' = next

\* err_quit(), or the default action of SIGPIPE.
SelectExit ==
  /\ pc' = "stopped"
  /\ UNCHANGED <<conn, client, maxi, maxfd, allset, rset, nready, i, sockfd, buf>>

\* Defect: select(maxfd, ...).
Select_short ==
  /\ pc = "select"
  /\ LET ready == {f \in allset : f < maxfd /\ ReadyFd(f)}
     IN  /\ ready # {}
         /\ rset' = ready
         /\ nready' = Cardinality(ready)
         /\ pc' = IF listenfd \in ready THEN "accept" ELSE "scan"
  /\ i' = 0
  /\ UNCHANGED <<clientVars, conn, client, maxi, maxfd, allset, sockfd, buf>>

\* select() blocks until a descriptor of allset up to maxfd is ready.
Select ==
  /\ pc = "select"
  /\ LET ready == {f \in allset : f <= maxfd /\ ReadyFd(f)}
     IN  /\ ready # {}
         /\ rset' = ready
         /\ nready' = Cardinality(ready)
         /\ pc' = IF listenfd \in ready THEN "accept" ELSE "scan"
  /\ i' = 0
  /\ UNCHANGED <<clientVars, conn, client, maxi, maxfd, allset, sockfd, buf>>

\* Defect: maxi follows the last entry used, also downwards.
SelectRegister_shrinks(connfd, slot) ==
  /\ client' = [client EXCEPT ![slot] = connfd]
  /\ allset' = allset \cup {connfd}
  /\ maxfd' = IF connfd > maxfd THEN connfd ELSE maxfd
  /\ maxi' = slot

SelectRegister(connfd, slot) ==
  /\ client' = [client EXCEPT ![slot] = connfd]
  /\ allset' = allset \cup {connfd}
  /\ maxfd' = IF connfd > maxfd THEN connfd ELSE maxfd
  /\ maxi' = IF slot > maxi THEN slot ELSE maxi

\* A new connection goes into the first free entry.
SelectAccept ==
  /\ pc = "accept"
  /\ queue # <<>>
  /\ SelectFreeFds # {} /\ SelectFreeSlots # {}
  /\ conn' = [conn EXCEPT ![Min(SelectFreeFds)] = Head(queue)]
  /\ queue' = Tail(queue)
  /\ SelectRegister(Min(SelectFreeFds), Min(SelectFreeSlots))
  /\ SelectHandled(0)
  /\ UNCHANGED <<rset, sockfd, buf, phase, nsent, inq, echoed, unread, fin, dead, err>>

\* "accept error", for which a full descriptor table is one reason of many, or
\* "too many clients": the process ends.
SelectAcceptFails ==
  /\ pc = "accept"
  /\ SelectExit
  /\ UNCHANGED clientVars

\* The loop over client[0..maxi], up to the next reported descriptor.
SelectScan ==
  /\ pc = "scan"
  /\ LET reported == {s \in SelectSlots : i <= s /\ s <= maxi /\ client[s] \in rset}
     IN  IF reported = {}
         THEN pc' = "select" /\ UNCHANGED <<i, sockfd>>
         ELSE /\ i' = Min(reported)
              /\ sockfd' = client[Min(reported)]
              /\ pc' = "recv"
  /\ UNCHANGED <<clientVars, conn, client, maxi, maxfd, allset, rset, nready, buf>>

SelectRecvData ==
  /\ pc = "recv"
  /\ conn[sockfd] # None
  /\ RecvResult(conn[sockfd]) = "data"
  /\ RecvTakes(conn[sockfd])
  /\ buf' = Received(conn[sockfd])
  /\ pc' = "send"
  /\ UNCHANGED <<conn, client, maxi, maxfd, allset, rset, nready, i, sockfd>>

\* Defect: an ended connection is not counted in nready.
SelectRecvEnds_uncounted ==
  /\ pc = "recv"
  /\ conn[sockfd] # None
  /\ \/ RecvResult(conn[sockfd]) = "eof" /\ UNCHANGED clientVars
     \/ RecvResult(conn[sockfd]) = "ECONNRESET" /\ ErrorReported(conn[sockfd])
  /\ conn' = [conn EXCEPT ![sockfd] = None]
  /\ allset' = allset \ {sockfd}
  /\ client' = [client EXCEPT ![i] = -1]
  /\ pc' = "scan" /\ i' = i + 1
  /\ UNCHANGED <<nready, maxi, maxfd, rset, sockfd, buf>>

\* End of stream or ECONNRESET: the entry and the descriptor are given up.
SelectRecvEnds ==
  /\ pc = "recv"
  /\ conn[sockfd] # None
  /\ \/ RecvResult(conn[sockfd]) = "eof" /\ UNCHANGED clientVars
     \/ RecvResult(conn[sockfd]) = "ECONNRESET" /\ ErrorReported(conn[sockfd])
  /\ conn' = [conn EXCEPT ![sockfd] = None]
  /\ allset' = allset \ {sockfd}
  /\ client' = [client EXCEPT ![i] = -1]
  /\ SelectHandled(i + 1)
  /\ UNCHANGED <<maxi, maxfd, rset, sockfd, buf>>

\* Any other error ends the process.
SelectRecvFails ==
  /\ pc = "recv"
  /\ conn[sockfd] # None
  /\ RecvResult(conn[sockfd]) = "ETIMEDOUT"
  /\ SelectExit
  /\ UNCHANGED clientVars

\* Defect: ptr is not advanced after a short write.
SelectSend_repeats ==
  /\ pc = "send"
  /\ SendResult(conn[sockfd]) = "sent"
  /\ \E n \in 1 .. Len(buf) :
       /\ SendTakes(conn[sockfd], buf, n)
       /\ buf' = SubSeq(buf, 1, Len(buf) - n)
  /\ IF buf' = <<>> THEN SelectHandled(i + 1) ELSE UNCHANGED <<nready, i, pc>>
  /\ UNCHANGED <<conn, client, maxi, maxfd, allset, rset, sockfd>>

\* send_all(): one call of send(), which blocks while there is no room.
SelectSend ==
  /\ pc = "send"
  /\ SendResult(conn[sockfd]) = "sent"
  /\ \E n \in 1 .. Len(buf) :
       /\ SendTakes(conn[sockfd], buf, n)
       /\ buf' = SubSeq(buf, n + 1, Len(buf))
  /\ IF buf' = <<>> THEN SelectHandled(i + 1) ELSE UNCHANGED <<nready, i, pc>>
  /\ UNCHANGED <<conn, client, maxi, maxfd, allset, rset, sockfd>>

\* send_all() returns -1, which the server does not look at.
SelectSendFails ==
  /\ pc = "send"
  /\ SendResult(conn[sockfd]) = "error"
  /\ ErrorReported(conn[sockfd])
  /\ buf' = <<>>
  /\ SelectHandled(i + 1)
  /\ UNCHANGED <<conn, client, maxi, maxfd, allset, rset, sockfd>>

SelectSendKills ==
  /\ pc = "send"
  /\ SendResult(conn[sockfd]) = "SIGPIPE"
  /\ SelectExit
  /\ UNCHANGED clientVars

----------------------------------------------------------------------------
SelectServer ==
  \/ Select \/ SelectAccept \/ SelectAcceptFails \/ SelectScan
  \/ SelectRecvData \/ SelectRecvEnds \/ SelectRecvFails
  \/ SelectSend \/ SelectSendFails \/ SelectSendKills

SelectClientMoves == UNCHANGED selectServerVars /\ \E p \in Peers : ClientStep(p)

SelectNext == SelectServer \/ SelectClientMoves

SelectSpec == SelectInit /\ [][SelectNext]_selectVars

(* The process runs when it can; clients read what they are sent, and the  *)
(* host of one that has closed answers with a reset.                       *)
FairSpec ==
  /\ SelectSpec
  /\ WF_selectVars(SelectServer)
  /\ \A p \in Peers : WF_selectVars(UNCHANGED selectServerVars /\ (ClientReads(p) \/ ResetArrives(p)))

----------------------------------------------------------------------------
(* What must hold. *)

\* The books of the server agree whenever it waits: client[] and allset list
\* exactly the open connections, each once; select() is given no closed
\* descriptor; and neither the loop (maxi) nor select() (maxfd) leaves one out.
SelectBookkeepingAgrees ==
  /\ allset \ {listenfd} = {f \in SelectConnFds : conn[f] # None}
  /\ {client[s] : s \in SelectSlots} \ {-1} = allset \ {listenfd}
  /\ \A s, t \in SelectSlots : client[s] = client[t] /\ client[s] # -1 => s = t
  /\ \A s \in SelectSlots : client[s] # -1 => s <= maxi
  /\ \A f \in allset : f <= maxfd

Unhandled ==
  {s \in SelectSlots : client[s] \in rset /\ (IF pc = "scan" THEN i <= s ELSE i < s)}

\* nready counts exactly the reported descriptors that are still to be served,
\* so the early exits "--nready <= 0" skip nobody and end no round too late.
SelectReadyCountExact ==
  /\ pc = "scan" => nready = Cardinality(Unhandled) /\ nready > 0
  /\ pc \in {"recv", "send"} => nready = Cardinality(Unhandled) + 1
  /\ pc = "accept" => nready = Cardinality(rset)

\* A client that has sent something, or has ended, is served, and one in the
\* queue is accepted, unless the process ends: none is starved by the others.
EveryClientServed ==
  \A p \in Peers :
    /\ Queued(p) ~> (pc = "stopped" \/ \E f \in SelectConnFds : conn[f] = p)
    /\ ((\E f \in SelectConnFds : conn[f] = p) /\ Readable(p))
         ~> (pc = "stopped" \/ (pc = "recv" /\ conn[sockfd] = p))
============================================================================
