---------------------------- MODULE EventServers ----------------------------
(***************************************************************************)
(* The two event-driven servers owe their clients the same: a behaviour of *)
(* this module is one of TcpServSelect or of TcpServPoll, over the same    *)
(* clients, and what must hold is stated once for both.                    *)
(***************************************************************************)
EXTENDS TcpServSelect, TcpServPoll

VARIABLE server   \* "select" or "poll"

eventVars == <<server, clientVars, conn, client, maxi, nready, i, sockfd, buf, pc,
               maxfd, allset, rset, revents>>

EventInit ==
  \/ /\ server = "poll"
     /\ PollInit
     /\ maxfd = 0 /\ allset = {} /\ rset = {}
  \/ /\ server = "select"
     /\ SelectInit
     /\ revents = [s \in {} |-> FALSE]

EventNext ==
  \/ server = "poll" /\ PollNext /\ UNCHANGED <<server, maxfd, allset, rset>>
  \/ server = "select" /\ SelectNext /\ UNCHANGED <<server, revents>>

EventSpec == EventInit /\ [][EventNext]_eventVars

----------------------------------------------------------------------------
\* The types of the server's state: no index leaves client[], and no descriptor
\* of the select server reaches FD_SETSIZE.
TypeOK ==
  /\ server \in {"poll", "select"}
  /\ server = "poll" => PollTypeOK
  /\ server = "select" => SelectTypeOK

\* The tables list exactly the open connections, each once, and neither the
\* loop nor the system call leaves one out.
BookkeepingAgrees ==
  /\ server = "poll" => PollBookkeepingAgrees
  /\ server = "select" => SelectBookkeepingAgrees

\* The early exits of the select server skip nobody and end no round late.
ReadyCountExact == server = "select" => SelectReadyCountExact
=============================================================================
