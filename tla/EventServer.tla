---------------------------- MODULE EventServer ----------------------------
(***************************************************************************)
(* What the two event-driven echo servers have in common: one process, a   *)
(* table client[] of connections, and a loop that serves one entry of it   *)
(* at a time.  TcpServSelect and TcpServPoll say what each of them does.    *)
(***************************************************************************)
EXTENDS EchoClients, FiniteSetsExt

CONSTANTS
  listenfd,   \* the descriptor of the listening socket
  None        \* no client

ASSUME EventServerAssumption ==
  /\ listenfd \in Nat
  /\ None \notin Peers

VARIABLES
  conn,     \* the client at the other end of each connected descriptor
  client,   \* client[]: a descriptor, or -1
  maxi, nready, i, sockfd, buf,
  pc        \* the next system call, or "stopped"

\* recv() is called only on a descriptor with something to report: one client
\* that is silent never blocks the server in recv().  For the poll server that
\* hangs on the early exits of its loop: the entry of a connection just
\* accepted may never have been given to poll(), and its revents is whatever
\* was on the stack, but nready counts the reported entries, all of them come
\* before it, and the loop ends at the last.
RecvNeverBlocks ==
  pc = "recv" => conn[sockfd] # None /\ RecvResult(conn[sockfd]) # "blocks"

(* The service both implement. *)
Echo == INSTANCE EchoService WITH
  Bytes   <- Bytes,
  link    <- [p \in Peers |-> LinkOf(p, \E f \in DOMAIN conn : conn[f] = p)],
  side    <- [p \in Peers |-> SideOf(p)],
  sent    <- [p \in Peers |-> SentBytes(p)],
  back    <- echoed,
  serving <- pc # "stopped"

EchoSpec == Echo!Spec
============================================================================
