---------------------------- MODULE EchoClients ----------------------------
(***************************************************************************)
(* The remote clients of an echo server and the kernel's end of their      *)
(* connections, as recv(2), send(2), select(2) and accept(2) of Linux show *)
(* them to the server.  It is shared by the models of the servers.         *)
(***************************************************************************)
EXTENDS Integers, Sequences, FiniteSets

CONSTANTS
  Peers,      \* remote clients: each makes one connection
  MAXLINE,    \* size of the server's buffer
  MaxBytes,   \* bound on the bytes a client sends
  SendSpace   \* bytes the kernel takes for a client that does not read

ASSUME ClientsAssumption ==
  /\ MAXLINE \in Nat \ {0}
  /\ MaxBytes \in Nat
  /\ SendSpace \in Nat \ {0}

VARIABLES
  phase,    \* what the client did last
  nsent,    \* how many bytes it has sent: byte k of client p is <<p, k>>
  inq,      \* bytes the server has not received yet
  echoed,   \* bytes the server's send() calls have put on the connection
  unread,   \* how many of them the client has not read
  fin,      \* the end of the client's stream has arrived
  dead,     \* the connection is gone (reset, or given up by the kernel)
  err,      \* the error the kernel still has to report on it
  queue     \* completed connections that accept() has not returned

clientVars == <<phase, nsent, inq, echoed, unread, fin, dead, err, queue>>

Phases == {"idle", "connected", "halfclosed", "closed", "aborted"}
Errors == {"none", "ECONNRESET", "EPIPE", "ETIMEDOUT"}
Bytes == Peers \X (1 .. MaxBytes)

ClientsTypeOK ==
  /\ phase \in [Peers -> Phases]
  /\ nsent \in [Peers -> 0 .. MaxBytes]
  /\ inq \in [Peers -> Seq(Bytes)]
  /\ echoed \in [Peers -> Seq(Bytes)]
  /\ unread \in [Peers -> 0 .. SendSpace]
  /\ fin \in [Peers -> BOOLEAN]
  /\ dead \in [Peers -> BOOLEAN]
  /\ err \in [Peers -> Errors]
  /\ queue \in Seq(Peers)

ClientsInit ==
  /\ phase = [p \in Peers |-> "idle"]
  /\ nsent = [p \in Peers |-> 0]
  /\ inq = [p \in Peers |-> <<>>]
  /\ echoed = [p \in Peers |-> <<>>]
  /\ unread = [p \in Peers |-> 0]
  /\ fin = [p \in Peers |-> FALSE]
  /\ dead = [p \in Peers |-> FALSE]
  /\ err = [p \in Peers |-> "none"]
  /\ queue = <<>>

SentBytes(p) == [k \in 1 .. nsent[p] |-> <<p, k>>]
Queued(p) == \E k \in 1 .. Len(queue) : queue[k] = p

(* A connection in the terms of EchoService. *)
LinkOf(p, isOpen) ==
  IF isOpen THEN "up" ELSE IF phase[p] = "idle" \/ Queued(p) THEN "none" ELSE "ended"
SideOf(p) ==
  IF phase[p] \in {"idle", "connected"} THEN "open"
  ELSE IF phase[p] = "halfclosed" THEN "half" ELSE "gone"

----------------------------------------------------------------------------
(* The clients. *)

ClientConnects(p) ==
  /\ phase[p] = "idle"
  /\ phase' = [phase EXCEPT ![p] = "connected"]
  /\ queue' = Append(queue, p)
  /\ UNCHANGED <<nsent, inq, echoed, unread, fin, dead, err>>

ClientSends(p) ==
  /\ phase[p] = "connected"
  /\ ~dead[p]
  /\ nsent[p] < MaxBytes
  /\ nsent' = [nsent EXCEPT ![p] = @ + 1]
  /\ inq' = [inq EXCEPT ![p] = Append(@, <<p, nsent[p] + 1>>)]
  /\ UNCHANGED <<phase, echoed, unread, fin, dead, err, queue>>

ClientReads(p) ==
  /\ phase[p] \in {"connected", "halfclosed"}
  /\ unread[p] > 0
  /\ unread' = [unread EXCEPT ![p] = @ - 1]
  /\ UNCHANGED <<phase, nsent, inq, echoed, fin, dead, err, queue>>

\* shutdown(SHUT_WR): the client goes on reading.
ClientHalfCloses(p) ==
  /\ phase[p] = "connected"
  /\ ~dead[p]
  /\ phase' = [phase EXCEPT ![p] = "halfclosed"]
  /\ fin' = [fin EXCEPT ![p] = TRUE]
  /\ UNCHANGED <<nsent, inq, echoed, unread, dead, err, queue>>

\* close(): a FIN, or a reset when something was left unread.
ClientCloses(p) ==
  /\ phase[p] \in {"connected", "halfclosed"}
  /\ ~dead[p]
  /\ phase' = [phase EXCEPT ![p] = "closed"]
  /\ IF unread[p] = 0
     THEN fin' = [fin EXCEPT ![p] = TRUE] /\ UNCHANGED <<dead, err>>
     ELSE /\ dead' = [dead EXCEPT ![p] = TRUE]
          /\ err' = [err EXCEPT ![p] = IF fin[p] THEN "EPIPE" ELSE "ECONNRESET"]
          /\ UNCHANGED fin
  /\ UNCHANGED <<nsent, inq, echoed, unread, queue>>

\* A client that dies or resets the connection at any moment.
ClientAborts(p) ==
  /\ phase[p] \in {"connected", "halfclosed"}
  /\ ~dead[p]
  /\ phase' = [phase EXCEPT ![p] = "aborted"]
  /\ dead' = [dead EXCEPT ![p] = TRUE]
  /\ err' = [err EXCEPT ![p] = IF fin[p] THEN "EPIPE" ELSE "ECONNRESET"]
  /\ UNCHANGED <<nsent, inq, echoed, unread, fin, queue>>

\* A client that has closed answers what it is sent with a reset.
ResetArrives(p) ==
  /\ phase[p] = "closed"
  /\ unread[p] > 0
  /\ ~dead[p]
  /\ dead' = [dead EXCEPT ![p] = TRUE]
  /\ err' = [err EXCEPT ![p] = "EPIPE"]
  /\ UNCHANGED <<phase, nsent, inq, echoed, unread, fin, queue>>

\* The client's host disappears and the kernel stops retransmitting to it.
ClientVanishes(p) ==
  /\ phase[p] = "connected"
  /\ unread[p] > 0
  /\ ~dead[p]
  /\ phase' = [phase EXCEPT ![p] = "aborted"]
  /\ dead' = [dead EXCEPT ![p] = TRUE]
  /\ err' = [err EXCEPT ![p] = "ETIMEDOUT"]
  /\ UNCHANGED <<nsent, inq, echoed, unread, fin, queue>>

ClientStep(p) ==
  \/ ClientConnects(p) \/ ClientSends(p) \/ ClientReads(p)
  \/ ClientHalfCloses(p) \/ ClientCloses(p) \/ ClientAborts(p)
  \/ ResetArrives(p) \/ ClientVanishes(p)

----------------------------------------------------------------------------
(* The kernel's answers to the server. *)

Readable(p) == inq[p] # <<>> \/ fin[p] \/ dead[p]

\* Data comes first, then the end of the stream, then the pending error.
RecvResult(p) ==
  IF inq[p] # <<>> THEN "data"
  ELSE IF fin[p] THEN "eof"
  ELSE IF err[p] # "none" THEN err[p]
  ELSE IF dead[p] THEN "eof"
  ELSE "blocks"

Received(p) == SubSeq(inq[p], 1, IF Len(inq[p]) < MAXLINE THEN Len(inq[p]) ELSE MAXLINE)

\* recv() with result "data": it takes Received(p).
RecvTakes(p) ==
  /\ inq' = [inq EXCEPT ![p] = SubSeq(@, Len(Received(p)) + 1, Len(@))]
  /\ UNCHANGED <<phase, nsent, echoed, unread, fin, dead, err, queue>>

\* An error is reported once.
ErrorReported(p) ==
  /\ err' = [err EXCEPT ![p] = "none"]
  /\ UNCHANGED <<phase, nsent, inq, echoed, unread, fin, dead, queue>>

\* send() without MSG_NOSIGNAL: a reset that is still to be reported makes it
\* fail, on a connection known to be gone it raises SIGPIPE.
SendResult(p) ==
  IF ~dead[p] THEN IF unread[p] < SendSpace THEN "sent" ELSE "blocks"
  ELSE IF err[p] \in {"ECONNRESET", "ETIMEDOUT"} THEN "error" ELSE "SIGPIPE"

\* send() with result "sent" takes the first n bytes.
SendTakes(p, bytes, n) ==
  /\ n \in 1 .. Len(bytes)
  /\ unread[p] + n <= SendSpace
  /\ echoed' = [echoed EXCEPT ![p] = @ \o SubSeq(bytes, 1, n)]
  /\ unread' = [unread EXCEPT ![p] = @ + n]
  /\ UNCHANGED <<phase, nsent, inq, fin, dead, err, queue>>
============================================================================
