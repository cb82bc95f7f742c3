------------------------- MODULE TcpServConcurrent -------------------------
(***************************************************************************)
(* The echo servers that give each connection a worker of its own:         *)
(*  "sample"   samples/tcpcliserv: a detached thread; the TCPSocket is     *)
(*             owned by shared_ptrs of main() and of the thread, and the   *)
(*             last one to go away closes the descriptor;                  *)
(*  "threads"  benchmark/linux tcpserv, tcpserv_byname, tcpserv_reuseaddr  *)
(*             and tcpserv_rcv_timeo: a detached thread, which is given    *)
(*             the descriptor and closes it;                               *)
(*  "fork"     benchmark/linux tcpserv_fork: a child process, which        *)
(*             inherits the descriptor; the parent closes its own.         *)
(***************************************************************************)
EXTENDS EchoClients, FiniteSetsExt

CONSTANTS
  ConnFds,    \* descriptor numbers for connections in one process
  None        \* no client; also the name of the process that runs main()

ASSUME ConcurrentAssumption ==
  /\ ConnFds \subseteq Nat
  /\ IsFiniteSet(ConnFds)
  /\ None \notin Peers

VARIABLES
  server,   \* which of the servers it is
  table,    \* the descriptors of each process: table[None] is main()'s,
            \* table[p] that of the child for client p
  desc,     \* the descriptor that main() got for each client, or -1
  refs,     \* "sample": how many shared_ptr own the socket
  worker,   \* where the thread or child of each client is
  buf,      \* the part of str_echo's buffer that is still to be sent
  main,     \* where main() is
  sock,     \* the client of main()'s local variable sock or connfd
  alive     \* FALSE once the process that runs main() has ended

serverVars == <<server, table, desc, refs, worker, buf, main, sock, alive>>
vars == <<clientVars, serverVars>>

Active == {"recv", "send", "leave"}

TypeOK ==
  /\ ClientsTypeOK
  /\ server \in {"sample", "threads", "fork"}
  /\ table \in [Peers \cup {None} -> [ConnFds -> Peers \cup {None}]]
  /\ desc \in [Peers -> ConnFds \cup {-1}]
  /\ refs \in [Peers -> 0 .. 2]
  /\ worker \in [Peers -> {"none", "ended"} \cup Active]
  /\ buf \in [Peers -> Seq(Bytes)]
  /\ main \in {"accept", "spawn", "release"}
  /\ sock \in Peers \cup {None}
  /\ alive \in BOOLEAN

NoFiles == [f \in ConnFds |-> None]

Init ==
  /\ ClientsInit
  /\ server \in {"sample", "threads", "fork"}
  /\ table = [q \in Peers \cup {None} |-> NoFiles]
  /\ desc = [p \in Peers |-> -1]
  /\ refs = [p \in Peers |-> 0]
  /\ worker = [p \in Peers |-> "none"]
  /\ buf = [p \in Peers |-> <<>>]
  /\ main = "accept"
  /\ sock = None
  /\ alive = TRUE

FreeFds == {f \in ConnFds : table[None][f] = None}

\* The process in which the worker of p runs.
ProcessOf(p) == IF server = "fork" THEN p ELSE None

\* The connection is open as long as some process has a descriptor for it.
IsOpen(p) == \E q \in Peers \cup {None} : \E f \in ConnFds : table[q][f] = p

CloseIn(q, fd) == table' = [table EXCEPT ![q][fd] = None]

\* One shared_ptr to the socket goes away, and the socket with the last one.
Release(p) ==
  /\ refs' = [refs EXCEPT ![p] = @ - 1]
  /\ IF refs[p] = 1 THEN CloseIn(None, desc[p]) ELSE UNCHANGED table

\* The process that runs main() ends, with all its threads: terminate() for an
\* exception nobody catches, err_quit(), or SIGPIPE in a thread.  Children are
\* not affected.
MainEnds ==
  /\ alive' = FALSE
  /\ table' = [table EXCEPT ![None] = NoFiles]
  /\ sock' = None
  /\ IF server = "fork" THEN UNCHANGED <<desc, refs, worker, buf>>
     ELSE /\ desc' = [p \in Peers |-> -1]
          /\ refs' = [p \in Peers |-> 0]
          /\ worker' = [p \in Peers |-> "ended"]
          /\ buf' = [p \in Peers |-> <<>>]
  /\ UNCHANGED <<server, main>>

----------------------------------------------------------------------------
(* main() *)

Accept ==
  /\ alive
  /\ main = "accept"
  /\ queue # <<>>
  /\ FreeFds # {}
  /\ LET p == Head(queue)
         f == Min(FreeFds)
     IN  /\ table' = [table EXCEPT ![None][f] = p]
         /\ desc' = [desc EXCEPT ![p] = f]
         /\ refs' = IF server = "sample" THEN [refs EXCEPT ![p] = 1] ELSE refs
         /\ sock' = p
  /\ queue' = Tail(queue)
  /\ main' = "spawn"
  /\ UNCHANGED <<phase, nsent, inq, echoed, unread, fin, dead, err>>
  /\ UNCHANGED <<server, worker, buf, alive>>

\* accept() finds no descriptor free in the process (EMFILE) or in the system
\* (ENFILE), or new fails: "sample" throws and main() has no handler, the
\* others call err_quit().
AcceptFails ==
  /\ alive
  /\ main = "accept"
  /\ queue # <<>>
  /\ MainEnds
  /\ UNCHANGED clientVars

\* Defect: the thread gets a reference instead of a shared_ptr of its own.
Spawn_uncounted ==
  /\ alive
  /\ main = "spawn"
  /\ worker' = [worker EXCEPT ![sock] = "recv"]
  /\ main' = "release"
  /\ UNCHANGED <<clientVars, server, table, desc, refs, buf, sock, alive>>

\* A thread gets its own copy of the shared_ptr, or just the number, and main()
\* forgets it; a child gets a copy of all descriptors of its parent.
Spawn ==
  /\ alive
  /\ main = "spawn"
  /\ worker' = [worker EXCEPT ![sock] = "recv"]
  /\ refs' = IF server = "sample" THEN [refs EXCEPT ![sock] = @ + 1] ELSE refs
  /\ table' = IF server = "fork" THEN [table EXCEPT ![sock] = table[None]] ELSE table
  /\ main' = IF server = "threads" THEN "accept" ELSE "release"
  /\ sock' = IF server = "threads" THEN None ELSE sock
  /\ UNCHANGED <<clientVars, server, desc, buf, alive>>

\* std::thread throws system_error, or fork() fails.
SpawnFails ==
  /\ alive
  /\ main = "spawn"
  /\ MainEnds
  /\ UNCHANGED clientVars

\* Defect: join() instead of detach(), wait() before the next accept().
MainReleases_joins ==
  /\ alive
  /\ main = "release"
  /\ worker[sock] = "ended"
  /\ IF server = "sample" THEN Release(sock)
     ELSE CloseIn(None, desc[sock]) /\ UNCHANGED refs
  /\ sock' = None
  /\ main' = "accept"
  /\ UNCHANGED <<clientVars, server, desc, worker, buf, alive>>

\* Defect: the parent keeps its descriptor of the connection.
MainReleases_keeps ==
  /\ alive
  /\ main = "release"
  /\ IF server = "sample" THEN Release(sock) ELSE UNCHANGED <<table, refs>>
  /\ sock' = None
  /\ main' = "accept"
  /\ UNCHANGED <<clientVars, server, desc, worker, buf, alive>>

\* The end of the loop body destroys main()'s shared_ptr; a parent closes its
\* descriptor of the connection.
MainReleases ==
  /\ alive
  /\ main = "release"
  /\ IF server = "sample" THEN Release(sock)
     ELSE CloseIn(None, desc[sock]) /\ UNCHANGED refs
  /\ sock' = None
  /\ main' = "accept"
  /\ UNCHANGED <<clientVars, server, desc, worker, buf, alive>>

Main == Accept \/ AcceptFails \/ Spawn \/ SpawnFails \/ MainReleases

----------------------------------------------------------------------------
(* The worker: doit() and str_echo(), on what its descriptor leads to. *)

Remote(p) == IF desc[p] = -1 THEN None ELSE table[ProcessOf(p)][desc[p]]

\* Defect: one lock around the body of str_echo.
Recv_locked(p) ==
  /\ worker[p] = "recv"
  /\ \A q \in Peers : worker[q] # "send"
  /\ Remote(p) # None
  /\ \/ /\ RecvResult(Remote(p)) = "data"
        /\ RecvTakes(Remote(p))
        /\ buf' = [buf EXCEPT ![p] = Received(Remote(p))]
        /\ worker' = [worker EXCEPT ![p] = "send"]
     \/ /\ RecvResult(Remote(p)) \in {"eof", "ECONNRESET", "ETIMEDOUT"}
        /\ worker' = [worker EXCEPT ![p] = "leave"]
        /\ UNCHANGED <<clientVars, buf>>
  /\ UNCHANGED <<server, table, desc, refs, main, sock, alive>>

Recv(p) ==
  /\ worker[p] = "recv"
  /\ Remote(p) # None
  /\ LET r == Remote(p)
     IN  \/ /\ RecvResult(r) = "data"
            /\ RecvTakes(r)
            /\ buf' = [buf EXCEPT ![p] = Received(r)]
            /\ worker' = [worker EXCEPT ![p] = "send"]
         \/ /\ RecvResult(r) = "eof"
            /\ worker' = [worker EXCEPT ![p] = "leave"]
            /\ UNCHANGED <<clientVars, buf>>
         \* "sample": recv() throws, and doit() catches; else "read error"
         \/ /\ RecvResult(r) \in {"ECONNRESET", "ETIMEDOUT"}
            /\ ErrorReported(r)
            /\ worker' = [worker EXCEPT ![p] = "leave"]
            /\ UNCHANGED buf
  /\ UNCHANGED <<server, table, desc, refs, main, sock, alive>>

\* Defect: send() is called once, whatever it returned.
Send_once(p) ==
  /\ worker[p] = "send"
  /\ Remote(p) # None
  /\ SendResult(Remote(p)) = "sent"
  /\ \E n \in 1 .. Len(buf[p]) : SendTakes(Remote(p), buf[p], n)
  /\ buf' = [buf EXCEPT ![p] = <<>>]
  /\ worker' = [worker EXCEPT ![p] = "recv"]
  /\ UNCHANGED <<server, table, desc, refs, main, sock, alive>>

\* One send() of the loop in sendAll() or send_all().
Send(p) ==
  /\ worker[p] = "send"
  /\ Remote(p) # None
  /\ SendResult(Remote(p)) = "sent"
  /\ \E n \in 1 .. Len(buf[p]) :
       /\ SendTakes(Remote(p), buf[p], n)
       /\ buf' = [buf EXCEPT ![p] = SubSeq(@, n + 1, Len(@))]
  /\ worker' = IF buf'[p] = <<>> THEN [worker EXCEPT ![p] = "recv"] ELSE worker
  /\ UNCHANGED <<server, table, desc, refs, main, sock, alive>>

\* send() throws out of sendAll and str_echo, and doit() catches; send_all()
\* returns -1, which the other str_echo does not look at.
SendFails(p) ==
  /\ worker[p] = "send"
  /\ Remote(p) # None
  /\ SendResult(Remote(p)) = "error"
  /\ ErrorReported(Remote(p))
  /\ buf' = [buf EXCEPT ![p] = <<>>]
  /\ worker' = [worker EXCEPT ![p] = IF server = "sample" THEN "leave" ELSE "recv"]
  /\ UNCHANGED <<server, table, desc, refs, main, sock, alive>>

\* send() on a connection that is gone: the signal ends the process of the
\* worker, which is only one child or the whole server.
SendKills(p) ==
  /\ worker[p] = "send"
  /\ Remote(p) # None
  /\ SendResult(Remote(p)) = "SIGPIPE"
  /\ IF server = "fork"
     THEN /\ table' = [table EXCEPT ![p] = NoFiles]
          /\ worker' = [worker EXCEPT ![p] = "ended"]
          /\ buf' = [buf EXCEPT ![p] = <<>>]
          /\ UNCHANGED <<server, desc, refs, main, sock, alive>>
     ELSE MainEnds
  /\ UNCHANGED clientVars

\* The end of doit(): its shared_ptr is destroyed, or the descriptor closed; the
\* end of a child closes all it had.
Leave(p) ==
  /\ worker[p] = "leave"
  /\ \/ server = "sample" /\ Release(p)
     \/ server = "threads" /\ CloseIn(None, desc[p]) /\ UNCHANGED refs
     \/ server = "fork" /\ table' = [table EXCEPT ![p] = NoFiles] /\ UNCHANGED refs
  /\ worker' = [worker EXCEPT ![p] = "ended"]
  /\ UNCHANGED <<clientVars, server, desc, buf, main, sock, alive>>

Worker(p) == Recv(p) \/ Send(p) \/ SendFails(p) \/ SendKills(p) \/ Leave(p)

----------------------------------------------------------------------------
ClientMoves == UNCHANGED serverVars /\ \E p \in Peers : ClientStep(p)

Next == Main \/ (\E p \in Peers : Worker(p)) \/ ClientMoves

Spec == Init /\ [][Next]_vars

(* Each thread and each process runs when it can.  Nothing is assumed of   *)
(* the clients.                                                            *)
FairSpec == Spec /\ WF_vars(Main) /\ \A p \in Peers : WF_vars(Worker(p))

----------------------------------------------------------------------------
(* What must hold. *)

\* A connection is open exactly as long as main() or its worker has it: the
\* last one closes it, nobody closes it under the other, and nobody keeps a
\* descriptor, for a child might inherit it and hold the connection open.  A
\* worker's descriptor always leads to its own client.
SharedOwnership ==
  \A p \in Peers :
    /\ worker[p] \in Active => Remote(p) = p
    /\ IsOpen(p) <=> sock = p \/ worker[p] \in Active
    /\ \A q \in Peers : \A f \in ConnFds : table[q][f] = p => q = p

\* A client whose bytes have arrived is served whatever the other clients do:
\* only its own unread echo can hold up its worker.
Isolated ==
  \A p \in Peers :
    (worker[p] = "recv" /\ Readable(p)) ~> worker[p] # "recv"

\* A client in the queue gets a worker of its own, whatever the others do.
EveryClientGetsAWorker ==
  \A p \in Peers : Queued(p) ~> (~alive \/ worker[p] # "none")

\* CommunicatingSocket.hpp:53: a send() that fails throws SocketException,
\* which doit() of the sample catches: so a broken connection ends its own
\* thread only.
BrokenConnectionIsContained ==
  server = "sample" /\ ~alive => main = "spawn" \/ (main = "accept" /\ queue # <<>>)

(* The service it implements. *)
Echo == INSTANCE EchoService WITH
  Bytes   <- Bytes,
  link    <- [p \in Peers |-> LinkOf(p, IsOpen(p))],
  side    <- [p \in Peers |-> SideOf(p)],
  sent    <- [p \in Peers |-> SentBytes(p)],
  back    <- echoed,
  serving <- alive

EchoSpec == Echo!Spec
============================================================================
