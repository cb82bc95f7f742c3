---------------------- MODULE TcpServConcurrent_proofs ----------------------
(***************************************************************************)
(* The servers with a thread or a process for each connection, proved for  *)
(* any number of clients and descriptors.                                  *)
(***************************************************************************)
EXTENDS TcpServConcurrent, EchoClients_proofs

(* Who has the connection of p: main(), or a worker. *)
Works(p) == worker[p] \in Active
Has(p) == sock = p \/ Works(p)

(* Where main() is says what it holds, and what it has started. *)
MainOK ==
  /\ alive => (main = "accept" <=> sock = None)
  /\ ~alive => sock = None
  /\ sock # None /\ main = "spawn" => worker[sock] = "none"
  /\ sock # None /\ main = "release" => worker[sock] # "none" /\ server # "threads"

(* What ends the process ends its threads; a client that waits for accept() *)
(* has no worker yet.                                                       *)
WorkersOK ==
  /\ ~alive /\ server # "fork" => \A p \in Peers : worker[p] = "ended"
  /\ \A p \in Peers : Waiting(p) =>
       ~Works(p) /\ sock # p /\ (alive => worker[p] = "none")

(* The descriptors of the process that runs main() are those of sock and of *)
(* its threads, each where desc says; a child has one, its client's.        *)
MainHas(p) == sock = p \/ (Works(p) /\ server # "fork")
ChildHas(p) == Works(p) /\ server = "fork"
TablesOK ==
  /\ \A p \in Peers : MainHas(p) => desc[p] \in ConnFds /\ table[None][desc[p]] = p
  /\ \A f \in ConnFds : \A p \in Peers : table[None][f] = p => MainHas(p) /\ desc[p] = f
  /\ \A p \in Peers : ChildHas(p) => desc[p] \in ConnFds /\ table[p][desc[p]] = p
  /\ \A q \in Peers : \A f \in ConnFds : table[q][f] # None =>
       table[q][f] = q /\ ChildHas(q) /\ desc[q] = f

(* Each owner of the sample's socket has counted itself. *)
Owners(p) == (IF sock = p THEN 1 ELSE 0) + (IF Works(p) THEN 1 ELSE 0)
RefsOK == server = "sample" => \A p \in Peers : refs[p] = Owners(p)

(* Only a worker that is sending has something left to send. *)
BufOK == \A p \in Peers : worker[p] # "send" => buf[p] = <<>>

IInv == TypeOK /\ QueueOK /\ MainOK /\ WorkersOK /\ TablesOK /\ RefsOK /\ BufOK

USE ClientsAssumption, ConcurrentAssumption

----------------------------------------------------------------------------
\* A worker's descriptor leads to its client.
LEMMA RemoteIs ==
  ASSUME IInv, NEW p \in Peers, Works(p)
  PROVE  Remote(p) = p /\ desc[p] \in ConnFds /\ (alive \/ server = "fork")
  <1>1. desc[p] \in ConnFds /\ table[ProcessOf(p)][desc[p]] = p
    BY DEF IInv, TablesOK, MainHas, ChildHas, ProcessOf
  <1>2. -1 \notin ConnFds
    OBVIOUS
  <1>3. alive \/ server = "fork"
    BY DEF IInv, WorkersOK, Works, Active
  <1> QED BY <1>1, <1>2, <1>3 DEF Remote

LEMMA InitIInv == Init => IInv
  <1> SUFFICES ASSUME Init PROVE IInv
    OBVIOUS
  <1>1. ClientsTypeOK /\ QueueOK
    BY InitClients DEF Init
  <1>2. TypeOK
    BY <1>1 DEF Init, TypeOK, NoFiles
  <1> QED BY <1>1, <1>2 DEF Init, IInv, MainOK, WorkersOK, TablesOK, RefsOK, BufOK, Works,
             MainHas, ChildHas, Owners, Active, NoFiles

(* Steps of a worker that goes on. *)

\* The parts of IInv that speak of main() and of descriptors.
HoldersOK == MainOK /\ WorkersOK /\ TablesOK /\ RefsOK

LEMMA WorkerGoesOn ==
  ASSUME IInv, NEW p \in Peers, Works(p), NEW w \in Active,
         worker' = [worker EXCEPT ![p] = w],
         UNCHANGED <<phase, queue, server, table, desc, refs, main, sock, alive>>
  PROVE  HoldersOK'
  <1>1. \A q \in Peers : Works(q)' = Works(q) /\ Waiting(q)' = Waiting(q)
    <2>1. \A q \in Peers : worker'[q] = IF q = p THEN w ELSE worker[q]
      BY DEF IInv, TypeOK
    <2> QED BY <2>1 DEF Works, Waiting, Queued
  <1>2. \A q \in Peers : MainHas(q)' = MainHas(q) /\ ChildHas(q)' = ChildHas(q) /\ Owners(q)' = Owners(q)
    BY <1>1 DEF MainHas, ChildHas, Owners
  <1>3. \A q \in Peers : q # p => worker'[q] = worker[q]
    BY DEF IInv, TypeOK
  <1>4. worker[p] # "none" /\ worker'[p] # "none" /\ worker[p] # "ended"
    BY DEF IInv, TypeOK, Works, Active
  <1>5. MainOK'
    BY <1>3, <1>4 DEF IInv, MainOK, TypeOK
  <1>6. WorkersOK'
    BY <1>1, <1>3, <1>4 DEF IInv, WorkersOK
  <1>7. TablesOK'
    BY <1>2 DEF IInv, TablesOK
  <1>8. RefsOK'
    BY <1>2 DEF IInv, RefsOK
  <1> QED BY <1>5, <1>6, <1>7, <1>8 DEF HoldersOK

LEMMA RecvStep == ASSUME IInv, NEW p \in Peers, Recv(p) PROVE IInv'
  <1>1. Works(p) /\ worker[p] = "recv"
    BY DEF Recv, Works, Active
  <1>2. Remote(p) = p
    BY <1>1, RemoteIs
  <1>3. UNCHANGED <<server, table, desc, refs, main, sock, alive>>
    BY DEF Recv
  <1>4. CASE /\ RecvTakes(p)
             /\ buf' = [buf EXCEPT ![p] = Received(p)]
             /\ worker' = [worker EXCEPT ![p] = "send"]
    <2>1. /\ ClientsTypeOK' /\ QueueOK' /\ Received(p) \in Seq(Bytes)
          /\ UNCHANGED <<phase, queue>>
      BY <1>4, RecvTakesKeeps DEF IInv, TypeOK
    <2>2. HoldersOK'
      BY <1>1, <1>3, <1>4, <2>1, WorkerGoesOn DEF Active
    <2>3. BufOK'
      BY <1>4 DEF IInv, TypeOK, BufOK
    <2>4. TypeOK'
      BY <1>3, <1>4, <2>1 DEF IInv, TypeOK, Active
    <2> QED BY <2>1, <2>2, <2>3, <2>4 DEF IInv, HoldersOK
  <1>5. CASE /\ UNCHANGED clientVars \/ ErrorReported(p)
             /\ UNCHANGED buf
             /\ worker' = [worker EXCEPT ![p] = "leave"]
    <2>1. ClientsTypeOK' /\ QueueOK' /\ UNCHANGED <<phase, queue>>
      <3>1. CASE UNCHANGED clientVars
        BY <3>1 DEF IInv, TypeOK, ClientsTypeOK, QueueOK, clientVars
      <3>2. CASE ErrorReported(p)
        BY <3>2, ErrorReportedKeeps DEF IInv, TypeOK
      <3> QED BY <1>5, <3>1, <3>2
    <2>2. HoldersOK'
      BY <1>1, <1>3, <1>5, <2>1, WorkerGoesOn DEF Active
    <2>3. BufOK'
      BY <1>1, <1>5 DEF IInv, TypeOK, BufOK
    <2>4. TypeOK'
      BY <1>3, <1>5, <2>1 DEF IInv, TypeOK, Active
    <2> QED BY <2>1, <2>2, <2>3, <2>4 DEF IInv, HoldersOK
  <1> QED BY <1>2, <1>4, <1>5 DEF Recv

LEMMA SendStep == ASSUME IInv, NEW p \in Peers, Send(p) PROVE IInv'
  <1>1. Works(p) /\ worker[p] = "send"
    BY DEF Send, Works, Active
  <1>2. Remote(p) = p
    BY <1>1, RemoteIs
  <1>3. UNCHANGED <<server, table, desc, refs, main, sock, alive>>
    BY DEF Send
  <1>4. PICK n \in 1 .. Len(buf[p]) :
          SendTakes(p, buf[p], n) /\ buf' = [buf EXCEPT ![p] = SubSeq(buf[p], n + 1, Len(buf[p]))]
    BY <1>2 DEF Send
  <1>5. buf[p] \in Seq(Bytes)
    BY DEF IInv, TypeOK
  <1>6. /\ ClientsTypeOK' /\ QueueOK' /\ SubSeq(buf[p], n + 1, Len(buf[p])) \in Seq(Bytes)
        /\ UNCHANGED <<phase, queue>>
    BY <1>4, <1>5, SendTakesKeeps DEF IInv, TypeOK
  <1>7. PICK w \in {"recv", "send"} :
          worker' = [worker EXCEPT ![p] = w] /\ (w = "recv" => buf'[p] = <<>>)
    <2>1. worker' = IF buf'[p] = <<>> THEN [worker EXCEPT ![p] = "recv"] ELSE worker
      BY DEF Send
    <2>2. worker = [worker EXCEPT ![p] = "send"]
      BY <1>1 DEF IInv, TypeOK
    <2> QED BY <2>1, <2>2
  <1>8. HoldersOK'
    BY <1>1, <1>3, <1>6, <1>7, WorkerGoesOn DEF Active
  <1>9. BufOK'
    BY <1>4, <1>7 DEF IInv, TypeOK, BufOK
  <1>10. TypeOK'
    BY <1>3, <1>4, <1>6, <1>7 DEF IInv, TypeOK, Active
  <1> QED BY <1>6, <1>8, <1>9, <1>10 DEF IInv, HoldersOK

LEMMA SendFailsStep == ASSUME IInv, NEW p \in Peers, SendFails(p) PROVE IInv'
  <1>1. Works(p) /\ worker[p] = "send"
    BY DEF SendFails, Works, Active
  <1>2. Remote(p) = p
    BY <1>1, RemoteIs
  <1>3. /\ UNCHANGED <<server, table, desc, refs, main, sock, alive>>
        /\ ErrorReported(p) /\ buf' = [buf EXCEPT ![p] = <<>>]
    BY <1>2 DEF SendFails
  <1>4. ClientsTypeOK' /\ QueueOK' /\ UNCHANGED <<phase, queue>>
    BY <1>3, ErrorReportedKeeps DEF IInv, TypeOK
  <1>5. PICK w \in {"leave", "recv"} : worker' = [worker EXCEPT ![p] = w]
    BY DEF SendFails
  <1>6. HoldersOK'
    BY <1>1, <1>3, <1>4, <1>5, WorkerGoesOn DEF Active
  <1>7. BufOK'
    BY <1>3, <1>5 DEF IInv, TypeOK, BufOK
  <1>8. TypeOK'
    BY <1>3, <1>4, <1>5 DEF IInv, TypeOK, Active
  <1> QED BY <1>4, <1>6, <1>7, <1>8 DEF IInv, HoldersOK

LEMMA ClientMovesStep == ASSUME IInv, ClientMoves PROVE IInv'
  <1>1. UNCHANGED <<server, table, desc, refs, worker, buf, main, sock, alive>>
    BY DEF ClientMoves, serverVars
  <1>2. PICK p \in Peers : ClientStep(p)
    BY DEF ClientMoves
  <1>3. ClientsTypeOK' /\ QueueOK' /\ ClientFacts
    BY <1>2, ClientStepKeeps DEF IInv, TypeOK
  <1>4. TypeOK'
    BY <1>1, <1>3 DEF IInv, TypeOK
  <1>5. \A q \in Peers : Waiting(q)' => Waiting(q)
    BY <1>3 DEF ClientFacts, Waiting
  <1>6. WorkersOK'
    BY <1>1, <1>5 DEF IInv, WorkersOK, Works
  <1>7. (MainOK /\ TablesOK /\ RefsOK /\ BufOK)'
    BY <1>1 DEF IInv, MainOK, TablesOK, RefsOK, BufOK, MainHas, ChildHas, Owners, Works
  <1> QED BY <1>3, <1>4, <1>6, <1>7 DEF IInv

----------------------------------------------------------------------------
(* Steps that give a connection to somebody, or end one. *)

(* With the process that runs main() go its threads and their descriptors. *)
LEMMA MainEndsStep ==
  ASSUME IInv, MainEnds, UNCHANGED clientVars
  PROVE  IInv'
  <1>1. ClientsTypeOK' /\ QueueOK' /\ \A p \in Peers : Waiting(p)' = Waiting(p)
    BY DEF IInv, TypeOK, ClientsTypeOK, QueueOK, clientVars, Waiting, Queued
  <1>2. /\ alive' = FALSE /\ sock' = None /\ UNCHANGED <<server, main>>
        /\ table' = [table EXCEPT ![None] = NoFiles]
        /\ NoFiles \in [ConnFds -> Peers \cup {None}]
    BY DEF MainEnds, NoFiles
  <1>3. CASE server = "fork"
    <2>1. UNCHANGED <<desc, refs, worker, buf>>
      BY <1>3 DEF MainEnds
    <2>2. TypeOK'
      BY <1>1, <1>2, <2>1 DEF IInv, TypeOK
    <2>3. MainOK' /\ WorkersOK' /\ BufOK' /\ RefsOK'
      BY <1>1, <1>2, <1>3, <2>1 DEF IInv, MainOK, WorkersOK, BufOK, RefsOK, Works
    <2>4. \A p \in Peers : ~MainHas(p)' /\ ChildHas(p)' = ChildHas(p)
      BY <1>2, <1>3, <2>1 DEF MainHas, ChildHas, Works
    <2>5. /\ \A f \in ConnFds : table'[None][f] = None
          /\ \A q \in Peers : table'[q] = table[q]
      BY <1>2 DEF IInv, TypeOK, NoFiles
    <2>6. TablesOK'
      BY <2>1, <2>4, <2>5 DEF IInv, TablesOK
    <2> QED BY <1>1, <2>2, <2>3, <2>6 DEF IInv
  <1>4. CASE server # "fork"
    <2>1. /\ desc' = [p \in Peers |-> -1] /\ refs' = [p \in Peers |-> 0]
          /\ worker' = [p \in Peers |-> "ended"] /\ buf' = [p \in Peers |-> <<>>]
      BY <1>4 DEF MainEnds
    <2>2. TypeOK'
      <3>1. table' \in [Peers \cup {None} -> [ConnFds -> Peers \cup {None}]]
        BY <1>2 DEF IInv, TypeOK
      <3>2. /\ desc' \in [Peers -> ConnFds \cup {-1}] /\ refs' \in [Peers -> 0 .. 2]
            /\ worker' \in [Peers -> {"none", "ended"} \cup Active]
            /\ buf' \in [Peers -> Seq(Bytes)]
        BY <2>1
      <3> QED BY <1>1, <1>2, <3>1, <3>2 DEF IInv, TypeOK
    <2>3. \A p \in Peers : ~Works(p)'
      BY <2>1 DEF Works, Active
    <2>4. \A p \in Peers : ~MainHas(p)' /\ ~ChildHas(p)' /\ Owners(p)' = 0
      BY <1>2, <2>3 DEF MainHas, ChildHas, Owners
    <2>5. MainOK' /\ WorkersOK' /\ BufOK' /\ RefsOK'
      BY <1>2, <2>1, <2>3, <2>4 DEF MainOK, WorkersOK, BufOK, RefsOK
    <2>6. \A q \in Peers \cup {None} : \A f \in ConnFds : table'[q][f] = None
      <3>1. \A q \in Peers : ~ChildHas(q)
        BY <1>4 DEF ChildHas
      <3>2. \A q \in Peers : \A f \in ConnFds : table[q][f] = None
        BY <3>1 DEF IInv, TablesOK
      <3> QED BY <1>2, <3>2 DEF IInv, TypeOK, NoFiles
    <2>7. TablesOK'
      BY <2>4, <2>6 DEF TablesOK
    <2> QED BY <1>1, <2>2, <2>5, <2>7 DEF IInv
  <1> QED BY <1>3, <1>4

LEMMA AcceptStep == ASSUME IInv, Accept PROVE IInv'
  <1>1. PICK p, f : p = Head(queue) /\ f = Min(FreeFds)
    OBVIOUS
  <1>2. /\ alive /\ main = "accept" /\ sock = None /\ queue # <<>> /\ queue' = Tail(queue)
        /\ table' = [table EXCEPT ![None][f] = p]
        /\ desc' = [desc EXCEPT ![p] = f]
        /\ refs' = IF server = "sample" THEN [refs EXCEPT ![p] = 1] ELSE refs
        /\ sock' = p /\ main' = "spawn"
        /\ UNCHANGED <<phase, nsent, inq, echoed, unread, fin, dead, err>>
        /\ UNCHANGED <<server, worker, buf, alive>>
    BY <1>1 DEF Accept, IInv, MainOK
  <1>3. f \in ConnFds /\ table[None][f] = None
    <2>1. FreeFds \in SUBSET Nat /\ FreeFds # {}
      BY DEF FreeFds, Accept
    <2> QED BY <1>1, <2>1, MinOfNumbers DEF FreeFds
  <1>4. ClientsTypeOK' /\ QueueOK'
    BY <1>2, AcceptKeeps DEF IInv, TypeOK
  <1>5. /\ p \in Peers /\ Waiting(p) /\ ~Waiting(p)'
        /\ \A q \in Peers \ {p} : Waiting(q)' = Waiting(q)
    BY <1>1, <1>2, AcceptEndsWait DEF IInv, TypeOK
  <1>6. ~Works(p) /\ worker[p] = "none"
    BY <1>2, <1>5 DEF IInv, WorkersOK
  <1>7. TypeOK'
    <2>1. table' \in [Peers \cup {None} -> [ConnFds -> Peers \cup {None}]]
      BY <1>2, <1>3, <1>5 DEF IInv, TypeOK
    <2>2. desc' \in [Peers -> ConnFds \cup {-1}] /\ refs' \in [Peers -> 0 .. 2]
      BY <1>2, <1>3, <1>5 DEF IInv, TypeOK
    <2> QED BY <1>2, <1>4, <1>5, <2>1, <2>2 DEF IInv, TypeOK
  <1>8. MainOK'
    BY <1>2, <1>5, <1>6 DEF MainOK
  <1>9. WorkersOK'
    BY <1>2, <1>5 DEF IInv, WorkersOK, Works
  <1>10. BufOK'
    BY <1>2 DEF IInv, BufOK
  <1>11. /\ MainHas(p)' /\ ~MainHas(p) /\ ~ChildHas(p)' /\ ~ChildHas(p)
         /\ \A q \in Peers \ {p} : MainHas(q)' = MainHas(q) /\ ChildHas(q)' = ChildHas(q)
    BY <1>2, <1>5, <1>6 DEF MainHas, ChildHas, Works
  <1>12. /\ \A g \in ConnFds : table'[None][g] = IF g = f THEN p ELSE table[None][g]
         /\ \A q \in Peers : table'[q] = table[q]
         /\ \A q \in Peers : desc'[q] = IF q = p THEN f ELSE desc[q]
    BY <1>2, <1>3, <1>5 DEF IInv, TypeOK
  <1>13. TablesOK'
    <2>1. \A q \in Peers : MainHas(q)' => desc'[q] \in ConnFds /\ table'[None][desc'[q]] = q
      <3> SUFFICES ASSUME NEW q \in Peers, q # p, MainHas(q)
                   PROVE  desc'[q] \in ConnFds /\ table'[None][desc'[q]] = q
        BY <1>3, <1>5, <1>11, <1>12
      <3>1. desc[q] \in ConnFds /\ table[None][desc[q]] = q
        BY DEF IInv, TablesOK
      <3> QED BY <1>3, <1>12, <3>1
    <2>2. \A g \in ConnFds : \A q \in Peers : table'[None][g] = q => MainHas(q)' /\ desc'[q] = g
      <3> SUFFICES ASSUME NEW g \in ConnFds, NEW q \in Peers, table'[None][g] = q
                   PROVE  MainHas(q)' /\ desc'[q] = g
        OBVIOUS
      <3>1. CASE g = f
        BY <1>11, <1>12, <3>1
      <3>2. CASE g # f
        <4>1. table[None][g] = q /\ MainHas(q) /\ desc[q] = g
          BY <1>12, <3>2 DEF IInv, TablesOK
        <4> QED BY <1>11, <1>12, <4>1
      <3> QED BY <3>1, <3>2
    <2>3. \A q \in Peers : ChildHas(q)' => desc'[q] \in ConnFds /\ table'[q][desc'[q]] = q
      BY <1>11, <1>12 DEF IInv, TablesOK
    <2>4. \A q \in Peers : \A g \in ConnFds : table'[q][g] # None =>
            table'[q][g] = q /\ ChildHas(q)' /\ desc'[q] = g
      BY <1>11, <1>12 DEF IInv, TablesOK
    <2> QED BY <2>1, <2>2, <2>3, <2>4 DEF TablesOK
  <1>14. RefsOK'
    <2>1. \A q \in Peers : Works(q)' = Works(q)
      BY <1>2 DEF Works
    <2>2. /\ Owners(p)' = 1
          /\ \A q \in Peers \ {p} : Owners(q)' = Owners(q)
      BY <1>2, <1>5, <1>6, <2>1 DEF Owners
    <2>3. ASSUME server = "sample", NEW q \in Peers PROVE refs'[q] = Owners(q)'
      <3>1. refs'[q] = IF q = p THEN 1 ELSE refs[q]
        BY <1>2, <1>5, <2>3 DEF IInv, TypeOK
      <3> QED BY <2>2, <2>3, <3>1 DEF IInv, RefsOK
    <2> QED BY <1>2, <2>3 DEF RefsOK
  <1> QED BY <1>4, <1>7, <1>8, <1>9, <1>10, <1>13, <1>14 DEF IInv

LEMMA SpawnStep == ASSUME IInv, Spawn PROVE IInv'
  <1>1. PICK p : p = sock
    OBVIOUS
  <1>2. /\ alive /\ main = "spawn" /\ sock = p
        /\ worker' = [worker EXCEPT ![p] = "recv"]
        /\ refs' = IF server = "sample" THEN [refs EXCEPT ![p] = refs[p] + 1] ELSE refs
        /\ table' = IF server = "fork" THEN [table EXCEPT ![p] = table[None]] ELSE table
        /\ main' = IF server = "threads" THEN "accept" ELSE "release"
        /\ sock' = IF server = "threads" THEN None ELSE p
        /\ UNCHANGED clientVars /\ UNCHANGED <<server, desc, buf, alive>>
    BY <1>1 DEF Spawn
  <1>3. p \in Peers /\ p # None /\ worker[p] = "none" /\ ~Works(p) /\ ~Waiting(p)
    BY <1>2 DEF IInv, TypeOK, MainOK, WorkersOK, Works, Active
  <1>4. ClientsTypeOK' /\ QueueOK' /\ \A q \in Peers : Waiting(q)' = Waiting(q)
    BY <1>2 DEF IInv, TypeOK, ClientsTypeOK, QueueOK, clientVars, Waiting, Queued
  <1>5. \A q \in Peers : worker'[q] = IF q = p THEN "recv" ELSE worker[q]
    BY <1>2 DEF IInv, TypeOK
  <1>6. Works(p)' /\ \A q \in Peers \ {p} : Works(q)' = Works(q)
    BY <1>3, <1>5 DEF Works, Active
  <1>7. server = "sample" => refs[p] = 1
    BY <1>2, <1>3 DEF IInv, RefsOK, Owners
  <1>8. TypeOK'
    <2>1. table[None] \in [ConnFds -> Peers \cup {None}]
      BY DEF IInv, TypeOK
    <2>2. table' \in [Peers \cup {None} -> [ConnFds -> Peers \cup {None}]]
      BY <1>2, <1>3, <2>1 DEF IInv, TypeOK
    <2>3. refs' \in [Peers -> 0 .. 2]
      BY <1>2, <1>3, <1>7 DEF IInv, TypeOK
    <2>4. worker' \in [Peers -> {"none", "ended"} \cup Active]
      BY <1>2 DEF IInv, TypeOK, Active
    <2> QED BY <1>2, <1>3, <1>4, <2>2, <2>3, <2>4 DEF IInv, TypeOK
  <1>9. MainOK'
    BY <1>2, <1>3, <1>5 DEF IInv, MainOK
  <1>10. WorkersOK'
    BY <1>2, <1>3, <1>4, <1>5, <1>6 DEF IInv, WorkersOK
  <1>11. BufOK'
    BY <1>2, <1>3, <1>5 DEF IInv, BufOK
  <1>12. RefsOK'
    BY <1>2, <1>3, <1>6, <1>7 DEF IInv, TypeOK, RefsOK, Owners
  <1>13. \A q \in Peers : MainHas(q)' = MainHas(q)
    BY <1>2, <1>3, <1>6 DEF MainHas
  <1>14. TablesOK'
    <2>1. CASE server # "fork"
      <3>1. \A q \in Peers : ~ChildHas(q)' /\ ~ChildHas(q)
        BY <1>2, <2>1 DEF ChildHas
      <3> QED BY <1>2, <1>13, <2>1, <3>1 DEF IInv, TablesOK
    <2>2. CASE server = "fork"
      <3>1. /\ table'[None] = table[None] /\ table'[p] = table[None]
            /\ \A q \in Peers \ {p} : table'[q] = table[q]
        BY <1>2, <1>3, <2>2 DEF IInv, TypeOK
      <3>2. ChildHas(p)' /\ \A q \in Peers \ {p} : ChildHas(q)' = ChildHas(q)
        BY <1>2, <1>6, <2>2 DEF ChildHas
      <3>3. MainHas(p) /\ \A q \in Peers : MainHas(q) => q = p
        BY <1>2, <2>2 DEF MainHas
      <3>4. \A g \in ConnFds : table[None][g] # None => table[None][g] = p /\ desc[p] = g
        <4> SUFFICES ASSUME NEW g \in ConnFds, table[None][g] # None
                     PROVE  table[None][g] = p /\ desc[p] = g
          OBVIOUS
        <4>1. PICK q \in Peers : table[None][g] = q
          BY DEF IInv, TypeOK
        <4>2. MainHas(q) /\ desc[q] = g
          BY <4>1 DEF IInv, TablesOK
        <4> QED BY <3>3, <4>1, <4>2
      <3>5. /\ \A q \in Peers : MainHas(q)' => desc'[q] \in ConnFds /\ table'[None][desc'[q]] = q
            /\ \A f \in ConnFds : \A q \in Peers : table'[None][f] = q => MainHas(q)' /\ desc'[q] = f
        BY <1>2, <1>13, <3>1 DEF IInv, TablesOK
      <3>6. \A q \in Peers : ChildHas(q)' => desc'[q] \in ConnFds /\ table'[q][desc'[q]] = q
        <4> SUFFICES ASSUME NEW q \in Peers, ChildHas(q)'
                     PROVE  desc[q] \in ConnFds /\ table'[q][desc[q]] = q
          BY <1>2
        <4>1. CASE q = p
          BY <3>1, <3>3, <4>1 DEF IInv, TablesOK
        <4>2. CASE q # p
          BY <3>1, <3>2, <4>2 DEF IInv, TablesOK
        <4> QED BY <4>1, <4>2
      <3>7. \A q \in Peers : \A f \in ConnFds : table'[q][f] # None =>
              table'[q][f] = q /\ ChildHas(q)' /\ desc'[q] = f
        <4> SUFFICES ASSUME NEW q \in Peers, NEW f \in ConnFds, table'[q][f] # None
                     PROVE  table'[q][f] = q /\ ChildHas(q)' /\ desc[q] = f
          BY <1>2
        <4>1. CASE q = p
          BY <3>1, <3>2, <3>4, <4>1
        <4>2. CASE q # p
          BY <3>1, <3>2, <4>2 DEF IInv, TablesOK
        <4> QED BY <4>1, <4>2
      <3> QED BY <3>5, <3>6, <3>7 DEF TablesOK
    <2> QED BY <2>1, <2>2
  <1> QED BY <1>4, <1>8, <1>9, <1>10, <1>11, <1>12, <1>14 DEF IInv

(* A descriptor of main() is closed when the last there who had it goes. *)
LEMMA ClosedInMain ==
  ASSUME TablesOK, TypeOK, NEW p \in Peers, MainHas(p),
         CloseIn(None, desc[p]), UNCHANGED desc,
         ~MainHas(p)',
         \A q \in Peers : q # p => MainHas(q)' = MainHas(q),
         \A q \in Peers : ChildHas(q)' = ChildHas(q)
  PROVE  TablesOK'
  <1>1. desc[p] \in ConnFds /\ table[None][desc[p]] = p
    BY DEF TablesOK
  <1>2. /\ \A g \in ConnFds : table'[None][g] = IF g = desc[p] THEN None ELSE table[None][g]
        /\ \A q \in Peers : table'[q] = table[q]
    BY DEF CloseIn, TypeOK
  <1>3. \A q \in Peers : MainHas(q)' => desc'[q] \in ConnFds /\ table'[None][desc'[q]] = q
    <2> SUFFICES ASSUME NEW q \in Peers, q # p, MainHas(q)
                 PROVE  desc[q] \in ConnFds /\ table'[None][desc[q]] = q
      OBVIOUS
    <2>1. desc[q] \in ConnFds /\ table[None][desc[q]] = q
      BY DEF TablesOK
    <2> QED BY <1>1, <1>2, <2>1
  <1>4. \A g \in ConnFds : \A q \in Peers : table'[None][g] = q => MainHas(q)' /\ desc'[q] = g
    <2> SUFFICES ASSUME NEW g \in ConnFds, NEW q \in Peers, table'[None][g] = q
                 PROVE  MainHas(q)' /\ desc'[q] = g
      OBVIOUS
    <2>1. g # desc[p] /\ table[None][g] = q
      BY <1>2
    <2>2. MainHas(q) /\ desc[q] = g
      BY <2>1 DEF TablesOK
    <2> QED BY <2>1, <2>2
  <1>5. \A q \in Peers : ChildHas(q)' => desc'[q] \in ConnFds /\ table'[q][desc'[q]] = q
    BY <1>2 DEF TablesOK
  <1>6. \A q \in Peers : \A g \in ConnFds : table'[q][g] # None =>
          table'[q][g] = q /\ ChildHas(q)' /\ desc'[q] = g
    <2> SUFFICES ASSUME NEW q \in Peers, NEW g \in ConnFds, table'[q][g] # None
                 PROVE  table'[q][g] = q /\ ChildHas(q)' /\ desc'[q] = g
      OBVIOUS
    <2>1. table[q][g] # None /\ table'[q][g] = table[q][g]
      BY <1>2
    <2>2. table[q][g] = q /\ ChildHas(q) /\ desc[q] = g
      BY <2>1 DEF TablesOK
    <2> QED BY <2>1, <2>2
  <1> QED BY <1>3, <1>4, <1>5, <1>6 DEF TablesOK

(* A child's descriptors go with it. *)
LEMMA ChildEnds ==
  ASSUME TablesOK, TypeOK, NEW p \in Peers,
         table' = [table EXCEPT ![p] = NoFiles], UNCHANGED desc,
         ~ChildHas(p)',
         \A q \in Peers : q # p => ChildHas(q)' = ChildHas(q),
         \A q \in Peers : MainHas(q)' = MainHas(q)
  PROVE  TablesOK'
  <1>1. /\ table'[None] = table[None]
        /\ \A g \in ConnFds : table'[p][g] = None
        /\ \A q \in Peers : q # p => table'[q] = table[q]
    BY DEF TypeOK, NoFiles
  <1>2. \A q \in Peers : MainHas(q)' => desc'[q] \in ConnFds /\ table'[None][desc'[q]] = q
    BY <1>1 DEF TablesOK
  <1>3. \A g \in ConnFds : \A q \in Peers : table'[None][g] = q => MainHas(q)' /\ desc'[q] = g
    BY <1>1 DEF TablesOK
  <1>4. \A q \in Peers : ChildHas(q)' => desc'[q] \in ConnFds /\ table'[q][desc'[q]] = q
    BY <1>1 DEF TablesOK
  <1>5. \A q \in Peers : \A g \in ConnFds : table'[q][g] # None =>
          table'[q][g] = q /\ ChildHas(q)' /\ desc'[q] = g
    BY <1>1 DEF TablesOK
  <1> QED BY <1>2, <1>3, <1>4, <1>5 DEF TablesOK

LEMMA MainReleasesStep == ASSUME IInv, MainReleases PROVE IInv'
  <1>1. PICK p : p = sock
    OBVIOUS
  <1>2. /\ alive /\ main = "release" /\ sock = p
        /\ IF server = "sample" THEN Release(p) ELSE CloseIn(None, desc[p]) /\ UNCHANGED refs
        /\ sock' = None /\ main' = "accept"
        /\ UNCHANGED clientVars /\ UNCHANGED <<server, desc, worker, buf, alive>>
    BY <1>1 DEF MainReleases
  <1>3. p \in Peers /\ p # None /\ server # "threads"
    BY <1>2 DEF IInv, TypeOK, MainOK
  <1>4. ClientsTypeOK' /\ QueueOK' /\ \A q \in Peers : Waiting(q)' = Waiting(q)
    BY <1>2 DEF IInv, TypeOK, ClientsTypeOK, QueueOK, clientVars, Waiting, Queued
  <1>5. \A q \in Peers : Works(q)' = Works(q) /\ ChildHas(q)' = ChildHas(q)
    BY <1>2 DEF Works, ChildHas
  <1>6. /\ MainHas(p)
        /\ MainHas(p)' = (Works(p) /\ server # "fork")
        /\ \A q \in Peers : q # p => MainHas(q)' = MainHas(q)
    BY <1>2, <1>3, <1>5 DEF MainHas
  <1>7. /\ server = "sample" => refs[p] = IF Works(p) THEN 2 ELSE 1
        /\ refs' = IF server = "sample" THEN [refs EXCEPT ![p] = refs[p] - 1] ELSE refs
    BY <1>2, <1>3 DEF IInv, RefsOK, Owners, Release
  <1>8. TablesOK'
    <2>1. CASE server = "sample" /\ Works(p)
      <3>1. UNCHANGED table
        BY <1>2, <1>7, <2>1 DEF Release
      <3>2. \A q \in Peers : MainHas(q)' = MainHas(q)
        BY <1>6, <2>1 DEF MainHas
      <3> QED BY <1>2, <1>5, <3>1, <3>2 DEF IInv, TablesOK
    <2>2. CASE ~ (server = "sample" /\ Works(p))
      <3>1. CloseIn(None, desc[p])
        BY <1>2, <1>7, <2>2 DEF Release
      <3>2. ~MainHas(p)'
        <4>1. server \in {"sample", "threads", "fork"}
          BY DEF IInv, TypeOK
        <4> QED BY <1>3, <1>6, <2>2, <4>1
      <3> QED BY <1>2, <1>3, <1>5, <1>6, <3>1, <3>2, ClosedInMain DEF IInv
    <2> QED BY <2>1, <2>2
  <1>9. RefsOK'
    <2>1. Owners(p)' = (IF Works(p) THEN 1 ELSE 0) /\ \A q \in Peers \ {p} : Owners(q)' = Owners(q)
      BY <1>2, <1>3, <1>5 DEF Owners
    <2>2. ASSUME server = "sample", NEW q \in Peers PROVE refs'[q] = Owners(q)'
      <3>1. refs'[q] = IF q = p THEN refs[p] - 1 ELSE refs[q]
        BY <1>3, <1>7, <2>2 DEF IInv, TypeOK
      <3> QED BY <1>7, <2>1, <2>2, <3>1 DEF IInv, RefsOK
    <2> QED BY <1>2, <2>2 DEF RefsOK
  <1>10. TypeOK'
    <2>1. table' \in [Peers \cup {None} -> [ConnFds -> Peers \cup {None}]]
      <3>1. UNCHANGED table \/ table' = [table EXCEPT ![None][desc[p]] = None]
        BY <1>2 DEF Release, CloseIn
      <3> QED BY <3>1 DEF IInv, TypeOK
    <2>2. refs' \in [Peers -> 0 .. 2]
      BY <1>3, <1>7 DEF IInv, TypeOK
    <2> QED BY <1>2, <1>4, <2>1, <2>2 DEF IInv, TypeOK
  <1>11. MainOK' /\ BufOK'
    BY <1>2 DEF IInv, MainOK, BufOK
  <1>12. WorkersOK'
    BY <1>2, <1>3, <1>4, <1>5 DEF IInv, WorkersOK
  <1> QED BY <1>4, <1>8, <1>9, <1>10, <1>11, <1>12 DEF IInv

(* What is true of a worker's end, whoever closes what. *)
LEMMA WorkerEnds ==
  ASSUME IInv, NEW p \in Peers, Works(p), worker' = [worker EXCEPT ![p] = "ended"],
         UNCHANGED clientVars, UNCHANGED <<server, desc, main, sock, alive>>
  PROVE  /\ ClientsTypeOK' /\ QueueOK' /\ MainOK' /\ WorkersOK'
         /\ ~Works(p)' /\ ~ChildHas(p)' /\ MainHas(p)' = (sock = p)
         /\ \A q \in Peers : q # p => MainHas(q)' = MainHas(q) /\ ChildHas(q)' = ChildHas(q)
         /\ \A q \in Peers : q # p => Owners(q)' = Owners(q)
         /\ Owners(p)' = (IF sock = p THEN 1 ELSE 0)
         /\ worker' \in [Peers -> {"none", "ended"} \cup Active]
  <1>1. ClientsTypeOK' /\ QueueOK' /\ \A q \in Peers : Waiting(q)' = Waiting(q)
    BY DEF IInv, TypeOK, ClientsTypeOK, QueueOK, clientVars, Waiting, Queued
  <1>2. \A q \in Peers : worker'[q] = IF q = p THEN "ended" ELSE worker[q]
    BY DEF IInv, TypeOK
  <1>3. ~Works(p)' /\ \A q \in Peers : q # p => Works(q)' = Works(q)
    BY <1>2 DEF Works, Active
  <1>4. worker[p] # "none" /\ worker[p] # "ended"
    BY DEF Works, Active
  <1>5. MainOK'
    <2>1. sock \in Peers \cup {None}
      BY DEF IInv, TypeOK
    <2> QED BY <1>2, <1>4, <2>1 DEF IInv, MainOK
  <1>6. WorkersOK'
    BY <1>1, <1>2, <1>3, <1>4 DEF IInv, WorkersOK
  <1>7. /\ ~ChildHas(p)' /\ MainHas(p)' = (sock = p)
        /\ \A q \in Peers : q # p => MainHas(q)' = MainHas(q) /\ ChildHas(q)' = ChildHas(q)
    BY <1>3 DEF MainHas, ChildHas
  <1>8. /\ \A q \in Peers : q # p => Owners(q)' = Owners(q)
        /\ Owners(p)' = (IF sock = p THEN 1 ELSE 0)
    BY <1>3 DEF Owners
  <1>9. worker' \in [Peers -> {"none", "ended"} \cup Active]
    BY DEF IInv, TypeOK
  <1> QED BY <1>1, <1>3, <1>5, <1>6, <1>7, <1>8, <1>9

LEMMA LeaveStep == ASSUME IInv, NEW p \in Peers, Leave(p) PROVE IInv'
  <1>1. Works(p) /\ worker[p] = "leave"
    BY DEF Leave, Works, Active
  <1>2. /\ worker' = [worker EXCEPT ![p] = "ended"]
        /\ UNCHANGED clientVars /\ UNCHANGED <<server, desc, buf, main, sock, alive>>
    BY DEF Leave
  <1>3. /\ ClientsTypeOK' /\ QueueOK' /\ MainOK' /\ WorkersOK'
        /\ ~Works(p)' /\ ~ChildHas(p)' /\ MainHas(p)' = (sock = p)
        /\ \A q \in Peers : q # p => MainHas(q)' = MainHas(q) /\ ChildHas(q)' = ChildHas(q)
        /\ \A q \in Peers : q # p => Owners(q)' = Owners(q)
        /\ Owners(p)' = (IF sock = p THEN 1 ELSE 0)
        /\ worker' \in [Peers -> {"none", "ended"} \cup Active]
    BY <1>1, <1>2, WorkerEnds
  <1>4. BufOK'
    BY <1>1, <1>2 DEF IInv, TypeOK, BufOK
  <1>5. ASSUME TablesOK', RefsOK', refs' \in [Peers -> 0 .. 2],
               table' \in [Peers \cup {None} -> [ConnFds -> Peers \cup {None}]]
        PROVE  IInv'
    <2>1. TypeOK'
      BY <1>2, <1>3, <1>5 DEF IInv, TypeOK
    <2> QED BY <1>3, <1>4, <1>5, <2>1 DEF IInv
  <1>6. \A f : [table EXCEPT ![None][f] = None]
                 \in [Peers \cup {None} -> [ConnFds -> Peers \cup {None}]]
    BY DEF IInv, TypeOK
  <1>7. CASE server = "sample" /\ Release(p)
    <2>1. refs[p] = IF sock = p THEN 2 ELSE 1
      BY <1>1, <1>7 DEF IInv, RefsOK, Owners
    <2>2. refs' = [refs EXCEPT ![p] = refs[p] - 1]
      BY <1>7 DEF Release
    <2>3. RefsOK'
      <3>1. \A q \in Peers : refs'[q] = IF q = p THEN refs[p] - 1 ELSE refs[q]
        BY <2>2 DEF IInv, TypeOK
      <3> QED BY <1>2, <1>3, <1>7, <2>1, <3>1 DEF IInv, RefsOK
    <2>4. refs' \in [Peers -> 0 .. 2]
      BY <2>1, <2>2 DEF IInv, TypeOK
    <2>5. \A q \in Peers : ChildHas(q)' = ChildHas(q)
      BY <1>2, <1>7 DEF ChildHas
    <2>6. CASE sock = p
      <3>1. UNCHANGED table
        BY <1>7, <2>1, <2>6 DEF Release
      <3>2. MainHas(p)' = MainHas(p)
        BY <1>3, <2>6 DEF MainHas
      <3>3. TablesOK'
        BY <1>2, <1>3, <2>5, <3>1, <3>2 DEF IInv, TablesOK
      <3> QED BY <1>5, <2>3, <2>4, <3>1, <3>3 DEF IInv, TypeOK
    <2>7. CASE sock # p
      <3>1. CloseIn(None, desc[p])
        BY <1>7, <2>1, <2>7 DEF Release
      <3>2. MainHas(p) /\ ~MainHas(p)'
        BY <1>1, <1>3, <1>7, <2>7 DEF MainHas
      <3>3. TablesOK'
        BY <1>2, <1>3, <2>5, <3>1, <3>2, ClosedInMain DEF IInv
      <3> QED BY <1>5, <1>6, <2>3, <2>4, <3>1, <3>3 DEF CloseIn
    <2> QED BY <2>6, <2>7
  <1>8. CASE server = "threads" /\ CloseIn(None, desc[p]) /\ UNCHANGED refs
    <2>1. sock # p
      <3>1. ASSUME sock = p PROVE FALSE
        <4>1. alive /\ main # "accept" /\ main # "release"
          BY <1>8, <3>1 DEF IInv, TypeOK, MainOK
        <4>2. main = "spawn" /\ worker[p] = "none"
          BY <3>1, <4>1 DEF IInv, TypeOK, MainOK
        <4> QED BY <1>1, <4>2
      <3> QED BY <3>1
    <2>2. MainHas(p) /\ ~MainHas(p)' /\ \A q \in Peers : ChildHas(q)' = ChildHas(q)
      BY <1>1, <1>2, <1>3, <1>8, <2>1 DEF MainHas, ChildHas
    <2>3. TablesOK'
      BY <1>2, <1>3, <1>8, <2>2, ClosedInMain DEF IInv
    <2>4. RefsOK'
      BY <1>2, <1>8 DEF RefsOK
    <2> QED BY <1>5, <1>6, <1>8, <2>3, <2>4 DEF CloseIn, IInv, TypeOK
  <1>9. CASE server = "fork" /\ table' = [table EXCEPT ![p] = NoFiles] /\ UNCHANGED refs
    <2>1. MainHas(p)' = MainHas(p)
      BY <1>3, <1>9 DEF MainHas
    <2>2. TablesOK'
      BY <1>2, <1>3, <1>9, <2>1, ChildEnds DEF IInv
    <2>3. RefsOK'
      BY <1>2, <1>9 DEF RefsOK
    <2>4. NoFiles \in [ConnFds -> Peers \cup {None}]
      BY DEF NoFiles
    <2>5. table' \in [Peers \cup {None} -> [ConnFds -> Peers \cup {None}]]
      BY <1>9, <2>4 DEF IInv, TypeOK
    <2> QED BY <1>5, <1>9, <2>2, <2>3, <2>5 DEF IInv, TypeOK
  <1> QED BY <1>7, <1>8, <1>9 DEF Leave

LEMMA SendKillsStep == ASSUME IInv, NEW p \in Peers, SendKills(p) PROVE IInv'
  <1>1. Works(p) /\ UNCHANGED clientVars
    BY DEF SendKills, Works, Active
  <1>2. CASE server = "fork"
    <2>1. /\ table' = [table EXCEPT ![p] = NoFiles]
          /\ worker' = [worker EXCEPT ![p] = "ended"]
          /\ buf' = [buf EXCEPT ![p] = <<>>]
          /\ UNCHANGED <<server, desc, refs, main, sock, alive>>
      BY <1>2 DEF SendKills
    <2>2. /\ ClientsTypeOK' /\ QueueOK' /\ MainOK' /\ WorkersOK'
          /\ ~Works(p)' /\ ~ChildHas(p)' /\ MainHas(p)' = (sock = p)
          /\ \A q \in Peers : q # p => MainHas(q)' = MainHas(q) /\ ChildHas(q)' = ChildHas(q)
          /\ worker' \in [Peers -> {"none", "ended"} \cup Active]
      BY <1>1, <2>1, WorkerEnds
    <2>3. MainHas(p)' = MainHas(p)
      BY <1>2, <2>2 DEF MainHas
    <2>4. TablesOK'
      BY <2>1, <2>2, <2>3, ChildEnds DEF IInv
    <2>5. BufOK' /\ RefsOK'
      BY <1>2, <2>1 DEF IInv, TypeOK, BufOK, RefsOK
    <2>6. NoFiles \in [ConnFds -> Peers \cup {None}]
      BY DEF NoFiles
    <2>7. TypeOK'
      <3>1. table' \in [Peers \cup {None} -> [ConnFds -> Peers \cup {None}]]
        BY <2>1, <2>6 DEF IInv, TypeOK
      <3>2. buf' \in [Peers -> Seq(Bytes)]
        BY <2>1 DEF IInv, TypeOK
      <3> QED BY <2>1, <2>2, <3>1, <3>2 DEF IInv, TypeOK
    <2> QED BY <2>2, <2>4, <2>5, <2>7 DEF IInv
  <1>3. CASE server # "fork"
    BY <1>1, <1>3, MainEndsStep DEF SendKills
  <1> QED BY <1>2, <1>3

LEMMA NextIInv == IInv /\ [Next]_vars => IInv'
  <1> SUFFICES ASSUME IInv, [Next]_vars PROVE IInv'
    OBVIOUS
  <1>1. CASE Accept BY <1>1, AcceptStep
  <1>2. CASE AcceptFails \/ SpawnFails BY <1>2, MainEndsStep DEF AcceptFails, SpawnFails
  <1>3. CASE Spawn BY <1>3, SpawnStep
  <1>4. CASE MainReleases BY <1>4, MainReleasesStep
  <1>5. ASSUME NEW p \in Peers, Worker(p) PROVE IInv'
    BY <1>5, RecvStep, SendStep, SendFailsStep, SendKillsStep, LeaveStep DEF Worker
  <1>6. CASE ClientMoves BY <1>6, ClientMovesStep
  <1>7. CASE UNCHANGED vars
    <2>1. /\ UNCHANGED <<server, table, desc, refs, worker, buf, main, sock, alive>>
          /\ UNCHANGED <<phase, nsent, inq, echoed, unread, fin, dead, err, queue>>
      BY <1>7 DEF vars, serverVars, clientVars
    <2>2. TypeOK' /\ QueueOK'
      BY <2>1 DEF IInv, TypeOK, ClientsTypeOK, QueueOK
    <2>3. (MainOK /\ WorkersOK /\ TablesOK /\ RefsOK /\ BufOK)'
      BY <2>1 DEF IInv, MainOK, WorkersOK, TablesOK, RefsOK, BufOK, MainHas, ChildHas, Owners,
                  Works, Waiting, Queued
    <2> QED BY <2>2, <2>3 DEF IInv
  <1> QED BY <1>1, <1>2, <1>3, <1>4, <1>5, <1>6, <1>7 DEF Next, Main

LEMMA Inductive == Spec => []IInv
  BY InitIInv, NextIInv, PTL DEF Spec

(* Type correctness: reference counts stay between none and two, and main() *)
(* and the workers use only descriptors that they have been given.          *)
THEOREM TypeCorrect == Spec => []TypeOK
  <1>1. IInv => TypeOK
    BY DEF IInv
  <1> QED BY <1>1, Inductive, PTL

\* The connection of p is open while somebody has it.
LEMMA OpenIs == ASSUME IInv, NEW p \in Peers PROVE IsOpen(p) <=> Has(p)
  <1>1. Has(p) <=> MainHas(p) \/ ChildHas(p)
    BY DEF Has, MainHas, ChildHas
  <1>2. ASSUME MainHas(p) \/ ChildHas(p) PROVE IsOpen(p)
    <2>1. \E q \in {None, p} : \E f \in ConnFds : table[q][f] = p
      BY <1>2 DEF IInv, TablesOK
    <2> QED BY <2>1 DEF IsOpen
  <1>3. ASSUME IsOpen(p) PROVE MainHas(p) \/ ChildHas(p)
    <2>1. PICK q \in Peers \cup {None}, f \in ConnFds : table[q][f] = p
      BY <1>3 DEF IsOpen
    <2>2. CASE q = None
      BY <2>1, <2>2 DEF IInv, TablesOK
    <2>3. CASE q \in Peers
      <3>1. p # None
        OBVIOUS
      <3> QED BY <2>1, <2>3, <3>1 DEF IInv, TablesOK
    <2> QED BY <2>2, <2>3
  <1> QED BY <1>1, <1>2, <1>3

(* A connection is open exactly as long as main() or its worker has it,     *)
(* whichever of the two is done first; and no child has another's.          *)
THEOREM NobodyKeepsIt == Spec => []SharedOwnership
  <1>1. IInv => SharedOwnership
    <2> SUFFICES ASSUME IInv, NEW p \in Peers
                 PROVE  /\ worker[p] \in Active => Remote(p) = p
                        /\ IsOpen(p) <=> sock = p \/ worker[p] \in Active
                        /\ \A q \in Peers : \A f \in ConnFds : table[q][f] = p => q = p
      BY DEF SharedOwnership
    <2>1. worker[p] \in Active => Remote(p) = p
      BY RemoteIs DEF Works
    <2>2. IsOpen(p) <=> sock = p \/ worker[p] \in Active
      BY OpenIs DEF Has, Works
    <2>3. \A q \in Peers : \A f \in ConnFds : table[q][f] = p => q = p
      <3>1. p # None
        OBVIOUS
      <3> QED BY <3>1 DEF IInv, TablesOK
    <2> QED BY <2>1, <2>2, <2>3
  <1> QED BY <1>1, Inductive, PTL

----------------------------------------------------------------------------
(* Each of the three servers implements the echo service. *)

\* The client has ended its side, and has everything back if it still reads.
Done(p) == SideOf(p) # "open" /\ (SideOf(p) = "half" => echoed[p] = SentBytes(p))

\* No byte of a worker's client is lost while its connection lasts, and a
\* worker that is about to go, or has gone, owes its client nothing.
FlowInv ==
  /\ EndsOK
  /\ \A p \in Peers : worker[p] # "ended" => Flow(buf[p], p)
  /\ \A p \in Peers : worker[p] \in {"leave", "ended"} /\ Has(p) => Done(p)

OpenOK == \A p \in Peers : IsOpen(p) <=> Has(p)

LEMMA OpenNow == IInv => OpenOK
  BY OpenIs DEF OpenOK

LEMMA OpenNext == IInv' => OpenOK'
  BY OpenNow, PTL

Link == [p \in Peers |-> LinkOf(p, IsOpen(p))]
Side == [p \in Peers |-> SideOf(p)]
Sent == [p \in Peers |-> SentBytes(p)]

LEMMA Mapping ==
  /\ Echo!vars = <<Link, Side, Sent, echoed, alive>>
  /\ Echo!vars' = <<Link', Side', Sent', echoed', alive'>>
  BY DEF Echo!vars, Link, Side, Sent

LEMMA LinkIs ==
  ASSUME IInv, IInv', NEW p \in Peers
  PROVE  /\ Link[p] = IF Has(p) THEN "up" ELSE IF Waiting(p) THEN "none" ELSE "ended"
         /\ Link'[p] = IF Has(p)' THEN "up" ELSE IF Waiting(p)' THEN "none" ELSE "ended"
         /\ Has(p) => ~Waiting(p)
  <1>1. (IsOpen(p) <=> Has(p)) /\ (IsOpen(p)' <=> Has(p)')
    BY OpenNow, OpenNext DEF OpenOK
  <1>2. Has(p) => ~Waiting(p)
    BY DEF IInv, WorkersOK, Has
  <1> QED BY <1>1, <1>2 DEF Link, LinkOf, Waiting

LEMMA SameLink ==
  ASSUME IInv, IInv',
         \A q \in Peers : (Has(q)' <=> Has(q)) /\ Waiting(q)' = Waiting(q)
  PROVE  Link' = Link
  <1>1. \A q \in Peers : Link'[q] = Link[q]
    BY LinkIs
  <1> QED BY <1>1 DEF Link

LEMMA SameService ==
  ASSUME ServiceSame
  PROVE  Side' = Side /\ Sent' = Sent
  BY DEF ServiceSame, Side, Sent

LEMMA DoneStays ==
  ASSUME ServiceSame, UNCHANGED echoed, NEW p \in Peers
  PROVE  Done(p)' = Done(p)
  BY DEF ServiceSame, Done

LEMMA QueueStays ==
  ASSUME UNCHANGED <<phase, queue>> PROVE \A q \in Peers : Waiting(q)' = Waiting(q)
  BY DEF Waiting, Queued

LEMMA FlowStays ==
  ASSUME NEW p \in Peers, IInv, Flow(buf[p], p), UNCHANGED buf,
         \A h \in Seq(Bytes) : Flow(h, p) => Flow(h, p)'
  PROVE  Flow(buf[p], p)'
  <1>1. PICK h \in Seq(Bytes) : h = buf[p]
    BY DEF IInv, TypeOK
  <1>2. Flow(h, p)'
    BY <1>1
  <1> QED BY <1>1, <1>2 DEF Flow

\* Nobody but the server knows of the step.
LEMMA Stutters ==
  ASSUME IInv, IInv', ServiceSame, UNCHANGED <<phase, queue, echoed, alive>>,
         \A q \in Peers : Has(q)' <=> Has(q)
  PROVE  UNCHANGED Echo!vars
  <1>1. Link' = Link
    BY QueueStays, SameLink
  <1> QED BY <1>1, SameService, Mapping

LEMMA InitMaps == Init => FlowInv /\ Echo!Init
  <1> SUFFICES ASSUME Init PROVE FlowInv /\ Echo!Init
    OBVIOUS
  <1>1. EndsOK /\ \A p \in Peers : Flow(<<>>, p) /\ Waiting(p)
    BY InitFlow DEF Init
  <1>2. \A p \in Peers : buf[p] = <<>> /\ worker[p] = "none"
    BY DEF Init
  <1>3. FlowInv
    BY <1>1, <1>2 DEF FlowInv
  <1>4. Link = [p \in Peers |-> "none"]
    <2>1. \A p \in Peers : ~IsOpen(p)
      BY DEF Init, IsOpen, NoFiles
    <2> QED BY <1>1, <2>1 DEF Link, LinkOf, Waiting
  <1>5. Side = [p \in Peers |-> "open"]
    BY DEF Init, ClientsInit, Side, SideOf
  <1>6. Sent = [p \in Peers |-> <<>>]
    BY DEF Init, ClientsInit, Sent, SentBytes
  <1>7. Echo!Init
    BY <1>4, <1>5, <1>6 DEF Init, ClientsInit, Echo!Init, Link, Side, Sent
  <1> QED BY <1>3, <1>7

Serves == FlowInv' /\ (Echo!Next \/ UNCHANGED Echo!vars)

\* One owner gives the connection of p up.
LEMMA OwnerGoes ==
  ASSUME IInv, IInv', FlowInv, NEW p \in Peers, Has(p), ~Has(p)' => Done(p),
         \A q \in Peers \ {p} : Has(q)' <=> Has(q),
         UNCHANGED clientVars, UNCHANGED alive
  PROVE  Echo!Next \/ UNCHANGED Echo!vars
  <1>1. UNCHANGED <<phase, nsent, inq, echoed, unread, fin, dead, err, queue>>
    BY DEF clientVars
  <1>2. ServiceSame
    BY <1>1, QuietFlow DEF FlowInv
  <1>3. CASE Has(p)'
    BY <1>1, <1>2, <1>3, Stutters
  <1>4. CASE ~Has(p)'
    <2>1. Link[p] = "up" /\ Link'[p] = "ended" /\ \A q \in Peers \ {p} : Link'[q] = Link[q]
      BY <1>1, <1>4, LinkIs, QueueStays
    <2>2. Link' = [Link EXCEPT ![p] = "ended"]
      BY <2>1 DEF Link
    <2>3. Side[p] = SideOf(p) /\ Sent[p] = SentBytes(p) /\ Done(p)
      BY <1>4 DEF Side, Sent
    <2>4. Echo!End(p)
      BY <1>1, <1>2, <2>1, <2>2, <2>3, SameService DEF Echo!End, Link, Side, Sent, Done
    <2> QED BY <2>4 DEF Echo!Next
  <1> QED BY <1>3, <1>4

LEMMA MainEndsServes ==
  ASSUME IInv, IInv', FlowInv, MainEnds, alive, UNCHANGED clientVars
  PROVE  Serves
  <1>1. UNCHANGED <<phase, nsent, inq, echoed, unread, fin, dead, err, queue>>
    BY DEF clientVars
  <1>2. ServiceSame /\ \A q \in Peers : \A h \in Seq(Bytes) : Flow(h, q) => Flow(h, q)'
    BY <1>1, QuietFlow DEF FlowInv
  <1>3. \A q \in Peers : Has(q)' => Has(q)
    BY DEF MainEnds, Has, Works, Active, IInv, TypeOK
  <1>4. FlowInv'
    <2>1. CASE server = "fork"
      <3>1. UNCHANGED <<worker, buf>>
        BY <2>1 DEF MainEnds
      <3>2. \A q \in Peers : worker'[q] # "ended" => Flow(buf[q], q)'
        BY <1>2, <3>1, FlowStays DEF FlowInv
      <3>3. \A q \in Peers : worker'[q] \in {"leave", "ended"} /\ Has(q)' => Done(q)'
        BY <1>1, <1>2, <1>3, <3>1, DoneStays DEF FlowInv
      <3> QED BY <1>2, <3>2, <3>3 DEF FlowInv, ServiceSame
    <2>2. CASE server # "fork"
      <3>1. \A q \in Peers : worker'[q] = "ended" /\ ~Has(q)'
        BY <2>2 DEF MainEnds, Has, Works, Active
      <3> QED BY <1>2, <3>1 DEF FlowInv, ServiceSame
    <2> QED BY <2>1, <2>2
  <1>5. PICK gone \in SUBSET Peers : gone = {q \in Peers : Has(q) /\ ~Has(q)'}
    OBVIOUS
  <1>6. \A q \in Peers : /\ Link'[q] = IF q \in gone THEN "ended" ELSE Link[q]
                         /\ q \in gone => Link[q] = "up"
    BY <1>1, <1>3, <1>5, LinkIs, QueueStays
  <1>7. Link' = [q \in Peers |-> IF q \in gone THEN "ended" ELSE Link[q]]
    BY <1>6 DEF Link
  <1>8. gone \in SUBSET {q \in Peers : Link[q] = "up"}
    BY <1>6
  <1>9. alive' = FALSE
    BY DEF MainEnds
  <1>10. Echo!Stop
    BY <1>1, <1>2, <1>7, <1>8, <1>9, SameService DEF Echo!Stop, Link, Side, Sent
  <1> QED BY <1>4, <1>10 DEF Serves, Echo!Next

LEMMA AcceptServes ==
  ASSUME IInv, IInv', FlowInv, Accept
  PROVE  Serves
  <1>1. PICK p : p = Head(queue)
    OBVIOUS
  <1>2. /\ alive /\ sock = None /\ sock' = p /\ queue # <<>> /\ queue' = Tail(queue)
        /\ UNCHANGED <<phase, nsent, inq, echoed, unread, fin, dead, err>>
        /\ UNCHANGED <<worker, buf, alive>>
    BY <1>1 DEF Accept, IInv, MainOK
  <1>3. /\ p \in Peers /\ Waiting(p) /\ ~Waiting(p)'
        /\ \A q \in Peers \ {p} : Waiting(q)' = Waiting(q)
    BY <1>1, <1>2, AcceptEndsWait DEF IInv, TypeOK
  <1>4. ~Has(p) /\ Has(p)' /\ \A q \in Peers \ {p} : Has(q)' <=> Has(q)
    BY <1>2, <1>3 DEF IInv, WorkersOK, Has, Works
  <1>5. ServiceSame /\ \A q \in Peers : \A h \in Seq(Bytes) : Flow(h, q) => Flow(h, q)'
    BY <1>2, QuietFlow DEF FlowInv
  <1>6. FlowInv'
    <2>1. \A q \in Peers : worker'[q] # "ended" => Flow(buf[q], q)'
      BY <1>2, <1>5, FlowStays DEF FlowInv
    <2>2. worker'[p] = "none"
      BY <1>2, <1>3 DEF IInv, WorkersOK
    <2>3. \A q \in Peers : worker'[q] \in {"leave", "ended"} /\ Has(q)' => Done(q)'
      BY <1>2, <1>4, <1>5, <2>2, DoneStays DEF FlowInv
    <2> QED BY <1>5, <2>1, <2>3 DEF FlowInv, ServiceSame
  <1>7. Link[p] = "none" /\ Link'[p] = "up" /\ \A q \in Peers \ {p} : Link'[q] = Link[q]
    BY <1>3, <1>4, LinkIs
  <1>8. Link' = [Link EXCEPT ![p] = "up"]
    BY <1>3, <1>7 DEF Link
  <1>9. Echo!Accept(p)
    BY <1>2, <1>5, <1>7, <1>8, SameService DEF Echo!Accept, Link, Side, Sent
  <1> QED BY <1>3, <1>6, <1>9 DEF Serves, Echo!Next

LEMMA SpawnServes ==
  ASSUME IInv, IInv', FlowInv, Spawn
  PROVE  Serves
  <1>1. PICK p : p = sock
    OBVIOUS
  <1>2. /\ alive /\ main = "spawn" /\ sock = p
        /\ worker' = [worker EXCEPT ![p] = "recv"]
        /\ sock' = None \/ sock' = p
        /\ UNCHANGED clientVars /\ UNCHANGED <<buf, alive>>
    BY <1>1 DEF Spawn
  <1>3. p \in Peers /\ worker[p] = "none"
    BY <1>2 DEF IInv, TypeOK, MainOK
  <1>4. UNCHANGED <<phase, nsent, inq, echoed, unread, fin, dead, err, queue>>
    BY <1>2 DEF clientVars
  <1>5. ServiceSame /\ \A q \in Peers : \A h \in Seq(Bytes) : Flow(h, q) => Flow(h, q)'
    BY <1>4, QuietFlow DEF FlowInv
  <1>6. \A q \in Peers : worker'[q] = IF q = p THEN "recv" ELSE worker[q]
    BY <1>2 DEF IInv, TypeOK
  <1>7. \A q \in Peers : Has(q)' <=> Has(q)
    BY <1>2, <1>3, <1>6 DEF Has, Works, Active
  <1>8. FlowInv'
    <2>1. \A q \in Peers : worker'[q] # "ended" => Flow(buf[q], q)'
      BY <1>2, <1>3, <1>5, <1>6, FlowStays DEF FlowInv
    <2>2. \A q \in Peers : worker'[q] \in {"leave", "ended"} /\ Has(q)' => Done(q)'
      BY <1>4, <1>5, <1>6, <1>7, DoneStays DEF FlowInv
    <2> QED BY <1>5, <2>1, <2>2 DEF FlowInv, ServiceSame
  <1> QED BY <1>2, <1>4, <1>5, <1>7, <1>8, Stutters DEF Serves

LEMMA MainReleasesServes ==
  ASSUME IInv, IInv', FlowInv, MainReleases
  PROVE  Serves
  <1>1. PICK p : p = sock
    OBVIOUS
  <1>2. /\ alive /\ main = "release" /\ sock = p /\ sock' = None
        /\ UNCHANGED clientVars /\ UNCHANGED <<worker, buf, alive>>
    BY <1>1 DEF MainReleases
  <1>3. p \in Peers /\ worker[p] # "none"
    BY <1>2 DEF IInv, TypeOK, MainOK
  <1>4. /\ Has(p) /\ (Has(p)' <=> Works(p))
        /\ \A q \in Peers \ {p} : Has(q)' <=> Has(q)
    BY <1>2, <1>3 DEF Has, Works
  <1>5. ~Has(p)' => Done(p)
    <2>1. worker[p] \in {"none", "ended"} \cup Active
      BY <1>3 DEF IInv, TypeOK
    <2> QED BY <1>3, <1>4, <2>1 DEF FlowInv, Works
  <1>6. UNCHANGED <<phase, nsent, inq, echoed, unread, fin, dead, err, queue>>
    BY <1>2 DEF clientVars
  <1>7. ServiceSame /\ \A q \in Peers : \A h \in Seq(Bytes) : Flow(h, q) => Flow(h, q)'
    BY <1>6, QuietFlow DEF FlowInv
  <1>8. FlowInv'
    <2>1. \A q \in Peers : worker'[q] # "ended" => Flow(buf[q], q)'
      BY <1>2, <1>7, FlowStays DEF FlowInv
    <2>2. \A q \in Peers : Has(q)' => Has(q)
      BY <1>4
    <2>3. \A q \in Peers : worker'[q] \in {"leave", "ended"} /\ Has(q)' => Done(q)'
      BY <1>2, <1>6, <1>7, <2>2, DoneStays DEF FlowInv
    <2> QED BY <1>7, <2>1, <2>3 DEF FlowInv, ServiceSame
  <1> QED BY <1>2, <1>3, <1>4, <1>5, <1>8, OwnerGoes DEF Serves

(* The steps of a worker. *)

\* What a step of the worker of p does not concern.
OthersFlow(p) ==
  /\ \A q \in Peers \ {p} : \A h \in Seq(Bytes) : Flow(h, q) => Flow(h, q)'
  /\ \A q \in Peers \ {p} : buf'[q] = buf[q]

LEMMA GoesOnFlow ==
  ASSUME IInv, IInv', FlowInv, NEW p \in Peers, Works(p), NEW w \in Active,
         worker' = [worker EXCEPT ![p] = w], UNCHANGED sock,
         ServiceSame, OthersFlow(p), Flow(buf[p], p)',
         \A q \in Peers \ {p} : echoed'[q] = echoed[q],
         w = "leave" => Done(p)'
  PROVE  FlowInv' /\ \A q \in Peers : Has(q)' <=> Has(q)
  <1>1. \A q \in Peers : worker'[q] = IF q = p THEN w ELSE worker[q]
    BY DEF IInv, TypeOK
  <1>2. \A q \in Peers : Has(q)' <=> Has(q)
    BY <1>1 DEF Has, Works
  <1>3. ASSUME NEW q \in Peers, worker'[q] # "ended" PROVE Flow(buf[q], q)'
    <2>1. CASE q = p
      BY <2>1
    <2>2. CASE q # p
      <3>1. PICK h \in Seq(Bytes) : h = buf[q]
        BY DEF IInv, TypeOK
      <3>2. Flow(h, q)
        BY <1>1, <1>3, <2>2, <3>1 DEF FlowInv
      <3>3. Flow(h, q)' /\ buf'[q] = h
        BY <2>2, <3>1, <3>2 DEF OthersFlow
      <3> QED BY <3>3 DEF Flow
    <2> QED BY <2>1, <2>2
  <1>4. ASSUME NEW q \in Peers, worker'[q] \in {"leave", "ended"}, Has(q)' PROVE Done(q)'
    <2>1. CASE q = p
      BY <1>1, <1>4, <2>1 DEF Active
    <2>2. CASE q # p
      <3>1. Done(q)
        BY <1>1, <1>2, <1>4, <2>2 DEF FlowInv
      <3> QED BY <2>2, <3>1 DEF Done, ServiceSame
    <2> QED BY <2>1, <2>2
  <1> QED BY <1>2, <1>3, <1>4 DEF FlowInv, ServiceSame

LEMMA RecvServes ==
  ASSUME IInv, IInv', FlowInv, NEW p \in Peers, Recv(p)
  PROVE  Serves
  <1>1. Works(p) /\ worker[p] = "recv"
    BY DEF Recv, Works, Active
  <1>2. Remote(p) = p /\ buf[p] = <<>>
    BY <1>1, RemoteIs DEF IInv, BufOK
  <1>3. UNCHANGED <<sock, alive>>
    BY DEF Recv
  <1>4. Flow(<<>>, p)
    BY <1>1, <1>2 DEF FlowInv
  <1>5. CASE /\ RecvTakes(p)
             /\ buf' = [buf EXCEPT ![p] = Received(p)]
             /\ worker' = [worker EXCEPT ![p] = "send"]
    <2>1. PICK h : h = Received(p)
      OBVIOUS
    <2>2. /\ Flow(h, p)'
          /\ \A q \in Peers \ {p} : \A g \in Seq(Bytes) : Flow(g, q) => Flow(g, q)'
          /\ ServiceSame /\ UNCHANGED <<phase, queue, echoed>>
      BY <1>4, <1>5, <2>1, RecvFlow DEF IInv, TypeOK, FlowInv
    <2>3. buf'[p] = h /\ OthersFlow(p)
      BY <1>5, <2>1, <2>2 DEF IInv, TypeOK, OthersFlow
    <2>4. Flow(buf[p], p)'
      BY <2>2, <2>3 DEF Flow
    <2>5. FlowInv' /\ \A q \in Peers : Has(q)' <=> Has(q)
      BY <1>1, <1>3, <1>5, <2>2, <2>3, <2>4, GoesOnFlow DEF Active
    <2> QED BY <1>3, <2>2, <2>5, Stutters DEF Serves
  <1>6. CASE /\ RecvResult(p) \in {"eof", "ECONNRESET", "ETIMEDOUT"}
             /\ UNCHANGED clientVars \/ ErrorReported(p)
             /\ UNCHANGED buf
             /\ worker' = [worker EXCEPT ![p] = "leave"]
    <2>1. /\ \A q \in Peers : \A h \in Seq(Bytes) : Flow(h, q) => Flow(h, q)'
          /\ ServiceSame /\ UNCHANGED <<phase, queue, echoed>>
      <3>1. CASE UNCHANGED clientVars
        <4>1. UNCHANGED <<phase, nsent, inq, echoed, unread, fin, dead, err, queue>>
          BY <3>1 DEF clientVars
        <4> QED BY <4>1, QuietFlow DEF FlowInv
      <3>2. CASE ErrorReported(p)
        BY <3>2, ErrorFlow DEF IInv, TypeOK, FlowInv
      <3> QED BY <1>6, <3>1, <3>2
    <2>2. Done(p)
      BY <1>4, <1>6, EndReported DEF IInv, TypeOK, FlowInv, Done
    <2>3. Done(p)'
      BY <2>1, <2>2, DoneStays
    <2>4. OthersFlow(p)
      BY <1>6, <2>1 DEF OthersFlow
    <2>5. Flow(buf[p], p)'
      BY <1>2, <1>4, <1>6, <2>1, FlowStays
    <2>6. FlowInv' /\ \A q \in Peers : Has(q)' <=> Has(q)
      BY <1>1, <1>3, <1>6, <2>1, <2>3, <2>4, <2>5, GoesOnFlow DEF Active
    <2> QED BY <1>3, <2>1, <2>6, Stutters DEF Serves
  <1> QED BY <1>2, <1>5, <1>6 DEF Recv

\* What send() takes of the buffer is the next part of what the client sent.
LEMMA SendServes ==
  ASSUME IInv, IInv', FlowInv, NEW p \in Peers, Send(p)
  PROVE  Serves
  <1>1. Works(p) /\ worker[p] = "send"
    BY DEF Send, Works, Active
  <1>2. Remote(p) = p
    BY <1>1, RemoteIs
  <1>3. UNCHANGED <<sock, alive>> /\ SendResult(p) = "sent"
    BY <1>2 DEF Send
  <1>4. PICK b \in Seq(Bytes) : b = buf[p]
    BY DEF IInv, TypeOK
  <1>5. PICK n \in 1 .. Len(b) :
          SendTakes(p, b, n) /\ buf' = [buf EXCEPT ![p] = SubSeq(b, n + 1, Len(b))]
    BY <1>2, <1>4 DEF Send
  <1>6. Flow(b, p) /\ ~dead[p]
    BY <1>1, <1>3, <1>4 DEF FlowInv, SendResult
  <1>7. /\ Flow(SubSeq(b, n + 1, Len(b)), p)'
        /\ \A q \in Peers \ {p} : \A h \in Seq(Bytes) : Flow(h, q) => Flow(h, q)'
        /\ \E m \in Len(echoed[p]) + 1 .. Len(SentBytes(p)) :
             echoed' = [echoed EXCEPT ![p] = SubSeq(SentBytes(p), 1, m)]
        /\ ServiceSame /\ UNCHANGED <<phase, queue>>
    BY <1>5, <1>6, SendTakesFlow DEF IInv, TypeOK, FlowInv
  <1>8. \A q \in Peers \ {p} : echoed'[q] = echoed[q]
    BY <1>7 DEF IInv, TypeOK, ClientsTypeOK
  <1>9. PICK w \in {"recv", "send"} : worker' = [worker EXCEPT ![p] = w]
    <2>1. worker' = IF buf'[p] = <<>> THEN [worker EXCEPT ![p] = "recv"] ELSE worker
      BY DEF Send
    <2>2. worker = [worker EXCEPT ![p] = "send"]
      BY <1>1 DEF IInv, TypeOK
    <2> QED BY <2>1, <2>2
  <1>10. OthersFlow(p) /\ Flow(buf[p], p)'
    <2>1. PICK h : h = SubSeq(b, n + 1, Len(b))
      OBVIOUS
    <2>2. buf'[p] = h /\ \A q \in Peers \ {p} : buf'[q] = buf[q]
      BY <1>5, <2>1 DEF IInv, TypeOK
    <2>3. Flow(h, p)'
      BY <1>7, <2>1 DEF Flow
    <2> QED BY <1>7, <2>2, <2>3 DEF OthersFlow, Flow
  <1>11. FlowInv' /\ \A q \in Peers : Has(q)' <=> Has(q)
    BY <1>1, <1>3, <1>7, <1>8, <1>9, <1>10, GoesOnFlow DEF Active
  <1>12. Link' = Link /\ Link[p] = "up"
    <2>1. Link' = Link
      BY <1>7, <1>11, QueueStays, SameLink
    <2> QED BY <1>1, <2>1, LinkIs DEF Has
  <1>13. Echo!Echo(p)
    BY <1>3, <1>7, <1>12, SameService DEF Echo!Echo, Link, Side, Sent
  <1> QED BY <1>11, <1>13 DEF Serves, Echo!Next

\* An error is reported, and the rest of the buffer is lost with the connection.
LEMMA SendFailsServes ==
  ASSUME IInv, IInv', FlowInv, NEW p \in Peers, SendFails(p)
  PROVE  Serves
  <1>1. Works(p) /\ worker[p] = "send"
    BY DEF SendFails, Works, Active
  <1>2. Remote(p) = p
    BY <1>1, RemoteIs
  <1>3. /\ UNCHANGED <<sock, alive>> /\ ErrorReported(p) /\ dead[p]
        /\ buf' = [buf EXCEPT ![p] = <<>>]
    BY <1>2 DEF SendFails, SendResult
  <1>4. PICK w \in {"leave", "recv"} : worker' = [worker EXCEPT ![p] = w]
    BY DEF SendFails
  <1>5. /\ \A q \in Peers : \A h \in Seq(Bytes) : Flow(h, q) => Flow(h, q)'
        /\ ServiceSame /\ UNCHANGED <<phase, queue, echoed>>
    BY <1>3, ErrorFlow DEF FlowInv, IInv, TypeOK
  <1>6. OthersFlow(p) /\ Flow(buf[p], p)'
    <2>1. dead'[p]
      BY <1>3 DEF ErrorReported
    <2>2. Flow(buf[p], p)'
      BY <2>1 DEF Flow
    <2> QED BY <1>3, <1>5, <2>2 DEF OthersFlow, IInv, TypeOK
  <1>7. Done(p)'
    <2>1. Done(p)
      BY <1>3 DEF FlowInv, EndsOK, Done, SideOf
    <2> QED BY <1>5, <2>1, DoneStays
  <1>8. FlowInv' /\ \A q \in Peers : Has(q)' <=> Has(q)
    BY <1>1, <1>3, <1>4, <1>5, <1>6, <1>7, GoesOnFlow DEF Active
  <1> QED BY <1>3, <1>5, <1>8, Stutters DEF Serves

LEMMA WorkerEndsServes ==
  ASSUME IInv, IInv', FlowInv, NEW p \in Peers, Works(p), Done(p),
         worker' = [worker EXCEPT ![p] = "ended"],
         \A q \in Peers \ {p} : buf'[q] = buf[q],
         UNCHANGED clientVars, UNCHANGED <<sock, alive>>
  PROVE  Serves
  <1>1. UNCHANGED <<phase, nsent, inq, echoed, unread, fin, dead, err, queue>>
    BY DEF clientVars
  <1>2. ServiceSame /\ \A q \in Peers : \A h \in Seq(Bytes) : Flow(h, q) => Flow(h, q)'
    BY <1>1, QuietFlow DEF FlowInv
  <1>3. \A q \in Peers : worker'[q] = IF q = p THEN "ended" ELSE worker[q]
    BY DEF IInv, TypeOK
  <1>4. Has(p) /\ \A q \in Peers \ {p} : Has(q)' <=> Has(q)
    BY <1>3 DEF Has, Works
  <1>5. ASSUME NEW q \in Peers, worker'[q] # "ended" PROVE Flow(buf[q], q)'
    <2>1. q # p /\ worker[q] # "ended"
      BY <1>3, <1>5
    <2>2. PICK h \in Seq(Bytes) : h = buf[q]
      BY DEF IInv, TypeOK
    <2>3. Flow(h, q)' /\ buf'[q] = h
      BY <1>2, <2>1, <2>2 DEF FlowInv
    <2> QED BY <2>3 DEF Flow
  <1>6. ASSUME NEW q \in Peers, worker'[q] \in {"leave", "ended"}, Has(q)' PROVE Done(q)'
    <2>1. Done(q)
      BY <1>3, <1>4, <1>6 DEF FlowInv
    <2> QED BY <1>1, <1>2, <2>1, DoneStays
  <1>7. FlowInv'
    BY <1>2, <1>5, <1>6 DEF FlowInv, ServiceSame
  <1> QED BY <1>4, <1>7, OwnerGoes DEF Serves

LEMMA LeaveServes ==
  ASSUME IInv, IInv', FlowInv, NEW p \in Peers, Leave(p)
  PROVE  Serves
  <1>1. /\ Works(p) /\ worker[p] = "leave"
        /\ worker' = [worker EXCEPT ![p] = "ended"]
        /\ UNCHANGED clientVars /\ UNCHANGED <<buf, sock, alive>>
    BY DEF Leave, Works, Active
  <1>2. Done(p)
    BY <1>1 DEF FlowInv, Has
  <1> QED BY <1>1, <1>2, WorkerEndsServes

LEMMA SendKillsServes ==
  ASSUME IInv, IInv', FlowInv, NEW p \in Peers, SendKills(p)
  PROVE  Serves
  <1>1. Works(p) /\ UNCHANGED clientVars
    BY DEF SendKills, Works, Active
  <1>2. Remote(p) = p /\ (alive \/ server = "fork")
    BY <1>1, RemoteIs
  <1>3. dead[p]
    BY <1>2 DEF SendKills, SendResult
  <1>4. CASE server = "fork"
    <2>1. /\ worker' = [worker EXCEPT ![p] = "ended"]
          /\ buf' = [buf EXCEPT ![p] = <<>>]
          /\ UNCHANGED <<sock, alive>>
      BY <1>4 DEF SendKills
    <2>2. \A q \in Peers \ {p} : buf'[q] = buf[q]
      BY <2>1 DEF IInv, TypeOK
    <2>3. Done(p)
      BY <1>3 DEF FlowInv, EndsOK, Done, SideOf
    <2> QED BY <1>1, <2>1, <2>2, <2>3, WorkerEndsServes
  <1>5. CASE server # "fork"
    BY <1>1, <1>2, <1>5, MainEndsServes DEF SendKills
  <1> QED BY <1>4, <1>5

LEMMA ClientMovesServe ==
  ASSUME IInv, IInv', FlowInv, ClientMoves
  PROVE  Serves
  <1>1. UNCHANGED <<server, table, desc, refs, worker, buf, main, sock, alive>>
    BY DEF ClientMoves, serverVars
  <1>2. PICK p \in Peers : ClientFlow(p)
    BY ClientStepFlow DEF ClientMoves, IInv, TypeOK, FlowInv
  <1>3. ASSUME NEW q \in Peers, worker'[q] # "ended" PROVE Flow(buf[q], q)'
    <2>1. Flow(buf[q], q)
      BY <1>1, <1>3 DEF FlowInv
    <2> QED BY <1>1, <1>2, <2>1, FlowStays DEF ClientFlow
  <1>4. \A q \in Peers : (Has(q)' <=> Has(q)) /\ Waiting(q)' = Waiting(q)
    BY <1>1, <1>2 DEF ClientFlow, Has, Works
  <1>5. ASSUME NEW q \in Peers, worker'[q] \in {"leave", "ended"}, Has(q)' PROVE Done(q)'
    <2>1. Done(q)
      BY <1>1, <1>4, <1>5 DEF FlowInv
    <2>2. CASE q # p
      BY <1>2, <2>1, <2>2 DEF Done, ClientFlow, ServiceMove
    <2>3. CASE q = p
      <3>1. /\ SideOf(p) \in {"half", "gone"} /\ echoed'[p] = echoed[p]
            /\ SideOf(p) = "half" => echoed[p] = SentBytes(p)
        BY <1>2, <2>1, <2>3 DEF Done, ClientFlow, SideOf
      <3>2. \/ SideOf(p)' = SideOf(p) /\ SentBytes(p)' = SentBytes(p)
            \/ /\ SideOf(p) # "gone" /\ SideOf(p)' \in {"half", "gone"}
               /\ SentBytes(p)' = SentBytes(p)
        BY <1>2, <3>1 DEF ClientFlow, ServiceMove
      <3> QED BY <2>3, <3>1, <3>2 DEF Done
    <2> QED BY <2>2, <2>3
  <1>6. FlowInv'
    BY <1>2, <1>3, <1>5 DEF FlowInv, ClientFlow
  <1>7. Link' = Link /\ alive' = alive /\ echoed' = echoed
    BY <1>1, <1>2, <1>4, SameLink DEF ClientFlow
  <1>8. /\ \A q \in Peers \ {p} : Side'[q] = Side[q] /\ Sent'[q] = Sent[q]
        /\ \/ Side'[p] = Side[p] /\ Sent'[p] = Sent[p]
           \/ Side[p] # "gone" /\ Side'[p] \in {"half", "gone"} /\ Sent'[p] = Sent[p]
           \/ /\ Side[p] = "open" /\ Side'[p] = "open"
              /\ \E b \in Bytes : Sent'[p] = Append(Sent[p], b)
    BY <1>2 DEF ClientFlow, ServiceMove, Side, Sent
  <1>9. CASE Side'[p] = Side[p] /\ Sent'[p] = Sent[p]
    <2>1. Side' = Side /\ Sent' = Sent
      BY <1>8, <1>9 DEF Side, Sent
    <2> QED BY <1>6, <1>7, <2>1, Mapping DEF Serves
  <1>10. CASE Side[p] # "gone" /\ Side'[p] \in {"half", "gone"} /\ Sent'[p] = Sent[p]
    <2>1. Sent' = Sent /\ Side' = [Side EXCEPT ![p] = Side'[p]]
      BY <1>8, <1>10 DEF Side, Sent
    <2>2. Echo!Client(p)
      BY <1>7, <1>10, <2>1 DEF Echo!Client, Link, Side, Sent
    <2> QED BY <1>6, <2>2 DEF Serves, Echo!Next
  <1>11. CASE /\ Side[p] = "open" /\ Side'[p] = "open"
              /\ \E b \in Bytes : Sent'[p] = Append(Sent[p], b)
    <2>1. PICK b \in Bytes : Sent'[p] = Append(Sent[p], b)
      BY <1>11
    <2>2. Side' = Side /\ Sent' = [Sent EXCEPT ![p] = Append(Sent[p], b)]
      BY <1>8, <1>11, <2>1 DEF Side, Sent
    <2>3. Echo!Client(p)
      BY <1>7, <1>11, <2>1, <2>2 DEF Echo!Client, Link, Side, Sent
    <2> QED BY <1>6, <2>3 DEF Serves, Echo!Next
  <1> QED BY <1>8, <1>9, <1>10, <1>11

LEMMA NextServes == IInv /\ IInv' /\ FlowInv /\ [Next]_vars => Serves
  <1> SUFFICES ASSUME IInv, IInv', FlowInv, [Next]_vars PROVE Serves
    OBVIOUS
  <1>1. CASE Accept BY <1>1, AcceptServes
  <1>2. CASE AcceptFails \/ SpawnFails BY <1>2, MainEndsServes DEF AcceptFails, SpawnFails
  <1>3. CASE Spawn BY <1>3, SpawnServes
  <1>4. CASE MainReleases BY <1>4, MainReleasesServes
  <1>5. ASSUME NEW p \in Peers, Worker(p) PROVE Serves
    BY <1>5, RecvServes, SendServes, SendFailsServes, SendKillsServes, LeaveServes DEF Worker
  <1>6. CASE ClientMoves BY <1>6, ClientMovesServe
  <1>7. CASE UNCHANGED vars
    <2>1. /\ UNCHANGED <<phase, nsent, inq, echoed, unread, fin, dead, err, queue>>
          /\ UNCHANGED <<worker, buf, sock, alive>>
      BY <1>7 DEF vars, clientVars, serverVars
    <2>2. ServiceSame /\ \A q \in Peers : \A h \in Seq(Bytes) : Flow(h, q) => Flow(h, q)'
      BY <2>1, QuietFlow DEF FlowInv
    <2>3. \A q \in Peers : Has(q)' <=> Has(q)
      BY <2>1 DEF Has, Works
    <2>4. \A q \in Peers : worker'[q] # "ended" => Flow(buf[q], q)'
      BY <2>1, <2>2, FlowStays DEF FlowInv
    <2>5. \A q \in Peers : worker'[q] \in {"leave", "ended"} /\ Has(q)' => Done(q)'
      BY <2>1, <2>2, <2>3, DoneStays DEF FlowInv
    <2> QED BY <2>1, <2>2, <2>3, <2>4, <2>5, Stutters DEF Serves, FlowInv, ServiceSame
  <1> QED BY <1>1, <1>2, <1>3, <1>4, <1>5, <1>6, <1>7 DEF Next, Main

(* The three servers with a worker for each connection implement the echo   *)
(* service: each client gets back a prefix of what it has sent, in order    *)
(* and nobody else's, and loses its connection only after it has ended it,  *)
(* with every byte returned if it can still read, or with the process.      *)
THEOREM ImplementsEcho == Spec => EchoSpec
  <1>1. Init => FlowInv /\ Echo!Init
    BY InitMaps
  <1>2. IInv /\ IInv' /\ FlowInv /\ [Next]_vars => FlowInv' /\ [Echo!Next]_(Echo!vars)
    BY NextServes DEF Serves
  <1> QED BY <1>1, <1>2, Inductive, PTL DEF Spec, EchoSpec, Echo!Spec

----------------------------------------------------------------------------
(* What the service promises, and so the servers. *)

Kept ==
  /\ Link \in [Peers -> {"none", "up", "ended"}] /\ Side \in [Peers -> {"open", "half", "gone"}]
  /\ Sent \in [Peers -> Seq(Bytes)] /\ echoed \in [Peers -> Seq(Bytes)] /\ alive \in BOOLEAN
  /\ \A p \in Peers :
       /\ \E n \in 0 .. Len(Sent[p]) : echoed[p] = SubSeq(Sent[p], 1, n)
       /\ alive /\ Link[p] = "ended" => Side[p] # "open"
       /\ alive /\ Link[p] = "ended" /\ Side[p] = "half" => echoed[p] = Sent[p]

LEMMA KeptAtFirst == Echo!Init => Kept
  <1> SUFFICES ASSUME Echo!Init PROVE Kept
    OBVIOUS
  <1>1. /\ Link = [p \in Peers |-> "none"] /\ Side = [p \in Peers |-> "open"]
        /\ Sent = [p \in Peers |-> <<>>] /\ echoed = [p \in Peers |-> <<>>]
        /\ alive \in BOOLEAN
    BY DEF Echo!Init, Link, Side, Sent
  <1>2. <<>> \in Seq(Bytes) /\ Len(<<>>) = 0 /\ SubSeq(<<>>, 1, 0) = <<>>
    OBVIOUS
  <1>3. \A p \in Peers : \E n \in 0 .. Len(Sent[p]) : echoed[p] = SubSeq(Sent[p], 1, n)
    <2> TAKE p \in Peers
    <2>1. 0 \in 0 .. Len(Sent[p]) /\ echoed[p] = SubSeq(Sent[p], 1, 0)
      BY <1>1, <1>2
    <2> QED BY <2>1
  <1> QED BY <1>1, <1>2, <1>3 DEF Kept

LEMMA KeptByService == Kept /\ [Echo!Next]_(Echo!vars) => Kept'
  <1> SUFFICES ASSUME Kept, [Echo!Next]_(Echo!vars) PROVE Kept'
    OBVIOUS
  <1>1. CASE UNCHANGED Echo!vars
    <2>1. Link' = Link /\ Side' = Side /\ Sent' = Sent /\ echoed' = echoed /\ alive' = alive
      BY <1>1 DEF Echo!vars, Link, Side, Sent
    <2> QED BY <2>1 DEF Kept
  <1>2. CASE Echo!Stop
    <2>1. /\ Side' = Side /\ Sent' = Sent /\ echoed' = echoed /\ alive' = FALSE
          /\ \E gone \in SUBSET Peers : Link' = [p \in Peers |-> IF p \in gone THEN "ended" ELSE Link[p]]
      BY <1>2 DEF Echo!Stop, Link, Side, Sent
    <2> QED BY <2>1 DEF Kept
  <1>3. ASSUME NEW p \in Peers, Echo!Accept(p) PROVE Kept'
    <2>1. /\ Link' = [Link EXCEPT ![p] = "up"]
          /\ Side' = Side /\ Sent' = Sent /\ echoed' = echoed /\ alive' = alive
      BY <1>3 DEF Echo!Accept, Link, Side, Sent
    <2>2. Link' \in [Peers -> {"none", "up", "ended"}]
      BY <2>1 DEF Kept
    <2>3. \A q \in Peers : Link'[q] = "ended" => Link[q] = "ended"
      BY <2>1 DEF Kept
    <2> QED BY <2>1, <2>2, <2>3 DEF Kept
  <1>4. ASSUME NEW p \in Peers, Echo!End(p) PROVE Kept'
    <2>1. /\ Link' = [Link EXCEPT ![p] = "ended"] /\ Side[p] # "open"
          /\ Side[p] = "half" => echoed[p] = Sent[p]
          /\ Side' = Side /\ Sent' = Sent /\ echoed' = echoed /\ alive' = alive
      BY <1>4 DEF Echo!End, Link, Side, Sent
    <2>2. Link' \in [Peers -> {"none", "up", "ended"}]
      BY <2>1 DEF Kept
    <2>3. \A q \in Peers : q # p => Link'[q] = Link[q]
      BY <2>1 DEF Kept
    <2> QED BY <2>1, <2>2, <2>3 DEF Kept
  <1>5. ASSUME NEW p \in Peers, Echo!Echo(p) PROVE Kept'
    <2>1. /\ Link[p] = "up"
          /\ \E n \in Len(echoed[p]) + 1 .. Len(Sent[p]) :
               echoed' = [echoed EXCEPT ![p] = SubSeq(Sent[p], 1, n)]
          /\ Link' = Link /\ Side' = Side /\ Sent' = Sent /\ alive' = alive
      BY <1>5 DEF Echo!Echo, Link, Side, Sent
    <2>2. PICK n \in Len(echoed[p]) + 1 .. Len(Sent[p]) :
            echoed' = [echoed EXCEPT ![p] = SubSeq(Sent[p], 1, n)]
      BY <2>1
    <2>3. Sent[p] \in Seq(Bytes) /\ echoed[p] \in Seq(Bytes) /\ echoed \in [Peers -> Seq(Bytes)]
      BY DEF Kept
    <2>4. n \in 0 .. Len(Sent[p])
      BY <2>3
    <2>5. SubSeq(Sent[p], 1, n) \in Seq(Bytes)
      BY <2>3, <2>4
    <2>6. /\ echoed' \in [Peers -> Seq(Bytes)] /\ echoed'[p] = SubSeq(Sent[p], 1, n)
          /\ \A q \in Peers : q # p => echoed'[q] = echoed[q]
      BY <2>2, <2>3, <2>5
    <2>7. ASSUME NEW q \in Peers
          PROVE  /\ \E m \in 0 .. Len(Sent[q]) : echoed'[q] = SubSeq(Sent[q], 1, m)
                 /\ alive /\ Link[q] = "ended" => Side[q] # "open"
                 /\ alive /\ Link[q] = "ended" /\ Side[q] = "half" => echoed'[q] = Sent[q]
      <3>1. CASE q = p
        BY <3>1, <2>1, <2>4, <2>6
      <3>2. CASE q # p
        BY <3>2, <2>6 DEF Kept
      <3> QED BY <3>1, <3>2
    <2> QED BY <2>1, <2>6, <2>7 DEF Kept
  <1>6. ASSUME NEW p \in Peers, Echo!Client(p) PROVE Kept'
    <2>1. /\ \/ /\ Side[p] # "gone"
                /\ Side' \in {[Side EXCEPT ![p] = s] : s \in {"half", "gone"}}
                /\ Sent' = Sent
             \/ /\ Side[p] = "open"
                /\ \E b \in Bytes : Sent' = [Sent EXCEPT ![p] = Append(Sent[p], b)]
                /\ Side' = Side
          /\ Link' = Link /\ echoed' = echoed /\ alive' = alive
      BY <1>6 DEF Echo!Client, Link, Side, Sent
    <2>2. CASE Side[p] # "gone" /\ Side' \in {[Side EXCEPT ![p] = s] : s \in {"half", "gone"}} /\ Sent' = Sent
      <3>1. PICK s \in {"half", "gone"} : Side' = [Side EXCEPT ![p] = s]
        BY <2>2
      <3>2. Side' \in [Peers -> {"open", "half", "gone"}]
        BY <3>1 DEF Kept
      <3>3. \A q \in Peers :
              /\ Side[q] # "open" => Side'[q] # "open"
              /\ Side'[q] = "half" => Side[q] \in {"open", "half"}
        BY <2>2, <3>1 DEF Kept
      <3> QED BY <2>1, <2>2, <3>2, <3>3 DEF Kept
    <2>3. ASSUME Side[p] = "open", NEW b \in Bytes, Sent' = [Sent EXCEPT ![p] = Append(Sent[p], b)], Side' = Side
          PROVE  Kept'
      <3>1. Sent[p] \in Seq(Bytes) /\ Append(Sent[p], b) \in Seq(Bytes) /\ Sent \in [Peers -> Seq(Bytes)]
        BY DEF Kept
      <3>2. /\ Sent' \in [Peers -> Seq(Bytes)] /\ Sent'[p] = Append(Sent[p], b)
            /\ \A q \in Peers : q # p => Sent'[q] = Sent[q]
        BY <2>3, <3>1
      <3>3. PICK n \in 0 .. Len(Sent[p]) : echoed[p] = SubSeq(Sent[p], 1, n)
        BY DEF Kept
      <3>4. n \in 0 .. Len(Sent'[p]) /\ SubSeq(Sent'[p], 1, n) = SubSeq(Sent[p], 1, n)
        BY <3>1, <3>2
      <3>5. ASSUME NEW q \in Peers
            PROVE  /\ \E m \in 0 .. Len(Sent'[q]) : echoed[q] = SubSeq(Sent'[q], 1, m)
                   /\ alive /\ Link[q] = "ended" => Side[q] # "open"
                   /\ alive /\ Link[q] = "ended" /\ Side[q] = "half" => echoed[q] = Sent'[q]
        <4>1. CASE q = p
          <5>1. \E m \in 0 .. Len(Sent'[q]) : echoed[q] = SubSeq(Sent'[q], 1, m)
            BY <4>1, <3>3, <3>4
          <5>2. Side[q] = "open" /\ (alive /\ Link[q] = "ended" => Side[q] # "open")
            BY <4>1, <2>3 DEF Kept
          <5> QED BY <5>1, <5>2
        <4>2. CASE q # p
          BY <4>2, <3>2 DEF Kept
        <4> QED BY <4>1, <4>2
      <3> QED BY <2>1, <2>3, <3>2, <3>5 DEF Kept
    <2> QED BY <2>1, <2>2, <2>3
  <1> QED BY <1>1, <1>2, <1>3, <1>4, <1>5, <1>6 DEF Echo!Next

(* Whatever a client gets back is the start of what it has sent, also when  *)
(* its connection is gone, and one that has only closed its sending side    *)
(* and sees the connection end while main() runs has got every byte.        *)
THEOREM ClientsGetTheirBytes == Spec => []Echo!Promise
  <1>1. Kept => Echo!Promise
    BY DEF Kept, Echo!Promise, Link, Side, Sent
  <1>2. EchoSpec => []Kept
    BY KeptAtFirst, KeptByService, PTL DEF EchoSpec, Echo!Spec
  <1> QED BY <1>1, <1>2, ImplementsEcho, PTL
=============================================================================
