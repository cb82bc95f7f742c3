------------------------ MODULE EventServers_proofs ------------------------
(***************************************************************************)
(* The event-driven servers, proved for any number of clients, descriptors *)
(* and entries, any size of the buffer, any pattern of short writes, and   *)
(* whatever the uninitialised revents of the poll server hold: first the   *)
(* inductive invariant of each, then the echo service, once for both.      *)
(***************************************************************************)
EXTENDS EventServers, EchoClients_proofs

USE ClientsAssumption, EventServerAssumption

----------------------------------------------------------------------------
(*                            The select server                            *)

(* A descriptor belongs to one client, who is not waiting for accept(). *)
SelectConnected ==
  /\ \A f \in SelectConnFds : conn[f] # None => phase[conn[f]] # "idle" /\ ~Queued(conn[f])
  /\ \A f, g \in SelectConnFds : conn[f] = conn[g] /\ conn[f] # None => f = g

(* What select() has reported is still so: everything while accept() is to *)
(* be called, and then the entries the loop has yet to come to.            *)
SelectReported ==
  /\ pc = "accept" => /\ listenfd \in rset /\ rset \subseteq allset
                      /\ \A f \in rset \ {listenfd} : Readable(conn[f])
  /\ pc \in {"scan", "recv", "send"} => \A s \in Unhandled : Readable(conn[client[s]])
  /\ pc \in {"recv", "send"} => i \in SelectSlots /\ sockfd \in SelectConnFds /\ client[i] = sockfd
  /\ pc = "recv" => Readable(conn[sockfd])

SelectIInv ==
  SelectTypeOK /\ QueueOK /\ SelectConnected /\ SelectBookkeepingAgrees /\ SelectReported /\ SelectReadyCountExact

USE SelectAssumption

----------------------------------------------------------------------------
(* Counting. *)

LEMMA SelectSlotsFinite ==
  /\ IsFiniteSet(SelectSlots) /\ IsFiniteSet(SelectConnFds) /\ IsFiniteSet(SelectConnFds \cup {listenfd})
  /\ \A S \in SUBSET SelectSlots : IsFiniteSet(S) /\ Cardinality(S) \in Nat
  /\ \A R \in SUBSET (SelectConnFds \cup {listenfd}) :
       IsFiniteSet(R) /\ Cardinality(R) \in 0 .. SelectFd
  <1>1. IsFiniteSet(SelectSlots)
    BY FS_Interval DEF SelectSlots
  <1>2. IsFiniteSet(SelectConnFds)
    BY FS_Interval DEF SelectConnFds
  <1>3. SelectConnFds \cup {listenfd} = listenfd .. (SelectFd - 1)
    BY DEF SelectConnFds
  <1>4. /\ IsFiniteSet(listenfd .. (SelectFd - 1))
        /\ Cardinality(listenfd .. (SelectFd - 1)) = SelectFd - listenfd
    BY FS_Interval
  <1>5. \A S \in SUBSET SelectSlots : IsFiniteSet(S) /\ Cardinality(S) \in Nat
    BY <1>1, FS_Subset, FS_CardinalityType
  <1>6. \A R \in SUBSET (SelectConnFds \cup {listenfd}) :
          IsFiniteSet(R) /\ Cardinality(R) \in 0 .. SelectFd
    <2> TAKE R \in SUBSET (SelectConnFds \cup {listenfd})
    <2>1. IsFiniteSet(R) /\ Cardinality(R) <= SelectFd - listenfd
      BY <1>3, <1>4, FS_Subset
    <2>2. Cardinality(R) \in Nat
      BY <2>1, FS_CardinalityType
    <2> QED BY <2>1, <2>2
  <1> QED BY <1>1, <1>2, <1>3, <1>4, <1>5, <1>6

(* As many entries hold a descriptor of R as R has descriptors. *)
LEMMA SlotsCount ==
  ASSUME SelectTypeOK, SelectBookkeepingAgrees, NEW R \in SUBSET (allset \ {listenfd})
  PROVE  Cardinality({s \in SelectSlots : client[s] \in R}) = Cardinality(R)
  <1> DEFINE S == {s \in SelectSlots : client[s] \in R}
             f == [s \in S |-> client[s]]
  <1>1. -1 \notin R
    BY DEF SelectTypeOK, SelectConnFds
  <1>2. f \in [S -> R]
    OBVIOUS
  <1>3. \A s, t \in S : f[s] = f[t] => s = t
    BY <1>1 DEF SelectBookkeepingAgrees
  <1>4. \A d \in R : \E s \in S : f[s] = d
    BY DEF SelectBookkeepingAgrees
  <1>5. f \in Bijection(S, R)
    BY <1>2, <1>3, <1>4 DEF Bijection, Injection, Surjection, IsInjective
  <1>6. ExistsBijection(S, R)
    BY <1>5 DEF ExistsBijection
  <1> QED BY <1>6, SelectSlotsFinite, FS_Bijection

(* What the books say of an entry, and of a descriptor that is watched. *)
LEMMA SelectInUse ==
  ASSUME SelectIInv
  PROVE  /\ \A s \in SelectSlots : client[s] \in rset =>
              client[s] \in SelectConnFds /\ conn[client[s]] \in Peers
         /\ \A f \in allset \ {listenfd} : f \in SelectConnFds /\ conn[f] \in Peers
         /\ pc \in {"recv", "send"} => conn[sockfd] \in Peers
  <1>1. \A f \in allset \ {listenfd} : f \in SelectConnFds /\ conn[f] \in Peers
    BY DEF SelectIInv, SelectTypeOK, SelectBookkeepingAgrees
  <1>2. \A s \in SelectSlots : client[s] # -1 => client[s] \in allset \ {listenfd}
    BY DEF SelectIInv, SelectBookkeepingAgrees
  <1>3. -1 \notin rset /\ -1 \notin SelectConnFds
    BY DEF SelectIInv, SelectTypeOK, SelectConnFds
  <1>4. pc \in {"recv", "send"} => i \in SelectSlots /\ client[i] = sockfd /\ sockfd \in SelectConnFds
    BY DEF SelectIInv, SelectReported
  <1> QED BY <1>1, <1>2, <1>3, <1>4

----------------------------------------------------------------------------
(* Each action preserves the invariant. *)

LEMMA SelectStep == ASSUME SelectIInv, Select PROVE SelectIInv'
  <1> DEFINE R == {f \in allset : f <= maxfd /\ ReadyFd(f)}
  <1>1. /\ pc = "select" /\ R # {} /\ rset' = R /\ nready' = Cardinality(R)
        /\ pc' = IF listenfd \in R THEN "accept" ELSE "scan"
        /\ i' = 0
        /\ UNCHANGED <<clientVars, conn, client, maxi, maxfd, allset, sockfd, buf>>
    BY DEF Select
  <1> HIDE DEF R
  <1>2. R \subseteq allset /\ \A f \in R : ReadyFd(f)
    BY DEF R
  <1>3. R \in SUBSET (SelectConnFds \cup {listenfd})
    BY <1>2 DEF SelectIInv, SelectTypeOK
  <1>4. IsFiniteSet(R) /\ Cardinality(R) \in 0 .. SelectFd /\ Cardinality(R) > 0
    BY <1>1, <1>3, SelectSlotsFinite, FS_EmptySet
  <1>5. UNCHANGED <<phase, nsent, inq, echoed, unread, fin, dead, err, queue>>
    BY <1>1 DEF clientVars
  <1>6. SelectTypeOK'
    BY <1>1, <1>3, <1>4, <1>5 DEF SelectIInv, SelectTypeOK, ClientsTypeOK
  <1>7. QueueOK' /\ SelectConnected' /\ SelectBookkeepingAgrees'
    BY <1>1, <1>5 DEF SelectIInv, QueueOK, SelectConnected, Queued, SelectBookkeepingAgrees
  <1>8. CASE listenfd \in R
    <2>1. \A f \in R \ {listenfd} : Readable(conn[f])'
      BY <1>1, <1>2, <1>5 DEF ReadyFd, Readable
    <2>2. SelectReported'
      BY <1>1, <1>2, <1>8, <2>1 DEF SelectReported
    <2>3. SelectReadyCountExact'
      BY <1>1, <1>8 DEF SelectReadyCountExact
    <2> QED BY <1>6, <1>7, <2>2, <2>3 DEF SelectIInv
  <1>9. CASE listenfd \notin R
    <2>1. R \in SUBSET (allset \ {listenfd}) /\ pc' = "scan"
      BY <1>1, <1>2, <1>9
    <2>2. Unhandled' = {s \in SelectSlots : client[s] \in R}
      BY <1>1, <2>1 DEF Unhandled, SelectSlots
    <2>3. Cardinality(Unhandled') = nready'
      BY <1>1, <2>1, <2>2, SlotsCount DEF SelectIInv
    <2>4. \A s \in Unhandled' : Readable(conn[client[s]])'
      BY <1>1, <1>2, <1>5, <1>9, <2>2 DEF ReadyFd, Readable
    <2>5. SelectReported' /\ SelectReadyCountExact'
      BY <1>1, <1>4, <2>1, <2>3, <2>4 DEF SelectReported, SelectReadyCountExact
    <2> QED BY <1>6, <1>7, <2>5 DEF SelectIInv
  <1> QED BY <1>8, <1>9

(* The process ends, with the server's state as it is. *)
LEMMA SelectExitStep ==
  ASSUME SelectIInv, SelectExit, UNCHANGED <<phase, nsent, inq, echoed, unread, fin, dead, err, queue>>
  PROVE  SelectIInv'
  <1>1. SelectTypeOK'
    BY DEF SelectIInv, SelectTypeOK, ClientsTypeOK, SelectExit
  <1>2. QueueOK' /\ SelectConnected' /\ SelectBookkeepingAgrees'
    BY DEF SelectIInv, QueueOK, SelectConnected, Queued, SelectBookkeepingAgrees, SelectExit
  <1>3. SelectReported' /\ SelectReadyCountExact'
    BY DEF SelectReported, SelectReadyCountExact, SelectExit
  <1> QED BY <1>1, <1>2, <1>3 DEF SelectIInv

(* A new connection has a descriptor that was not reported. *)
LEMMA SelectAcceptStep == ASSUME SelectIInv, SelectAccept PROVE SelectIInv'
  <1>1. CASE SelectFreeFds # {} /\ SelectFreeSlots # {}
    <2> DEFINE fd == Min(SelectFreeFds)
               slot == Min(SelectFreeSlots)
               p == Head(queue)
    <2>1. /\ pc = "accept" /\ queue # <<>>
          /\ conn' = [conn EXCEPT ![fd] = p]
          /\ queue' = Tail(queue)
          /\ SelectRegister(fd, slot) /\ SelectHandled(0)
          /\ UNCHANGED <<rset, sockfd, buf, phase, nsent, inq, echoed, unread, fin, dead, err>>
      BY <1>1 DEF SelectAccept
    <2>2. fd \in SelectFreeFds /\ slot \in SelectFreeSlots
      <3>1. SelectFreeFds \in SUBSET Nat /\ SelectFreeSlots \in SUBSET Nat
        BY DEF SelectFreeFds, SelectFreeSlots, SelectConnFds, SelectSlots
      <3> QED BY <1>1, <3>1, MinOfNumbers
    <2>3. fd \in SelectConnFds /\ conn[fd] = None /\ slot \in SelectSlots /\ client[slot] = -1
      BY <2>2 DEF SelectFreeFds, SelectFreeSlots
    <2>4. /\ ClientsTypeOK' /\ QueueOK'
          /\ p \in Peers /\ phase[p] # "idle" /\ Queued(p)
          /\ \A q \in Peers : Queued(q)' => Queued(q) /\ q # p
          /\ \A q \in Peers : Readable(q)' = Readable(q)
      BY <2>1, AcceptKeeps DEF SelectIInv, SelectTypeOK
    <2> HIDE DEF fd, slot, p
    <2>5. fd \notin allset /\ fd # listenfd /\ fd # -1 /\ fd \in Nat /\ fd <= SelectFd - 1
      BY <2>3 DEF SelectIInv, SelectBookkeepingAgrees, SelectConnFds
    <2>6. /\ client' = [client EXCEPT ![slot] = fd]
          /\ allset' = allset \cup {fd}
          /\ maxfd' = IF fd > maxfd THEN fd ELSE maxfd
          /\ maxi' = IF slot > maxi THEN slot ELSE maxi
      BY <2>1 DEF SelectRegister
    <2>7. listenfd \in rset /\ rset \subseteq allset
      BY <2>1 DEF SelectIInv, SelectReported
    <2>8. rset \in SUBSET (SelectConnFds \cup {listenfd}) /\ nready = Cardinality(rset)
      BY <2>1 DEF SelectIInv, SelectTypeOK, SelectReadyCountExact
    <2>9. nready - 1 = Cardinality(rset \ {listenfd}) /\ nready - 1 \in 0 .. SelectFd
      <3>1. IsFiniteSet(rset) /\ Cardinality(rset) \in 0 .. SelectFd /\ Cardinality(rset) # 0
        BY <2>7, <2>8, SelectSlotsFinite, FS_EmptySet
      <3>2. Cardinality(rset \ {listenfd}) = Cardinality(rset) - 1
        BY <2>7, <3>1, FS_RemoveElement
      <3> QED BY <2>8, <3>1, <3>2
    <2>10. /\ nready' = nready - 1
           /\ IF nready - 1 <= 0 THEN pc' = "select" /\ i' = i ELSE pc' = "scan" /\ i' = 0
      BY <2>1 DEF SelectHandled
    <2>11. SelectTypeOK'
      <3>1. conn' \in [SelectConnFds -> Peers \cup {None}]
        BY <2>1, <2>3, <2>4 DEF SelectIInv, SelectTypeOK
      <3>2. client' \in [SelectSlots -> SelectConnFds \cup {-1}] /\ maxi' \in SelectSlots \cup {-1}
        BY <2>3, <2>6 DEF SelectIInv, SelectTypeOK
      <3>3. maxfd' \in listenfd .. (SelectFd - 1) /\ allset' \subseteq SelectConnFds \cup {listenfd}
        BY <2>3, <2>5, <2>6 DEF SelectIInv, SelectTypeOK, SelectConnFds
      <3>4. i' \in 0 .. FD_SETSIZE /\ nready' \in 0 .. SelectFd /\ pc' \in {"select", "scan"}
        BY <2>9, <2>10 DEF SelectIInv, SelectTypeOK
      <3> QED BY <2>1, <2>4, <3>1, <3>2, <3>3, <3>4 DEF SelectIInv, SelectTypeOK
    <2>12. SelectConnected'
      <3>1. \A f \in SelectConnFds : conn'[f] = IF f = fd THEN p ELSE conn[f]
        BY <2>1 DEF SelectIInv, SelectTypeOK
      <3>2. \A f \in SelectConnFds : conn[f] # p /\ (conn[f] # None => conn[f] \in Peers)
        BY <2>4 DEF SelectIInv, SelectTypeOK, SelectConnected
      <3> QED BY <2>1, <2>4, <3>1, <3>2 DEF SelectIInv, SelectConnected
    <2>13. SelectBookkeepingAgrees'
      <3>1. \A f \in SelectConnFds : conn'[f] = IF f = fd THEN p ELSE conn[f]
        BY <2>1 DEF SelectIInv, SelectTypeOK
      <3>2. \A s \in SelectSlots : client'[s] = IF s = slot THEN fd ELSE client[s]
        BY <2>6 DEF SelectIInv, SelectTypeOK
      <3>3. p # None
        BY <2>4
      <3>4. allset' \ {listenfd} = {f \in SelectConnFds : conn'[f] # None}
        <4>1. allset \ {listenfd} = {f \in SelectConnFds : conn[f] # None}
          BY DEF SelectIInv, SelectBookkeepingAgrees
        <4>2. allset' \ {listenfd} = (allset \ {listenfd}) \cup {fd}
          BY <2>5, <2>6
        <4> QED BY <2>3, <3>1, <3>3, <4>1, <4>2
      <3>5. {client'[s] : s \in SelectSlots} \ {-1} = allset' \ {listenfd}
        BY <2>3, <2>5, <2>6, <3>2 DEF SelectIInv, SelectBookkeepingAgrees
      <3>6. \A s \in SelectSlots : client[s] # fd
        BY <2>5 DEF SelectIInv, SelectBookkeepingAgrees
      <3>7. \A s, t \in SelectSlots : client'[s] = client'[t] /\ client'[s] # -1 => s = t
        BY <3>2, <3>6 DEF SelectIInv, SelectBookkeepingAgrees
      <3>8. \A s \in SelectSlots : client'[s] # -1 => s <= maxi'
        BY <2>3, <2>6, <3>2 DEF SelectIInv, SelectTypeOK, SelectBookkeepingAgrees, SelectSlots
      <3>9. \A f \in allset' : f <= maxfd'
        BY <2>5, <2>6 DEF SelectIInv, SelectTypeOK, SelectBookkeepingAgrees, SelectConnFds
      <3> QED BY <3>4, <3>5, <3>7, <3>8, <3>9 DEF SelectBookkeepingAgrees
    <2>14. CASE nready - 1 <= 0
      BY <2>4, <2>10, <2>11, <2>12, <2>13, <2>14 DEF SelectIInv, SelectReported, SelectReadyCountExact
    <2>15. CASE ~ (nready - 1 <= 0)
      <3>1. pc' = "scan" /\ i' = 0 /\ rset' = rset
        BY <2>1, <2>10, <2>15
      <3>2. /\ \A s \in SelectSlots : client'[s] = IF s = slot THEN fd ELSE client[s]
            /\ \A s \in SelectSlots : client[s] # listenfd
            /\ fd \notin rset /\ -1 \notin rset
        BY <2>5, <2>6, <2>7, <2>8 DEF SelectIInv, SelectTypeOK, SelectConnFds
      <3>3. Unhandled' = {s \in SelectSlots : client[s] \in rset \ {listenfd}}
        BY <2>3, <3>1, <3>2 DEF Unhandled, SelectSlots
      <3>4. Cardinality(Unhandled') = nready'
        BY <2>7, <2>9, <2>10, <3>3, SlotsCount DEF SelectIInv
      <3>5. \A s \in Unhandled' : Readable(conn[client[s]])'
        <4> SUFFICES ASSUME NEW s \in Unhandled' PROVE Readable(conn[client[s]])'
          OBVIOUS
        <4>1. s \in SelectSlots /\ client[s] \in rset \ {listenfd} /\ client'[s] = client[s] /\ client[s] # fd
          BY <2>3, <3>2, <3>3
        <4>2. Readable(conn[client[s]]) /\ client[s] \in SelectConnFds /\ conn[client[s]] \in Peers
          BY <2>1, <4>1, SelectInUse DEF SelectIInv, SelectReported
        <4>3. conn'[client[s]] = conn[client[s]]
          BY <2>1, <4>1, <4>2 DEF SelectIInv, SelectTypeOK
        <4> QED BY <2>1, <4>1, <4>2, <4>3 DEF Readable
      <3>6. SelectReported' /\ SelectReadyCountExact'
        BY <2>10, <2>15, <3>1, <3>4, <3>5, <2>9 DEF SelectReported, SelectReadyCountExact
      <3> QED BY <2>4, <2>11, <2>12, <2>13, <3>6 DEF SelectIInv
    <2> QED BY <2>14, <2>15
  <1>2. SelectFreeFds # {} /\ SelectFreeSlots # {}
    BY DEF SelectAccept
  <1> QED BY <1>1, <1>2

(* The loop goes to the next entry that was reported. *)
LEMMA SelectScanStep == ASSUME SelectIInv, SelectScan PROVE SelectIInv'
  <1> DEFINE R == {s \in SelectSlots : i <= s /\ s <= maxi /\ client[s] \in rset}
  <1>1. /\ pc = "scan"
        /\ IF R = {} THEN pc' = "select" /\ UNCHANGED <<i, sockfd>>
           ELSE i' = Min(R) /\ sockfd' = client[Min(R)] /\ pc' = "recv"
        /\ UNCHANGED <<conn, client, maxi, maxfd, allset, rset, nready, buf>>
        /\ UNCHANGED <<phase, nsent, inq, echoed, unread, fin, dead, err, queue>>
    BY DEF SelectScan, clientVars
  <1>2. R = Unhandled
    <2>1. -1 \notin rset
      BY DEF SelectIInv, SelectTypeOK, SelectConnFds
    <2> QED BY <1>1, <2>1 DEF SelectIInv, SelectBookkeepingAgrees, Unhandled
  <1> HIDE DEF R
  <1>3. ClientsTypeOK' /\ QueueOK' /\ SelectConnected' /\ SelectBookkeepingAgrees'
    <2>1. ClientsTypeOK'
      BY <1>1 DEF SelectIInv, SelectTypeOK, ClientsTypeOK
    <2>2. QueueOK' /\ SelectConnected'
      BY <1>1 DEF SelectIInv, QueueOK, SelectConnected, Queued
    <2>3. SelectBookkeepingAgrees'
      BY <1>1 DEF SelectIInv, SelectBookkeepingAgrees
    <2> QED BY <2>1, <2>2, <2>3
  <1>4. CASE R = {}
    BY <1>1, <1>3, <1>4 DEF SelectIInv, SelectTypeOK, SelectReported, SelectReadyCountExact
  <1>5. CASE R # {}
    <2> DEFINE m == Min(R)
    <2>1. m \in R /\ \A s \in R : m <= s
      <3>1. R \in SUBSET Nat
        BY <1>2 DEF Unhandled, SelectSlots
      <3> QED BY <1>5, <3>1, MinOfNumbers
    <2> HIDE DEF m
    <2>2. pc' = "recv" /\ i' = m /\ sockfd' = client[m]
      BY <1>1, <1>5 DEF m
    <2>3. m \in SelectSlots /\ client[m] \in rset /\ client[m] \in SelectConnFds /\ conn[client[m]] \in Peers
      BY <1>2, <2>1, SelectInUse DEF Unhandled
    <2>4. Unhandled' = Unhandled \ {m}
      <3>1. Unhandled = {s \in SelectSlots : client[s] \in rset /\ i <= s}
        BY <1>1 DEF Unhandled
      <3>2. Unhandled' = {s \in SelectSlots : client[s] \in rset /\ m < s}
        BY <1>1, <2>2 DEF Unhandled
      <3>3. i <= m /\ i \in Nat /\ m \in Nat /\ \A s \in SelectSlots : s \in Nat
        BY <1>2, <2>1, <3>1 DEF SelectIInv, SelectTypeOK, SelectSlots
      <3>4. \A s \in Unhandled : m <= s
        BY <1>2, <2>1
      <3> QED BY <3>1, <3>2, <3>3, <3>4
    <2>5. nready' = Cardinality(Unhandled') + 1
      <3>1. Unhandled \in SUBSET SelectSlots
        BY DEF Unhandled
      <3>2. IsFiniteSet(Unhandled) /\ Cardinality(Unhandled) \in Nat
        BY <3>1, SelectSlotsFinite
      <3>3. Cardinality(Unhandled \ {m}) = Cardinality(Unhandled) - 1
        BY <1>2, <2>1, <3>2, FS_RemoveElement
      <3> QED BY <1>1, <2>4, <3>2, <3>3 DEF SelectIInv, SelectReadyCountExact
    <2>6. SelectTypeOK'
      BY <1>1, <1>3, <2>2, <2>3 DEF SelectIInv, SelectTypeOK, SelectSlots
    <2>7. \A s \in Unhandled : Readable(conn[client[s]])'
      BY <1>1 DEF SelectIInv, SelectReported, Readable
    <2>8. Readable(conn[sockfd])'
      BY <1>1, <1>2, <2>1, <2>2, <2>7 DEF Readable
    <2>9. SelectReported' /\ SelectReadyCountExact'
      BY <1>1, <2>2, <2>3, <2>4, <2>5, <2>7, <2>8 DEF SelectReported, SelectReadyCountExact
    <2> QED BY <1>3, <2>6, <2>9 DEF SelectIInv
  <1> QED BY <1>4, <1>5

(* The entries still to be served are not that of sockfd, and belong to    *)
(* other clients.                                                           *)
LEMMA OthersUnhandled ==
  ASSUME SelectIInv, pc \in {"recv", "send"}, NEW s \in Unhandled
  PROVE  /\ s \in SelectSlots /\ s # i /\ client[s] \in SelectConnFds /\ client[s] # sockfd
         /\ conn[client[s]] \in Peers /\ conn[client[s]] # conn[sockfd]
  <1>1. s \in SelectSlots /\ client[s] \in rset /\ i < s
    BY DEF Unhandled
  <1>2. client[s] \in SelectConnFds /\ conn[client[s]] \in Peers
    BY <1>1, SelectInUse
  <1>3. i \in SelectSlots /\ client[i] = sockfd /\ sockfd \in SelectConnFds /\ client[s] # -1
    BY <1>2 DEF SelectIInv, SelectReported, SelectConnFds
  <1>4. s # i
    BY <1>1, <1>3 DEF SelectSlots
  <1>5. client[s] # sockfd
    BY <1>1, <1>3, <1>4 DEF SelectIInv, SelectBookkeepingAgrees
  <1> QED BY <1>1, <1>2, <1>3, <1>4, <1>5 DEF SelectIInv, SelectConnected

LEMMA SelectRecvDataStep == ASSUME SelectIInv, SelectRecvData PROVE SelectIInv'
  <1> DEFINE p == conn[sockfd]
  <1>1. /\ pc = "recv" /\ pc' = "send" /\ RecvTakes(p) /\ buf' = Received(p)
        /\ UNCHANGED <<conn, client, maxi, maxfd, allset, rset, nready, i, sockfd>>
    BY DEF SelectRecvData
  <1>2. p \in Peers
    BY <1>1, SelectInUse
  <1>3. /\ ClientsTypeOK' /\ QueueOK'
        /\ Received(p) \in Seq(Bytes)
        /\ \A q \in Peers \ {p} : Readable(q) => Readable(q)'
        /\ UNCHANGED <<phase, queue>>
    BY <1>1, <1>2, RecvTakesKeeps DEF SelectIInv, SelectTypeOK
  <1>4. SelectTypeOK'
    BY <1>1, <1>3 DEF SelectIInv, SelectTypeOK
  <1>5. SelectConnected' /\ SelectBookkeepingAgrees'
    BY <1>1, <1>3 DEF SelectIInv, SelectConnected, Queued, SelectBookkeepingAgrees
  <1>6. Unhandled' = Unhandled
    BY <1>1 DEF Unhandled
  <1>7. \A s \in Unhandled : Readable(conn[client[s]])'
    <2> SUFFICES ASSUME NEW s \in Unhandled PROVE Readable(conn[client[s]])'
      OBVIOUS
    <2>1. conn[client[s]] \in Peers \ {p} /\ Readable(conn[client[s]])
      BY <1>1, OthersUnhandled DEF SelectIInv, SelectReported
    <2> QED BY <1>1, <1>3, <2>1 DEF Readable
  <1>8. SelectReported' /\ SelectReadyCountExact'
    BY <1>1, <1>6, <1>7 DEF SelectIInv, SelectReported, SelectReadyCountExact
  <1> QED BY <1>3, <1>4, <1>5, <1>8 DEF SelectIInv

(* After a descriptor has been served the loop goes on, or ends when it was *)
(* the last.                                                                *)
LEMMA SelectRoundGoesOn ==
  ASSUME SelectIInv, pc \in {"recv", "send"}, SelectHandled(i + 1), rset' = rset,
         \A s \in SelectSlots \ {i} : client'[s] = client[s],
         client'[i] \in {client[i], -1},
         \A s \in Unhandled : Readable(conn[client[s]])'
  PROVE  /\ nready' \in 0 .. SelectFd /\ i' \in 0 .. FD_SETSIZE /\ pc' \in {"select", "scan"}
         /\ SelectReported' /\ SelectReadyCountExact'
  <1>1. i \in SelectSlots
    BY DEF SelectIInv, SelectReported
  <1>2. Cardinality(Unhandled) \in Nat
    <2>1. Unhandled \in SUBSET SelectSlots
      BY DEF Unhandled
    <2> QED BY <2>1, SelectSlotsFinite
  <1>3. nready = Cardinality(Unhandled) + 1 /\ nready \in 0 .. SelectFd
    BY DEF SelectIInv, SelectTypeOK, SelectReadyCountExact
  <1>4. CASE nready - 1 <= 0
    BY <1>1, <1>2, <1>3, <1>4 DEF SelectHandled, SelectSlots, SelectReported, SelectReadyCountExact
  <1>5. CASE ~ (nready - 1 <= 0)
    <2>1. pc' = "scan" /\ i' = i + 1 /\ nready' = nready - 1
      BY <1>5 DEF SelectHandled
    <2>2. Unhandled' = Unhandled
      BY <1>1, <2>1 DEF Unhandled, SelectSlots
    <2> QED BY <1>1, <1>2, <1>3, <1>5, <2>1, <2>2 DEF SelectSlots, SelectReported, SelectReadyCountExact
  <1> QED BY <1>4, <1>5

LEMMA SelectRecvEndsStep == ASSUME SelectIInv, SelectRecvEnds PROVE SelectIInv'
  <1> DEFINE p == conn[sockfd]
  <1>1. /\ pc = "recv"
        /\ conn' = [conn EXCEPT ![sockfd] = None]
        /\ allset' = allset \ {sockfd}
        /\ client' = [client EXCEPT ![i] = -1]
        /\ SelectHandled(i + 1)
        /\ UNCHANGED <<maxi, maxfd, rset, sockfd, buf>>
    BY DEF SelectRecvEnds
  <1>2. /\ p \in Peers /\ i \in SelectSlots /\ sockfd \in SelectConnFds /\ client[i] = sockfd
        /\ sockfd # listenfd /\ sockfd # -1
    BY <1>1, SelectInUse DEF SelectIInv, SelectReported, SelectConnFds
  <1>3. /\ ClientsTypeOK' /\ QueueOK'
        /\ \A q \in Peers : Readable(q)' = Readable(q)
        /\ UNCHANGED <<phase, queue>>
    <2>1. CASE UNCHANGED clientVars
      BY <2>1 DEF clientVars, SelectIInv, SelectTypeOK, ClientsTypeOK, QueueOK, Readable
    <2>2. CASE ErrorReported(p)
      BY <1>2, <2>2, ErrorReportedKeeps DEF SelectIInv, SelectTypeOK
    <2> QED BY <2>1, <2>2 DEF SelectRecvEnds
  <1>4. /\ \A f \in SelectConnFds : conn'[f] = IF f = sockfd THEN None ELSE conn[f]
        /\ \A s \in SelectSlots : client'[s] = IF s = i THEN -1 ELSE client[s]
    BY <1>1 DEF SelectIInv, SelectTypeOK
  <1>5. SelectConnected'
    BY <1>3, <1>4 DEF SelectIInv, SelectConnected, Queued
  <1>6. SelectBookkeepingAgrees'
    <2>1. /\ allset \ {listenfd} = {f \in SelectConnFds : conn[f] # None}
          /\ {client[s] : s \in SelectSlots} \ {-1} = allset \ {listenfd}
          /\ \A s, t \in SelectSlots : client[s] = client[t] /\ client[s] # -1 => s = t
      BY DEF SelectIInv, SelectBookkeepingAgrees
    <2>2. allset' \ {listenfd} = {f \in SelectConnFds : conn'[f] # None}
      BY <1>1, <1>4, <2>1
    <2>3. {client'[s] : s \in SelectSlots} \ {-1} = allset' \ {listenfd}
      BY <1>1, <1>2, <1>4, <2>1
    <2>4. \A s, t \in SelectSlots : client'[s] = client'[t] /\ client'[s] # -1 => s = t
      BY <1>4, <2>1
    <2>5. (\A s \in SelectSlots : client'[s] # -1 => s <= maxi') /\ (\A f \in allset' : f <= maxfd')
      BY <1>1, <1>4 DEF SelectIInv, SelectBookkeepingAgrees
    <2> QED BY <2>2, <2>3, <2>4, <2>5 DEF SelectBookkeepingAgrees
  <1>7. \A s \in Unhandled : Readable(conn[client[s]])'
    <2> SUFFICES ASSUME NEW s \in Unhandled PROVE Readable(conn[client[s]])'
      OBVIOUS
    <2>1. /\ s \in SelectSlots /\ s # i /\ client[s] \in SelectConnFds /\ client[s] # sockfd
          /\ conn[client[s]] \in Peers /\ Readable(conn[client[s]])
      BY <1>1, OthersUnhandled DEF SelectIInv, SelectReported
    <2>2. client'[s] = client[s] /\ conn'[client[s]] = conn[client[s]]
      BY <1>4, <2>1
    <2> QED BY <1>3, <2>1, <2>2 DEF Readable
  <1>8. /\ nready' \in 0 .. SelectFd /\ i' \in 0 .. FD_SETSIZE /\ pc' \in {"select", "scan"}
        /\ SelectReported' /\ SelectReadyCountExact'
    BY <1>1, <1>2, <1>4, <1>7, SelectRoundGoesOn
  <1>9. SelectTypeOK'
    <2>1. conn' \in [SelectConnFds -> Peers \cup {None}] /\ client' \in [SelectSlots -> SelectConnFds \cup {-1}]
      BY <1>1 DEF SelectIInv, SelectTypeOK
    <2>2. allset' \subseteq SelectConnFds \cup {listenfd}
      BY <1>1 DEF SelectIInv, SelectTypeOK
    <2> QED BY <1>1, <1>3, <1>8, <2>1, <2>2 DEF SelectIInv, SelectTypeOK
  <1> QED BY <1>3, <1>5, <1>6, <1>8, <1>9 DEF SelectIInv

(* A send() that takes something leaves the books alone. *)
LEMMA SelectSendStep == ASSUME SelectIInv, SelectSend PROVE SelectIInv'
  <1> DEFINE p == conn[sockfd]
  <1>1. /\ pc = "send"
        /\ UNCHANGED <<conn, client, maxi, maxfd, allset, rset, sockfd>>
        /\ IF buf' = <<>> THEN SelectHandled(i + 1) ELSE UNCHANGED <<nready, i, pc>>
    BY DEF SelectSend
  <1>2. PICK n \in 1 .. Len(buf) :
          SendTakes(p, buf, n) /\ buf' = SubSeq(buf, n + 1, Len(buf))
    BY DEF SelectSend
  <1>3. p \in Peers /\ buf \in Seq(Bytes)
    BY <1>1, SelectInUse DEF SelectIInv, SelectTypeOK
  <1>4. /\ ClientsTypeOK' /\ QueueOK' /\ buf' \in Seq(Bytes)
        /\ \A q \in Peers : Readable(q)' = Readable(q)
        /\ UNCHANGED <<phase, queue>>
    BY <1>2, <1>3, SendTakesKeeps DEF SelectIInv, SelectTypeOK
  <1>5. SelectConnected' /\ SelectBookkeepingAgrees'
    BY <1>1, <1>4 DEF SelectIInv, SelectConnected, Queued, SelectBookkeepingAgrees
  <1>6. \A s \in Unhandled : Readable(conn[client[s]])'
    <2> SUFFICES ASSUME NEW s \in Unhandled PROVE Readable(conn[client[s]])'
      OBVIOUS
    <2>1. conn[client[s]] \in Peers /\ Readable(conn[client[s]])
      BY <1>1, OthersUnhandled DEF SelectIInv, SelectReported
    <2> QED BY <1>1, <1>4, <2>1 DEF Readable
  <1>7. CASE buf' = <<>>
    <2>1. i \in SelectSlots
      BY <1>1 DEF SelectIInv, SelectReported
    <2>2. /\ nready' \in 0 .. SelectFd /\ i' \in 0 .. FD_SETSIZE /\ pc' \in {"select", "scan"}
          /\ SelectReported' /\ SelectReadyCountExact'
      BY <1>1, <1>6, <1>7, <2>1, SelectRoundGoesOn
    <2> QED BY <1>1, <1>4, <1>5, <2>2 DEF SelectIInv, SelectTypeOK
  <1>8. CASE buf' # <<>>
    <2>1. UNCHANGED <<nready, i, pc>> /\ Unhandled' = Unhandled
      BY <1>1, <1>8 DEF Unhandled
    <2>2. SelectReported' /\ SelectReadyCountExact'
      BY <1>1, <1>6, <2>1 DEF SelectIInv, SelectReported, SelectReadyCountExact
    <2> QED BY <1>1, <1>4, <1>5, <2>1, <2>2 DEF SelectIInv, SelectTypeOK
  <1> QED BY <1>7, <1>8

LEMMA SelectSendFailsStep == ASSUME SelectIInv, SelectSendFails PROVE SelectIInv'
  <1> DEFINE p == conn[sockfd]
  <1>1. /\ pc = "send" /\ ErrorReported(p) /\ buf' = <<>> /\ SelectHandled(i + 1)
        /\ UNCHANGED <<conn, client, maxi, maxfd, allset, rset, sockfd>>
    BY DEF SelectSendFails
  <1>2. p \in Peers
    BY <1>1, SelectInUse
  <1>3. /\ ClientsTypeOK' /\ QueueOK'
        /\ \A q \in Peers : Readable(q)' = Readable(q)
        /\ UNCHANGED <<phase, queue>>
    BY <1>1, <1>2, ErrorReportedKeeps DEF SelectIInv, SelectTypeOK
  <1>4. SelectConnected' /\ SelectBookkeepingAgrees'
    BY <1>1, <1>3 DEF SelectIInv, SelectConnected, Queued, SelectBookkeepingAgrees
  <1>5. \A s \in Unhandled : Readable(conn[client[s]])'
    <2> SUFFICES ASSUME NEW s \in Unhandled PROVE Readable(conn[client[s]])'
      OBVIOUS
    <2>1. conn[client[s]] \in Peers /\ Readable(conn[client[s]])
      BY <1>1, OthersUnhandled DEF SelectIInv, SelectReported
    <2> QED BY <1>1, <1>3, <2>1 DEF Readable
  <1>6. i \in SelectSlots
    BY <1>1 DEF SelectIInv, SelectReported
  <1>7. /\ nready' \in 0 .. SelectFd /\ i' \in 0 .. FD_SETSIZE /\ pc' \in {"select", "scan"}
        /\ SelectReported' /\ SelectReadyCountExact'
    BY <1>1, <1>5, <1>6, SelectRoundGoesOn
  <1> QED BY <1>1, <1>3, <1>4, <1>7 DEF SelectIInv, SelectTypeOK

(* What the clients do meanwhile makes nothing unreadable. *)
LEMMA SelectClientMovesStep == ASSUME SelectIInv, SelectClientMoves PROVE SelectIInv'
  <1>1. UNCHANGED <<conn, client, maxi, maxfd, allset, rset, nready, i, sockfd, buf, pc>>
    BY DEF SelectClientMoves, selectServerVars
  <1>2. ClientsTypeOK' /\ QueueOK' /\ ClientFacts
    BY ClientStepKeeps DEF SelectClientMoves, SelectIInv, SelectTypeOK
  <1>3. SelectTypeOK'
    BY <1>1, <1>2 DEF SelectIInv, SelectTypeOK
  <1>4. SelectConnected'
    BY <1>1, <1>2 DEF SelectIInv, SelectTypeOK, SelectConnected, ClientFacts
  <1>5. SelectBookkeepingAgrees' /\ Unhandled' = Unhandled
    BY <1>1 DEF SelectIInv, SelectBookkeepingAgrees, Unhandled
  <1>6. \A q \in Peers : Readable(q) => Readable(q)'
    BY <1>2 DEF ClientFacts
  <1>7. ASSUME pc = "accept", NEW f \in rset \ {listenfd} PROVE Readable(conn[f])'
    <2>1. conn[f] \in Peers /\ Readable(conn[f])
      BY <1>7, SelectInUse DEF SelectIInv, SelectReported
    <2> QED BY <1>1, <1>6, <2>1 DEF Readable
  <1>8. ASSUME pc \in {"scan", "recv", "send"}, NEW s \in Unhandled
        PROVE  Readable(conn[client[s]])'
    <2>1. conn[client[s]] \in Peers /\ Readable(conn[client[s]])
      BY <1>8, SelectInUse DEF SelectIInv, SelectReported, Unhandled
    <2> QED BY <1>1, <1>6, <2>1 DEF Readable
  <1>9. ASSUME pc = "recv" PROVE Readable(conn[sockfd])'
    <2>1. conn[sockfd] \in Peers /\ Readable(conn[sockfd])
      BY <1>9, SelectInUse DEF SelectIInv, SelectReported
    <2> QED BY <1>1, <1>6, <2>1 DEF Readable
  <1>10. SelectReported' /\ SelectReadyCountExact'
    BY <1>1, <1>5, <1>7, <1>8, <1>9 DEF SelectIInv, SelectReported, SelectReadyCountExact
  <1> QED BY <1>2, <1>3, <1>4, <1>5, <1>10 DEF SelectIInv

----------------------------------------------------------------------------
(* The invariant. *)

LEMMA SelectInitIInv == SelectInit => SelectIInv
  <1> SUFFICES ASSUME SelectInit PROVE SelectIInv
    OBVIOUS
  <1>1. ClientsTypeOK /\ QueueOK
    BY InitClients DEF SelectInit
  <1>2. SelectTypeOK
    BY <1>1 DEF SelectInit, SelectTypeOK, SelectSlots, SelectConnFds
  <1>3. SelectBookkeepingAgrees
    BY DEF SelectInit, SelectBookkeepingAgrees, SelectConnFds
  <1> QED BY <1>1, <1>2, <1>3 DEF SelectInit, SelectIInv, SelectConnected, SelectReported, SelectReadyCountExact

LEMMA SelectNextIInv == SelectIInv /\ [SelectNext]_selectVars => SelectIInv'
  <1> SUFFICES ASSUME SelectIInv, [SelectNext]_selectVars PROVE SelectIInv'
    OBVIOUS
  <1>1. CASE Select BY <1>1, SelectStep
  <1>2. CASE SelectAccept BY <1>2, SelectAcceptStep
  <1>3. CASE SelectScan BY <1>3, SelectScanStep
  <1>4. CASE SelectRecvData BY <1>4, SelectRecvDataStep
  <1>5. CASE SelectRecvEnds BY <1>5, SelectRecvEndsStep
  <1>6. CASE SelectRecvFails \/ SelectSendKills \/ SelectAcceptFails
    BY <1>6, SelectExitStep DEF SelectRecvFails, SelectSendKills, SelectAcceptFails, clientVars
  <1>7. CASE SelectSend BY <1>7, SelectSendStep
  <1>8. CASE SelectSendFails BY <1>8, SelectSendFailsStep
  <1>9. CASE SelectClientMoves BY <1>9, SelectClientMovesStep
  <1>10. CASE UNCHANGED selectVars
    <2>1. /\ UNCHANGED <<phase, nsent, inq, echoed, unread, fin, dead, err, queue>>
          /\ UNCHANGED <<conn, client, maxi, maxfd, allset, rset, nready, i, sockfd, buf, pc>>
      BY <1>10 DEF selectVars, clientVars, selectServerVars
    <2>2. SelectTypeOK' /\ QueueOK' /\ SelectConnected'
      BY <2>1 DEF SelectIInv, SelectTypeOK, ClientsTypeOK, QueueOK, SelectConnected, Queued
    <2>3. SelectBookkeepingAgrees' /\ Unhandled' = Unhandled
      BY <2>1 DEF SelectIInv, SelectBookkeepingAgrees, Unhandled
    <2>4. SelectReported' /\ SelectReadyCountExact'
      BY <2>1, <2>3 DEF SelectIInv, SelectReported, Readable, SelectReadyCountExact
    <2> QED BY <2>2, <2>3, <2>4 DEF SelectIInv
  <1> QED BY <1>1, <1>2, <1>3, <1>4, <1>5, <1>6, <1>7, <1>8, <1>9, <1>10 DEF SelectNext, SelectServer

LEMMA SelectInductive == SelectSpec => []SelectIInv
  BY SelectInitIInv, SelectNextIInv, PTL DEF SelectSpec

(* Type correctness: no index leaves client[], no descriptor put into a set *)
(* reaches FD_SETSIZE, whatever clients come and go.                         *)
THEOREM SelectTypeCorrect == SelectSpec => []SelectTypeOK
  <1>1. SelectIInv => SelectTypeOK
    BY DEF SelectIInv
  <1> QED BY <1>1, SelectInductive, PTL

(* client[], allset, maxi and maxfd always agree with the connections that  *)
(* are open.                                                                *)
THEOREM SelectTheBooksAgree == SelectSpec => []SelectBookkeepingAgrees
  <1>1. SelectIInv => SelectBookkeepingAgrees
    BY DEF SelectIInv
  <1> QED BY <1>1, SelectInductive, PTL

(* nready is the number of descriptors still to be served: the early exits  *)
(* of the loop of tcpserv_select.cpp skip nobody.                            *)
THEOREM SelectEarlyExitsAreRight == SelectSpec => []SelectReadyCountExact
  <1>1. SelectIInv => SelectReadyCountExact
    BY DEF SelectIInv
  <1> QED BY <1>1, SelectInductive, PTL

LEMMA SelectRecvHasNews == SelectIInv => RecvNeverBlocks
  <1> SUFFICES ASSUME SelectIInv, pc = "recv"
               PROVE  conn[sockfd] # None /\ RecvResult(conn[sockfd]) # "blocks"
    BY DEF RecvNeverBlocks
  <1>1. conn[sockfd] \in Peers /\ Readable(conn[sockfd])
    BY SelectInUse DEF SelectIInv, SelectReported
  <1>2. err[conn[sockfd]] \in Errors
    BY <1>1 DEF SelectIInv, SelectTypeOK, ClientsTypeOK
  <1> QED BY <1>1, <1>2 DEF RecvResult, Readable, Errors

(* recv() is called only for a client that has sent something or has ended, *)
(* so a silent one never blocks the others.                                 *)
THEOREM SelectRecvReturns == SelectSpec => []RecvNeverBlocks
  BY SelectRecvHasNews, SelectInductive, PTL

HIDE SelectAssumption

----------------------------------------------------------------------------
(*                             The poll server                             *)

(* A descriptor belongs to one client, who is not waiting for accept(). *)
PollConnected ==
  /\ \A f \in PollConnFds : conn[f] # None => phase[conn[f]] # "idle" /\ ~Queued(conn[f])
  /\ \A f, g \in PollConnFds : conn[f] = conn[g] /\ conn[f] # None => f = g

(* The entries in use that the loop has yet to come to and takes for       *)
(* reported.  One of them may be new, and never have been given to poll(). *)
Ahead == {s \in PollSlots : client[s] # -1 /\ revents[s] /\ IF pc = "scan" THEN i <= s ELSE i < s}

(* U are the ones poll() has reported: they are what they were reported to *)
(* be, and the loop comes to them first.                                   *)
TrulyReported(U) ==
  \A u \in U : Readable(conn[client[u]]) /\ \A s \in Ahead \ U : u < s

(* What poll() reported of the entries behind the first. *)
Answered == {s \in PollSlots : s <= maxi /\ revents[s]}

PollReported ==
  /\ pc = "accept" => /\ nready = Cardinality(Answered) + 1
                      /\ \A s \in Answered : client[s] # -1 /\ Readable(conn[client[s]])
  /\ pc = "scan" => \E U \in SUBSET Ahead :
                      TrulyReported(U) /\ nready = Cardinality(U) /\ nready > 0
  /\ pc \in {"recv", "send"} =>
       /\ \E U \in SUBSET Ahead : TrulyReported(U) /\ nready = Cardinality(U) + 1
       /\ i \in PollSlots /\ sockfd \in PollConnFds /\ client[i] = sockfd
  /\ pc = "recv" => Readable(conn[sockfd])

PollIInv == PollTypeOK /\ QueueOK /\ PollConnected /\ PollBookkeepingAgrees /\ PollReported

USE PollAssumption

----------------------------------------------------------------------------
LEMMA PollSlotsFinite ==
  /\ \A S \in SUBSET PollSlots : IsFiniteSet(S) /\ Cardinality(S) \in Nat
  /\ \A R \in SUBSET (0 .. (OPEN_MAX - 1)) :
       IsFiniteSet(R) /\ Cardinality(R) \in 0 .. OPEN_MAX
  <1>1. IsFiniteSet(0 .. (OPEN_MAX - 1)) /\ Cardinality(0 .. (OPEN_MAX - 1)) = OPEN_MAX
    BY FS_Interval
  <1>2. \A R \in SUBSET (0 .. (OPEN_MAX - 1)) :
          IsFiniteSet(R) /\ Cardinality(R) \in 0 .. OPEN_MAX
    <2> TAKE R \in SUBSET (0 .. (OPEN_MAX - 1))
    <2>1. IsFiniteSet(R) /\ Cardinality(R) <= OPEN_MAX
      BY <1>1, FS_Subset
    <2>2. Cardinality(R) \in Nat
      BY <2>1, FS_CardinalityType
    <2> QED BY <2>1, <2>2
  <1>3. \A S \in SUBSET PollSlots : S \in SUBSET (0 .. (OPEN_MAX - 1))
    BY DEF PollSlots
  <1> QED BY <1>2, <1>3

(* What the books say of an entry in use. *)
LEMMA PollInUse ==
  ASSUME PollIInv
  PROVE  /\ \A s \in PollSlots : client[s] # -1 =>
              client[s] \in PollConnFds /\ conn[client[s]] \in Peers
         /\ pc \in {"recv", "send"} => conn[sockfd] \in Peers /\ sockfd # -1
  <1>1. \A s \in PollSlots : client[s] # -1 => client[s] \in {f \in PollConnFds : conn[f] # None}
    BY DEF PollIInv, PollBookkeepingAgrees
  <1>2. \A f \in PollConnFds : conn[f] # None => conn[f] \in Peers
    BY DEF PollIInv, PollTypeOK
  <1>3. pc \in {"recv", "send"} => i \in PollSlots /\ client[i] = sockfd /\ sockfd \in PollConnFds
    BY DEF PollIInv, PollReported
  <1>4. -1 \notin PollConnFds
    BY DEF PollConnFds
  <1> QED BY <1>1, <1>2, <1>3, <1>4

----------------------------------------------------------------------------
(* Each action preserves the invariant. *)

LEMMA PollStep == ASSUME PollIInv, Poll PROVE PollIInv'
  <1>1. PICK R : R = {s \in 0 .. maxi : ReadySlot(s)}
    OBVIOUS
  <1>2. /\ pc = "poll" /\ R # {}
        /\ revents' = [s \in DOMAIN revents |-> IF s <= maxi THEN s \in R ELSE revents[s]]
        /\ nready' = Cardinality(R)
        /\ pc' = IF 0 \in R THEN "accept" ELSE "scan"
        /\ i' = 1
        /\ UNCHANGED <<clientVars, conn, client, maxi, sockfd, buf>>
    BY <1>1, Zenon DEF Poll
  <1>3. /\ R \subseteq 0 .. maxi /\ R \in SUBSET (0 .. (OPEN_MAX - 1))
        /\ maxi \in 0 .. (OPEN_MAX - 1)
    BY <1>1 DEF PollIInv, PollTypeOK
  <1>4. IsFiniteSet(R) /\ Cardinality(R) \in 0 .. OPEN_MAX /\ Cardinality(R) > 0
    BY <1>2, <1>3, PollSlotsFinite, FS_EmptySet
  <1>5. UNCHANGED <<phase, nsent, inq, echoed, unread, fin, dead, err, queue>>
    BY <1>2 DEF clientVars
  <1>6. revents \in [PollSlots \cup {0} -> BOOLEAN]
    BY DEF PollIInv, PollTypeOK
  <1>7. \A s \in PollSlots \cup {0} : revents'[s] = IF s <= maxi THEN s \in R ELSE revents[s]
    BY <1>2, <1>6, Zenon
  <1>8. \A s \in PollSlots : s <= maxi => (revents'[s] <=> s \in R)
    BY <1>7, Zenon
  <1>9. revents' \in [PollSlots \cup {0} -> BOOLEAN]
    <2>1. \A s \in PollSlots \cup {0} : (IF s <= maxi THEN s \in R ELSE revents[s]) \in BOOLEAN
      <3> SUFFICES ASSUME NEW s \in PollSlots \cup {0}
                   PROVE  (IF s <= maxi THEN s \in R ELSE revents[s]) \in BOOLEAN
        OBVIOUS
      <3>1. CASE s <= maxi
        BY <3>1
      <3>2. CASE ~ (s <= maxi)
        BY <1>6, <3>2, Zenon
      <3> QED BY <3>1, <3>2
    <2> QED BY <1>2, <1>6, <2>1, Zenon
  <1>10. PollTypeOK'
    <2>1. ClientsTypeOK'
      BY <1>5 DEF PollIInv, PollTypeOK, ClientsTypeOK
    <2>2. i' \in 0 .. OPEN_MAX /\ pc' \in {"accept", "scan"} /\ nready' \in 0 .. OPEN_MAX
      BY <1>2, <1>4
    <2> QED BY <1>2, <1>9, <2>1, <2>2 DEF PollIInv, PollTypeOK
  <1>11. QueueOK' /\ PollConnected' /\ PollBookkeepingAgrees'
    BY <1>2, <1>5 DEF PollIInv, QueueOK, PollConnected, Queued, PollBookkeepingAgrees
  <1>12. ASSUME NEW s \in PollSlots, s \in R
         PROVE  s <= maxi /\ client[s] # -1 /\ Readable(conn[client[s]])'
    <2>1. ReadySlot(s) /\ s # 0 /\ s <= maxi
      BY <1>1, <1>12 DEF PollSlots
    <2> QED BY <1>2, <1>5, <2>1 DEF ReadySlot, Readable
  <1>13. CASE 0 \in R
    <2>1. Answered' = R \ {0}
      <3>1. Answered' = {s \in PollSlots : s <= maxi /\ s \in R}
        BY <1>2, <1>8 DEF Answered
      <3>2. R \ {0} \subseteq Answered'
        BY <1>3, <3>1 DEF PollSlots
      <3>3. Answered' \subseteq R \ {0}
        BY <3>1 DEF PollSlots
      <3> QED BY <3>2, <3>3
    <2>2. Cardinality(R \ {0}) = Cardinality(R) - 1
      BY <1>4, <1>13, FS_RemoveElement
    <2>3. \A s \in Answered' : client'[s] # -1 /\ Readable(conn[client[s]])'
      BY <1>2, <1>12, <2>1 DEF Answered
    <2>4. PollReported'
      BY <1>2, <1>4, <1>13, <2>1, <2>2, <2>3 DEF PollReported
    <2> QED BY <1>10, <1>11, <2>4 DEF PollIInv
  <1>14. CASE 0 \notin R
    <2>1. pc' = "scan" /\ R \subseteq PollSlots
      BY <1>2, <1>3, <1>14 DEF PollSlots
    <2>2. Ahead' = R
      <3>1. Ahead' = {s \in PollSlots : client[s] # -1 /\ revents'[s] /\ 1 <= s}
        BY <1>2, <2>1 DEF Ahead
      <3>2. \A s \in PollSlots : client[s] # -1 => s <= maxi
        BY DEF PollIInv, PollBookkeepingAgrees
      <3>3. \A s \in PollSlots : 1 <= s
        BY DEF PollSlots
      <3>4. \A s \in PollSlots : s \in R <=> client[s] # -1 /\ revents'[s] /\ 1 <= s
        BY <1>8, <1>12, <3>2, <3>3, Zenon
      <3> QED BY <2>1, <3>1, <3>4
    <2>3. TrulyReported(R)'
      BY <1>12, <2>1, <2>2 DEF TrulyReported
    <2>4. PollReported'
      BY <1>2, <1>4, <2>1, <2>2, <2>3 DEF PollReported
    <2> QED BY <1>10, <1>11, <2>4 DEF PollIInv
  <1> QED BY <1>13, <1>14

(* The process ends, with the server's state as it is. *)
LEMMA PollExitStep ==
  ASSUME PollIInv, PollExit, UNCHANGED <<phase, nsent, inq, echoed, unread, fin, dead, err, queue>>
  PROVE  PollIInv'
  <1>1. PollTypeOK'
    BY DEF PollIInv, PollTypeOK, ClientsTypeOK, PollExit
  <1>2. QueueOK' /\ PollConnected' /\ PollBookkeepingAgrees'
    BY DEF PollIInv, QueueOK, PollConnected, Queued, PollBookkeepingAgrees, PollExit
  <1>3. PollReported'
    BY DEF PollReported, PollExit
  <1> QED BY <1>1, <1>2, <1>3 DEF PollIInv

(* A new connection goes into an entry poll() has said nothing of, or else *)
(* behind all the entries it has been given.                               *)
LEMMA PollAcceptStep == ASSUME PollIInv, PollAccept PROVE PollIInv'
  <1>1. CASE PollFreeFds # {} /\ PollFreeSlots # {}
    <2> DEFINE fd == Min(PollFreeFds)
               slot == Min(PollFreeSlots)
               p == Head(queue)
    <2>1. /\ pc = "accept" /\ queue # <<>>
          /\ conn' = [conn EXCEPT ![fd] = p]
          /\ queue' = Tail(queue)
          /\ PollRegister(fd, slot) /\ PollHandled(1)
          /\ UNCHANGED <<revents, sockfd, buf, phase, nsent, inq, echoed, unread, fin, dead, err>>
      BY <1>1 DEF PollAccept
    <2>2. fd \in PollFreeFds /\ slot \in PollFreeSlots
      <3>1. PollFreeFds \in SUBSET Nat /\ PollFreeSlots \in SUBSET Nat
        BY DEF PollFreeFds, PollFreeSlots, PollConnFds, PollSlots
      <3> QED BY <1>1, <3>1, MinOfNumbers
    <2>3. fd \in PollConnFds /\ conn[fd] = None /\ slot \in PollSlots /\ client[slot] = -1
      BY <2>2 DEF PollFreeFds, PollFreeSlots
    <2>4. /\ ClientsTypeOK' /\ QueueOK'
          /\ p \in Peers /\ phase[p] # "idle" /\ Queued(p)
          /\ \A q \in Peers : Queued(q)' => Queued(q) /\ q # p
          /\ \A q \in Peers : Readable(q)' = Readable(q)
      BY <2>1, AcceptKeeps DEF PollIInv, PollTypeOK
    <2> HIDE DEF fd, slot, p
    <2>5. fd # -1 /\ \A s \in PollSlots : client[s] # fd
      BY <2>3 DEF PollIInv, PollBookkeepingAgrees, PollConnFds
    <2>6. /\ client' = [client EXCEPT ![slot] = fd]
          /\ maxi' = IF slot > maxi THEN slot ELSE maxi
      BY <2>1 DEF PollRegister
    <2>7. /\ \A f \in PollConnFds : conn'[f] = IF f = fd THEN p ELSE conn[f]
          /\ \A s \in PollSlots : client'[s] = IF s = slot THEN fd ELSE client[s]
          /\ p # None
      BY <2>1, <2>4, <2>6 DEF PollIInv, PollTypeOK
    <2>8. /\ nready = Cardinality(Answered) + 1
          /\ \A s \in Answered : client[s] # -1 /\ Readable(conn[client[s]])
      BY <2>1 DEF PollIInv, PollReported
    <2>9. Cardinality(Answered) \in Nat /\ nready \in 0 .. OPEN_MAX
      <3>1. Answered \in SUBSET PollSlots
        BY DEF Answered
      <3> QED BY <3>1, PollSlotsFinite DEF PollIInv, PollTypeOK
    <2>10. /\ nready' = nready - 1
           /\ IF nready - 1 <= 0 THEN pc' = "poll" /\ i' = i ELSE pc' = "scan" /\ i' = 1
      BY <2>1 DEF PollHandled
    <2>11. PollTypeOK'
      <3>1. conn' \in [PollConnFds -> Peers \cup {None}]
        BY <2>1, <2>3, <2>4 DEF PollIInv, PollTypeOK
      <3>2. client' \in [PollSlots -> PollConnFds \cup {-1}] /\ maxi' \in 0 .. (OPEN_MAX - 1)
        BY <2>3, <2>6 DEF PollIInv, PollTypeOK, PollSlots
      <3>3. i' \in 0 .. OPEN_MAX /\ nready' \in 0 .. OPEN_MAX /\ pc' \in {"poll", "scan"}
        BY <2>8, <2>9, <2>10 DEF PollIInv, PollTypeOK
      <3>4. revents' \in [PollSlots \cup {0} -> BOOLEAN] /\ sockfd' \in PollConnFds \cup {-1} /\ buf' \in Seq(Bytes)
        BY <2>1 DEF PollIInv, PollTypeOK
      <3> QED BY <2>4, <3>1, <3>2, <3>3, <3>4 DEF PollTypeOK
    <2>12. PollConnected'
      <3>1. \A f \in PollConnFds : conn[f] # p /\ (conn[f] # None => conn[f] \in Peers)
        BY <2>4 DEF PollIInv, PollTypeOK, PollConnected
      <3> QED BY <2>1, <2>4, <2>7, <3>1 DEF PollIInv, PollConnected
    <2>13. PollBookkeepingAgrees'
      <3>1. /\ {client[s] : s \in PollSlots} \ {-1} = {f \in PollConnFds : conn[f] # None}
            /\ \A s, t \in PollSlots : client[s] = client[t] /\ client[s] # -1 => s = t
        BY DEF PollIInv, PollBookkeepingAgrees
      <3>2. {client'[s] : s \in PollSlots} \ {-1} = ({client[s] : s \in PollSlots} \ {-1}) \cup {fd}
        BY <2>3, <2>5, <2>7
      <3>3. {f \in PollConnFds : conn'[f] # None} = {f \in PollConnFds : conn[f] # None} \cup {fd}
        BY <2>3, <2>7
      <3>4. \A s, t \in PollSlots : client'[s] = client'[t] /\ client'[s] # -1 => s = t
        BY <2>5, <2>7, <3>1
      <3>5. \A s \in PollSlots : client'[s] # -1 => s <= maxi'
        BY <2>3, <2>6, <2>7 DEF PollIInv, PollTypeOK, PollBookkeepingAgrees, PollSlots
      <3> QED BY <3>1, <3>2, <3>3, <3>4, <3>5 DEF PollBookkeepingAgrees
    <2>14. CASE nready - 1 <= 0
      BY <2>4, <2>10, <2>11, <2>12, <2>13, <2>14 DEF PollIInv, PollReported
    <2>15. CASE ~ (nready - 1 <= 0)
      <3>1. pc' = "scan" /\ i' = 1 /\ revents' = revents
        BY <2>1, <2>10, <2>15
      <3>2. Ahead' = {s \in PollSlots : client'[s] # -1 /\ revents[s]}
        BY <3>1 DEF Ahead, PollSlots
      <3>3. PICK U : U = Answered
        OBVIOUS
      <3>4. U \subseteq Ahead'
        BY <2>7, <2>8, <2>5, <3>2, <3>3 DEF Answered
      <3>5. \A u \in U : Readable(conn[client[u]])'
        <4> SUFFICES ASSUME NEW u \in U PROVE Readable(conn[client[u]])'
          OBVIOUS
        <4>1. u \in PollSlots /\ client[u] # -1 /\ Readable(conn[client[u]])
          BY <2>8, <3>3 DEF Answered
        <4>2. /\ client[u] \in PollConnFds /\ conn[client[u]] \in Peers
              /\ client'[u] = client[u] /\ conn'[client[u]] = conn[client[u]]
          BY <2>3, <2>5, <2>7, <4>1, PollInUse
        <4> QED BY <2>4, <4>1, <4>2 DEF Readable
      <3>6. \A s \in Ahead' \ U : s = slot /\ slot > maxi
        <4> SUFFICES ASSUME NEW s \in Ahead' \ U PROVE s = slot /\ slot > maxi
          OBVIOUS
        <4>1. s \in PollSlots /\ client'[s] # -1 /\ revents[s]
          BY <3>2
        <4>2. ~ (s <= maxi)
          BY <3>3, <4>1 DEF Answered
        <4>3. client[s] = -1
          BY <4>1, <4>2 DEF PollIInv, PollBookkeepingAgrees
        <4>4. s = slot
          BY <2>7, <4>1, <4>3
        <4> QED BY <4>2, <4>4, <2>3 DEF PollIInv, PollTypeOK, PollSlots
      <3>7. \A u \in U, s \in Ahead' \ U : u < s
        <4>1. \A u \in U : u \in PollSlots /\ u <= maxi
          BY <3>3 DEF Answered
        <4> QED BY <2>3, <3>6, <4>1 DEF PollIInv, PollTypeOK, PollSlots
      <3>8. TrulyReported(U)'
        BY <3>5, <3>7 DEF TrulyReported
      <3>9. nready' = Cardinality(U) /\ nready' > 0
        BY <2>8, <2>9, <2>10, <2>15, <3>3
      <3>10. PollReported'
        BY <3>1, <3>4, <3>8, <3>9 DEF PollReported
      <3> QED BY <2>4, <2>11, <2>12, <2>13, <3>10 DEF PollIInv
    <2> QED BY <2>14, <2>15
  <1>2. PollFreeFds # {} /\ PollFreeSlots # {}
    BY DEF PollAccept
  <1> QED BY <1>1, <1>2

(* The loop goes to the next entry that it takes for reported, and that is *)
(* one poll() did report, since nready is not 0.                           *)
LEMMA PollScanStep == ASSUME PollIInv, PollScan PROVE PollIInv'
  <1> DEFINE R == {s \in PollSlots : i <= s /\ s <= maxi /\ client[s] # -1 /\ revents[s]}
  <1>1. /\ pc = "scan"
        /\ IF R = {} THEN pc' = "poll" /\ UNCHANGED <<i, sockfd>>
           ELSE i' = Min(R) /\ sockfd' = client[Min(R)] /\ pc' = "recv"
        /\ UNCHANGED <<conn, client, revents, maxi, nready, buf>>
        /\ UNCHANGED <<phase, nsent, inq, echoed, unread, fin, dead, err, queue>>
    BY DEF PollScan, clientVars
  <1>2. R = Ahead
    BY <1>1 DEF PollIInv, PollBookkeepingAgrees, Ahead
  <1> HIDE DEF R
  <1>3. ClientsTypeOK' /\ QueueOK' /\ PollConnected' /\ PollBookkeepingAgrees'
    <2>1. ClientsTypeOK'
      BY <1>1 DEF PollIInv, PollTypeOK, ClientsTypeOK
    <2>2. QueueOK' /\ PollConnected'
      BY <1>1 DEF PollIInv, QueueOK, PollConnected, Queued
    <2>3. PollBookkeepingAgrees'
      BY <1>1 DEF PollIInv, PollBookkeepingAgrees
    <2> QED BY <2>1, <2>2, <2>3
  <1>4. PICK U \in SUBSET Ahead : TrulyReported(U) /\ nready = Cardinality(U) /\ nready > 0
    BY <1>1 DEF PollIInv, PollReported
  <1>5. U # {} /\ IsFiniteSet(U) /\ Cardinality(U) \in Nat
    <2>1. U \in SUBSET PollSlots
      BY DEF Ahead
    <2> QED BY <1>4, <2>1, PollSlotsFinite, FS_EmptySet
  <1>6. R # {}
    BY <1>2, <1>5
  <1> DEFINE m == Min(R)
  <1>7. m \in R /\ \A s \in R : m <= s
    <2>1. R \in SUBSET Nat
      BY <1>2 DEF Ahead, PollSlots
    <2> QED BY <1>6, <2>1, MinOfNumbers
  <1> HIDE DEF m
  <1>8. pc' = "recv" /\ i' = m /\ sockfd' = client[m]
    BY <1>1, <1>6 DEF m
  <1>9. \A s \in Ahead : s \in Nat /\ m <= s
    BY <1>2, <1>7 DEF Ahead, PollSlots
  <1>10. m \in U
    <2>1. PICK u \in U : TRUE
      BY <1>5
    <2>2. m \in Ahead \ U => u < m
      BY <1>4 DEF TrulyReported
    <2>3. m <= u /\ m \in Nat /\ u \in Nat
      BY <1>2, <1>7, <1>9
    <2> QED BY <1>2, <1>7, <2>2, <2>3
  <1>11. m \in PollSlots /\ client[m] \in PollConnFds /\ Readable(conn[client[m]])
    BY <1>2, <1>4, <1>7, <1>10, PollInUse DEF Ahead, TrulyReported
  <1>12. Ahead' = Ahead \ {m}
    <2>1. Ahead = {s \in PollSlots : client[s] # -1 /\ revents[s] /\ i <= s}
      BY <1>1 DEF Ahead
    <2>2. Ahead' = {s \in PollSlots : client[s] # -1 /\ revents[s] /\ m < s}
      BY <1>1, <1>8 DEF Ahead
    <2>3. i <= m /\ i \in Nat /\ m \in Nat /\ \A s \in PollSlots : s \in Nat
      BY <1>2, <1>7, <1>11, <2>1 DEF PollIInv, PollTypeOK, PollSlots
    <2> QED BY <1>9, <2>1, <2>2, <2>3
  <1>13. PICK V : V = U \ {m}
    OBVIOUS
  <1>14. V \subseteq Ahead' /\ nready' = Cardinality(V) + 1
    <2>1. Cardinality(U \ {m}) = Cardinality(U) - 1
      BY <1>5, <1>10, FS_RemoveElement
    <2> QED BY <1>1, <1>4, <1>5, <1>12, <1>13, <2>1
  <1>15. TrulyReported(V)'
    <2>1. \A u \in U : Readable(conn[client[u]])'
      BY <1>1, <1>4 DEF TrulyReported, Readable
    <2>2. \A s \in Ahead' \ V : s \in Ahead \ U
      BY <1>10, <1>12, <1>13
    <2> QED BY <1>4, <1>13, <2>1, <2>2 DEF TrulyReported
  <1>16. Readable(conn[sockfd])'
    BY <1>1, <1>8, <1>11 DEF Readable
  <1>17. PollTypeOK'
    BY <1>1, <1>3, <1>8, <1>11 DEF PollIInv, PollTypeOK, PollSlots
  <1>18. PollReported'
    BY <1>1, <1>8, <1>11, <1>14, <1>15, <1>16 DEF PollReported
  <1> QED BY <1>3, <1>17, <1>18 DEF PollIInv

(* The entries ahead are not that of sockfd, and belong to other clients. *)
LEMMA OthersAhead ==
  ASSUME PollIInv, pc \in {"recv", "send"}, NEW s \in Ahead
  PROVE  /\ s \in PollSlots /\ s # i /\ client[s] \in PollConnFds /\ client[s] # sockfd
         /\ conn[client[s]] \in Peers /\ conn[client[s]] # conn[sockfd]
  <1>1. s \in PollSlots /\ i < s /\ client[s] # -1
    BY DEF Ahead
  <1>2. client[s] \in PollConnFds /\ conn[client[s]] \in Peers
    BY <1>1, PollInUse
  <1>3. i \in PollSlots /\ client[i] = sockfd /\ sockfd \in PollConnFds
    BY DEF PollIInv, PollReported
  <1>4. s # i
    BY <1>1, <1>3 DEF PollSlots
  <1>5. client[s] # sockfd
    BY <1>1, <1>3, <1>4 DEF PollIInv, PollBookkeepingAgrees
  <1> QED BY <1>1, <1>2, <1>3, <1>4, <1>5 DEF PollIInv, PollConnected

(* While one descriptor is served the others stay as they were reported. *)
LEMMA RoundStays ==
  ASSUME PollIInv, pc \in {"recv", "send"}, pc' = "send",
         UNCHANGED <<client, revents, nready, i, sockfd>>,
         \A s \in Ahead : Readable(conn[client[s]]) => Readable(conn[client[s]])'
  PROVE  PollReported'
  <1>1. PICK U \in SUBSET Ahead : TrulyReported(U) /\ nready = Cardinality(U) + 1
    BY DEF PollIInv, PollReported
  <1>2. Ahead' = Ahead
    BY DEF Ahead
  <1>3. TrulyReported(U)'
    BY <1>1, <1>2 DEF TrulyReported
  <1>4. i \in PollSlots /\ sockfd \in PollConnFds /\ client[i] = sockfd
    BY DEF PollIInv, PollReported
  <1> QED BY <1>1, <1>2, <1>3, <1>4 DEF PollReported

(* After a descriptor has been served the loop goes on, or ends when it was *)
(* the last.                                                                *)
LEMMA PollRoundGoesOn ==
  ASSUME PollIInv, pc \in {"recv", "send"}, PollHandled(i + 1), revents' = revents,
         \A s \in PollSlots \ {i} : client'[s] = client[s],
         client'[i] \in {client[i], -1},
         \A s \in Ahead : Readable(conn[client[s]]) => Readable(conn[client[s]])'
  PROVE  /\ nready' \in 0 .. OPEN_MAX /\ i' \in 0 .. OPEN_MAX /\ pc' \in {"poll", "scan"}
         /\ PollReported'
  <1>1. i \in PollSlots
    BY DEF PollIInv, PollReported
  <1>2. PICK U \in SUBSET Ahead : TrulyReported(U) /\ nready = Cardinality(U) + 1
    BY DEF PollIInv, PollReported
  <1>3. Cardinality(U) \in Nat /\ nready \in 0 .. OPEN_MAX
    <2>1. U \in SUBSET PollSlots
      BY DEF Ahead
    <2> QED BY <2>1, PollSlotsFinite DEF PollIInv, PollTypeOK
  <1>4. CASE nready - 1 <= 0
    BY <1>1, <1>2, <1>3, <1>4 DEF PollHandled, PollSlots, PollReported
  <1>5. CASE ~ (nready - 1 <= 0)
    <2>1. pc' = "scan" /\ i' = i + 1 /\ nready' = nready - 1
      BY <1>5 DEF PollHandled
    <2>2. Ahead' = Ahead
      <3>1. Ahead = {s \in PollSlots : client[s] # -1 /\ revents[s] /\ i < s}
        BY DEF Ahead
      <3>2. Ahead' = {s \in PollSlots : client'[s] # -1 /\ revents[s] /\ i + 1 <= s}
        BY <2>1 DEF Ahead
      <3>3. \A s \in PollSlots : i < s <=> i + 1 <= s
        BY <1>1 DEF PollSlots
      <3>4. \A s \in PollSlots : i < s => client'[s] = client[s]
        BY <1>1 DEF PollSlots
      <3> QED BY <3>1, <3>2, <3>3, <3>4
    <2>3. TrulyReported(U)'
      BY <1>2, <2>2 DEF TrulyReported
    <2>4. nready' = Cardinality(U) /\ nready' > 0
      BY <1>2, <1>3, <1>5, <2>1
    <2>5. PollReported'
      BY <1>2, <2>1, <2>2, <2>3, <2>4 DEF PollReported
    <2> QED BY <1>1, <1>3, <2>1, <2>4, <2>5, <1>2 DEF PollSlots
  <1> QED BY <1>4, <1>5

LEMMA PollRecvDataStep == ASSUME PollIInv, PollRecvData PROVE PollIInv'
  <1> DEFINE p == conn[sockfd]
  <1>1. /\ pc = "recv" /\ pc' = "send" /\ RecvTakes(p) /\ buf' = Received(p)
        /\ UNCHANGED <<conn, client, revents, maxi, nready, i, sockfd>>
    BY DEF PollRecvData
  <1>2. p \in Peers
    BY <1>1, PollInUse
  <1>3. /\ ClientsTypeOK' /\ QueueOK'
        /\ Received(p) \in Seq(Bytes)
        /\ \A q \in Peers \ {p} : Readable(q) => Readable(q)'
        /\ UNCHANGED <<phase, queue>>
    BY <1>1, <1>2, RecvTakesKeeps DEF PollIInv, PollTypeOK
  <1>4. PollTypeOK'
    BY <1>1, <1>3 DEF PollIInv, PollTypeOK
  <1>5. PollConnected' /\ PollBookkeepingAgrees'
    BY <1>1, <1>3 DEF PollIInv, PollConnected, Queued, PollBookkeepingAgrees
  <1>6. \A s \in Ahead : Readable(conn[client[s]]) => Readable(conn[client[s]])'
    <2> SUFFICES ASSUME NEW s \in Ahead, Readable(conn[client[s]]) PROVE Readable(conn[client[s]])'
      OBVIOUS
    <2>1. conn[client[s]] \in Peers \ {p}
      BY <1>1, OthersAhead
    <2> QED BY <1>1, <1>3, <2>1 DEF Readable
  <1>7. PollReported'
    BY <1>1, <1>6, RoundStays
  <1> QED BY <1>3, <1>4, <1>5, <1>7 DEF PollIInv

LEMMA PollRecvEndsStep == ASSUME PollIInv, PollRecvEnds PROVE PollIInv'
  <1> DEFINE p == conn[sockfd]
  <1>1. /\ pc = "recv"
        /\ conn' = [conn EXCEPT ![sockfd] = None]
        /\ client' = [client EXCEPT ![i] = -1]
        /\ PollHandled(i + 1)
        /\ UNCHANGED <<revents, maxi, sockfd, buf>>
    BY DEF PollRecvEnds
  <1>2. p \in Peers /\ i \in PollSlots /\ sockfd \in PollConnFds /\ client[i] = sockfd /\ sockfd # -1
    BY <1>1, PollInUse DEF PollIInv, PollReported
  <1>3. /\ ClientsTypeOK' /\ QueueOK'
        /\ \A q \in Peers : Readable(q)' = Readable(q)
        /\ UNCHANGED <<phase, queue>>
    <2>1. CASE UNCHANGED clientVars
      BY <2>1 DEF clientVars, PollIInv, PollTypeOK, ClientsTypeOK, QueueOK, Readable
    <2>2. CASE ErrorReported(p)
      BY <1>2, <2>2, ErrorReportedKeeps DEF PollIInv, PollTypeOK
    <2> QED BY <2>1, <2>2 DEF PollRecvEnds
  <1>4. /\ \A f \in PollConnFds : conn'[f] = IF f = sockfd THEN None ELSE conn[f]
        /\ \A s \in PollSlots : client'[s] = IF s = i THEN -1 ELSE client[s]
    BY <1>1 DEF PollIInv, PollTypeOK
  <1>5. PollConnected'
    BY <1>3, <1>4 DEF PollIInv, PollConnected, Queued
  <1>6. PollBookkeepingAgrees'
    <2>1. /\ {client[s] : s \in PollSlots} \ {-1} = {f \in PollConnFds : conn[f] # None}
          /\ \A s, t \in PollSlots : client[s] = client[t] /\ client[s] # -1 => s = t
      BY DEF PollIInv, PollBookkeepingAgrees
    <2>2. {f \in PollConnFds : conn'[f] # None} = {f \in PollConnFds : conn[f] # None} \ {sockfd}
      BY <1>4
    <2>3. {client'[s] : s \in PollSlots} \ {-1} = ({client[s] : s \in PollSlots} \ {-1}) \ {sockfd}
      BY <1>2, <1>4, <2>1
    <2>4. \A s, t \in PollSlots : client'[s] = client'[t] /\ client'[s] # -1 => s = t
      BY <1>4, <2>1
    <2>5. \A s \in PollSlots : client'[s] # -1 => s <= maxi'
      BY <1>1, <1>4 DEF PollIInv, PollBookkeepingAgrees
    <2> QED BY <2>1, <2>2, <2>3, <2>4, <2>5 DEF PollBookkeepingAgrees
  <1>7. \A s \in Ahead : Readable(conn[client[s]]) => Readable(conn[client[s]])'
    <2> SUFFICES ASSUME NEW s \in Ahead, Readable(conn[client[s]]) PROVE Readable(conn[client[s]])'
      OBVIOUS
    <2>1. /\ s \in PollSlots /\ s # i /\ client[s] \in PollConnFds /\ client[s] # sockfd
          /\ conn[client[s]] \in Peers
      BY <1>1, OthersAhead
    <2>2. client'[s] = client[s] /\ conn'[client[s]] = conn[client[s]]
      BY <1>4, <2>1
    <2> QED BY <1>3, <2>1, <2>2 DEF Readable
  <1>8. /\ nready' \in 0 .. OPEN_MAX /\ i' \in 0 .. OPEN_MAX /\ pc' \in {"poll", "scan"}
        /\ PollReported'
    BY <1>1, <1>2, <1>4, <1>7, PollRoundGoesOn
  <1>9. PollTypeOK'
    <2>1. conn' \in [PollConnFds -> Peers \cup {None}] /\ client' \in [PollSlots -> PollConnFds \cup {-1}]
      BY <1>1 DEF PollIInv, PollTypeOK
    <2> QED BY <1>1, <1>3, <1>8, <2>1 DEF PollIInv, PollTypeOK
  <1> QED BY <1>3, <1>5, <1>6, <1>8, <1>9 DEF PollIInv

LEMMA PollSendStep == ASSUME PollIInv, PollSend PROVE PollIInv'
  <1> DEFINE p == conn[sockfd]
  <1>1. /\ pc = "send"
        /\ UNCHANGED <<conn, client, revents, maxi, sockfd>>
        /\ IF buf' = <<>> THEN PollHandled(i + 1) ELSE UNCHANGED <<nready, i, pc>>
    BY DEF PollSend
  <1>2. PICK n \in 1 .. Len(buf) :
          SendTakes(p, buf, n) /\ buf' = SubSeq(buf, n + 1, Len(buf))
    BY DEF PollSend
  <1>3. p \in Peers /\ buf \in Seq(Bytes) /\ i \in PollSlots
    BY <1>1, PollInUse DEF PollIInv, PollTypeOK, PollReported
  <1>4. /\ ClientsTypeOK' /\ QueueOK' /\ buf' \in Seq(Bytes)
        /\ \A q \in Peers : Readable(q)' = Readable(q)
        /\ UNCHANGED <<phase, queue>>
    BY <1>2, <1>3, SendTakesKeeps DEF PollIInv, PollTypeOK
  <1>5. PollConnected' /\ PollBookkeepingAgrees'
    BY <1>1, <1>4 DEF PollIInv, PollConnected, Queued, PollBookkeepingAgrees
  <1>6. \A s \in Ahead : Readable(conn[client[s]]) => Readable(conn[client[s]])'
    <2> SUFFICES ASSUME NEW s \in Ahead, Readable(conn[client[s]]) PROVE Readable(conn[client[s]])'
      OBVIOUS
    <2>1. conn[client[s]] \in Peers
      BY <1>1, OthersAhead
    <2> QED BY <1>1, <1>4, <2>1 DEF Readable
  <1>7. CASE buf' = <<>>
    <2>1. /\ nready' \in 0 .. OPEN_MAX /\ i' \in 0 .. OPEN_MAX /\ pc' \in {"poll", "scan"}
          /\ PollReported'
      BY <1>1, <1>3, <1>6, <1>7, PollRoundGoesOn
    <2> QED BY <1>1, <1>4, <1>5, <2>1 DEF PollIInv, PollTypeOK
  <1>8. CASE buf' # <<>>
    <2>1. UNCHANGED <<nready, i, pc>>
      BY <1>1, <1>8
    <2>2. PollReported'
      BY <1>1, <1>6, <2>1, RoundStays
    <2> QED BY <1>1, <1>4, <1>5, <2>1, <2>2 DEF PollIInv, PollTypeOK
  <1> QED BY <1>7, <1>8

LEMMA PollSendFailsStep == ASSUME PollIInv, PollSendFails PROVE PollIInv'
  <1> DEFINE p == conn[sockfd]
  <1>1. /\ pc = "send" /\ ErrorReported(p) /\ buf' = <<>> /\ PollHandled(i + 1)
        /\ UNCHANGED <<conn, client, revents, maxi, sockfd>>
    BY DEF PollSendFails
  <1>2. p \in Peers /\ i \in PollSlots
    BY <1>1, PollInUse DEF PollIInv, PollReported
  <1>3. /\ ClientsTypeOK' /\ QueueOK'
        /\ \A q \in Peers : Readable(q)' = Readable(q)
        /\ UNCHANGED <<phase, queue>>
    BY <1>1, <1>2, ErrorReportedKeeps DEF PollIInv, PollTypeOK
  <1>4. PollConnected' /\ PollBookkeepingAgrees'
    BY <1>1, <1>3 DEF PollIInv, PollConnected, Queued, PollBookkeepingAgrees
  <1>5. \A s \in Ahead : Readable(conn[client[s]]) => Readable(conn[client[s]])'
    <2> SUFFICES ASSUME NEW s \in Ahead, Readable(conn[client[s]]) PROVE Readable(conn[client[s]])'
      OBVIOUS
    <2>1. conn[client[s]] \in Peers
      BY <1>1, OthersAhead
    <2> QED BY <1>1, <1>3, <2>1 DEF Readable
  <1>6. /\ nready' \in 0 .. OPEN_MAX /\ i' \in 0 .. OPEN_MAX /\ pc' \in {"poll", "scan"}
        /\ PollReported'
    BY <1>1, <1>2, <1>5, PollRoundGoesOn
  <1> QED BY <1>1, <1>3, <1>4, <1>6 DEF PollIInv, PollTypeOK

(* What the clients do meanwhile makes nothing unreadable. *)
LEMMA PollClientMovesStep == ASSUME PollIInv, PollClientMoves PROVE PollIInv'
  <1>1. UNCHANGED <<conn, client, revents, maxi, nready, i, sockfd, buf, pc>>
    BY DEF PollClientMoves, pollServerVars
  <1>2. ClientsTypeOK' /\ QueueOK' /\ ClientFacts
    BY ClientStepKeeps DEF PollClientMoves, PollIInv, PollTypeOK
  <1>3. PollTypeOK'
    BY <1>1, <1>2 DEF PollIInv, PollTypeOK
  <1>4. PollConnected'
    BY <1>1, <1>2 DEF PollIInv, PollTypeOK, PollConnected, ClientFacts
  <1>5. PollBookkeepingAgrees' /\ Ahead' = Ahead /\ Answered' = Answered
    BY <1>1 DEF PollIInv, PollBookkeepingAgrees, Ahead, Answered
  <1>6. ASSUME NEW s \in PollSlots, client[s] # -1, Readable(conn[client[s]])
        PROVE  Readable(conn[client[s]])'
    <2>1. conn[client[s]] \in Peers
      BY <1>6, PollInUse
    <2> QED BY <1>1, <1>2, <1>6, <2>1 DEF ClientFacts, Readable
  <1>7. ASSUME NEW U \in SUBSET Ahead, TrulyReported(U)
        PROVE  TrulyReported(U)'
    <2>1. \A u \in U : u \in PollSlots /\ client[u] # -1
      BY DEF Ahead
    <2> QED BY <1>5, <1>6, <1>7, <2>1 DEF TrulyReported
  <1>8. pc = "accept" => /\ nready' = Cardinality(Answered') + 1
                         /\ \A s \in Answered' : client'[s] # -1 /\ Readable(conn[client[s]])'
    BY <1>1, <1>5, <1>6 DEF PollIInv, PollReported, Answered
  <1>9. pc = "recv" => Readable(conn[sockfd])'
    <2> SUFFICES ASSUME pc = "recv" PROVE Readable(conn[sockfd])'
      OBVIOUS
    <2>1. conn[sockfd] \in Peers /\ Readable(conn[sockfd])
      BY PollInUse DEF PollIInv, PollReported
    <2> QED BY <1>1, <1>2, <2>1 DEF ClientFacts, Readable
  <1>10. pc = "scan" => \E U \in SUBSET Ahead' :
                          TrulyReported(U)' /\ nready' = Cardinality(U) /\ nready' > 0
    BY <1>1, <1>5, <1>7 DEF PollIInv, PollReported
  <1>11. pc \in {"recv", "send"} =>
           /\ \E U \in SUBSET Ahead' : TrulyReported(U)' /\ nready' = Cardinality(U) + 1
           /\ i' \in PollSlots /\ sockfd' \in PollConnFds /\ client'[i'] = sockfd'
    BY <1>1, <1>5, <1>7 DEF PollIInv, PollReported
  <1>12. PollReported'
    BY <1>1, <1>8, <1>9, <1>10, <1>11 DEF PollReported
  <1> QED BY <1>2, <1>3, <1>4, <1>5, <1>12 DEF PollIInv

----------------------------------------------------------------------------
(* The invariant. *)

LEMMA PollInitIInv == PollInit => PollIInv
  <1> SUFFICES ASSUME PollInit PROVE PollIInv
    OBVIOUS
  <1>1. ClientsTypeOK /\ QueueOK
    BY InitClients DEF PollInit
  <1>2. PollTypeOK
    BY <1>1 DEF PollInit, PollTypeOK, PollSlots, PollConnFds
  <1>3. PollBookkeepingAgrees
    BY DEF PollInit, PollBookkeepingAgrees
  <1> QED BY <1>1, <1>2, <1>3 DEF PollInit, PollIInv, PollConnected, PollReported

LEMMA PollNextIInv == PollIInv /\ [PollNext]_pollVars => PollIInv'
  <1> SUFFICES ASSUME PollIInv, [PollNext]_pollVars PROVE PollIInv'
    OBVIOUS
  <1>1. CASE Poll BY <1>1, PollStep
  <1>2. CASE PollAccept BY <1>2, PollAcceptStep
  <1>3. CASE PollScan BY <1>3, PollScanStep
  <1>4. CASE PollRecvData BY <1>4, PollRecvDataStep
  <1>5. CASE PollRecvEnds BY <1>5, PollRecvEndsStep
  <1>6. CASE PollRecvFails \/ PollSendKills \/ PollAcceptFails
    BY <1>6, PollExitStep DEF PollRecvFails, PollSendKills, PollAcceptFails, clientVars
  <1>7. CASE PollSend BY <1>7, PollSendStep
  <1>8. CASE PollSendFails BY <1>8, PollSendFailsStep
  <1>9. CASE PollClientMoves BY <1>9, PollClientMovesStep
  <1>10. CASE UNCHANGED pollVars
    <2>1. /\ UNCHANGED <<phase, nsent, inq, echoed, unread, fin, dead, err, queue>>
          /\ UNCHANGED <<conn, client, revents, maxi, nready, i, sockfd, buf, pc>>
      BY <1>10 DEF pollVars, clientVars, pollServerVars
    <2>2. PollTypeOK' /\ QueueOK' /\ PollConnected'
      BY <2>1 DEF PollIInv, PollTypeOK, ClientsTypeOK, QueueOK, PollConnected, Queued
    <2>3. PollBookkeepingAgrees'
      BY <2>1 DEF PollIInv, PollBookkeepingAgrees
    <2>4. PollReported'
      BY <2>1 DEF PollIInv, PollReported, TrulyReported, Ahead, Answered, Readable
    <2> QED BY <2>2, <2>3, <2>4 DEF PollIInv
  <1> QED BY <1>1, <1>2, <1>3, <1>4, <1>5, <1>6, <1>7, <1>8, <1>9, <1>10 DEF PollNext, PollServer

LEMMA PollInductive == PollSpec => []PollIInv
  BY PollInitIInv, PollNextIInv, PTL DEF PollSpec

(* Type correctness: no index of tcpserv_poll.cpp leaves client[], whatever *)
(* clients come and go.                                                     *)
THEOREM PollTypeCorrect == PollSpec => []PollTypeOK
  <1>1. PollIInv => PollTypeOK
    BY DEF PollIInv
  <1> QED BY <1>1, PollInductive, PTL

(* client[] lists the open connections, each once, and maxi none too few. *)
THEOREM PollTheBooksAgree == PollSpec => []PollBookkeepingAgrees
  <1>1. PollIInv => PollBookkeepingAgrees
    BY DEF PollIInv
  <1> QED BY <1>1, PollInductive, PTL

LEMMA PollRecvHasNews == PollIInv => RecvNeverBlocks
  <1> SUFFICES ASSUME PollIInv, pc = "recv"
               PROVE  conn[sockfd] # None /\ RecvResult(conn[sockfd]) # "blocks"
    BY DEF RecvNeverBlocks
  <1>1. conn[sockfd] \in Peers /\ Readable(conn[sockfd])
    BY PollInUse DEF PollIInv, PollReported
  <1>2. err[conn[sockfd]] \in Errors
    BY <1>1 DEF PollIInv, PollTypeOK, ClientsTypeOK
  <1> QED BY <1>1, <1>2 DEF RecvResult, Readable, Errors

(* The revents that poll() has not filled in are never acted upon: recv()   *)
(* is called only when it has something to report.                          *)
THEOREM PollRecvReturns == PollSpec => []RecvNeverBlocks
  BY PollRecvHasNews, PollInductive, PTL

HIDE PollAssumption

----------------------------------------------------------------------------
(*                       The echo service, for both                        *)

(* What the service asks of the state of either server: a descriptor       *)
(* belongs to one client, who is not waiting for accept(), and the loop     *)
(* is at one that is open.                                                  *)
ServerOK ==
  /\ ClientsTypeOK /\ QueueOK
  /\ conn \in [DOMAIN conn -> Peers \cup {None}]
  /\ buf \in Seq(Bytes)
  /\ \A f \in DOMAIN conn : conn[f] # None => ~Waiting(conn[f])
  /\ \A f, g \in DOMAIN conn : conn[f] = conn[g] /\ conn[f] # None => f = g
  /\ pc \in {"recv", "send"} => sockfd \in DOMAIN conn /\ conn[sockfd] \in Peers

\* What the server has received from p and not sent back yet.
Held(p) == IF pc = "send" /\ conn[sockfd] = p THEN buf ELSE <<>>

FlowInv == EndsOK /\ \A p \in Peers : Flow(Held(p), p)

Up(p) == \E f \in DOMAIN conn : conn[f] = p
Link == [p \in Peers |-> LinkOf(p, Up(p))]
Side == [p \in Peers |-> SideOf(p)]
Sent == [p \in Peers |-> SentBytes(p)]
Serving == pc # "stopped"

LEMMA Mapping ==
  /\ Echo!vars = <<Link, Side, Sent, echoed, Serving>>
  /\ Echo!vars' = <<Link', Side', Sent', echoed', Serving'>>
  BY DEF Echo!vars, Link, Side, Sent, Serving, Up

LEMMA LinkIs ==
  ASSUME NEW p \in Peers
  PROVE  /\ Link[p] = IF Up(p) THEN "up" ELSE IF Waiting(p) THEN "none" ELSE "ended"
         /\ Link'[p] = IF Up(p)' THEN "up" ELSE IF Waiting(p)' THEN "none" ELSE "ended"
  BY DEF Link, LinkOf, Waiting

LEMMA HeldIsBytes ==
  ASSUME ServerOK, NEW p \in Peers PROVE Held(p) \in Seq(Bytes)
  BY DEF ServerOK, Held

LEMMA SameService ==
  ASSUME ServiceSame
  PROVE  Side' = Side /\ Sent' = Sent
  BY DEF ServiceSame, Side, Sent

LEMMA NothingHeld ==
  ASSUME FlowInv, NEW p \in Peers, Held(p) = <<>>,
         \A h \in Seq(Bytes) : Flow(h, p) => Flow(h, p)'
  PROVE  Flow(<<>>, p) /\ Flow(<<>>, p)'
  <1>1. Flow(Held(p), p)
    BY DEF FlowInv
  <1>2. Flow(<<>>, p)
    BY <1>1
  <1>3. <<>> \in Seq(Bytes)
    OBVIOUS
  <1> QED BY <1>2, <1>3, Zenon

LEMMA HeldThen ==
  ASSUME NEW p \in Peers, NEW h, Held(p)' = h, Flow(h, p)'
  PROVE  Flow(Held(p), p)'
  BY DEF Flow

\* Nobody but the server knows of the step.
LEMMA Stutters ==
  ASSUME ServiceSame, UNCHANGED <<phase, queue, echoed, conn>>, Serving' = Serving
  PROVE  UNCHANGED Echo!vars
  <1>1. \A p \in Peers : Up(p)' = Up(p) /\ Waiting(p)' = Waiting(p)
    BY DEF Up, Waiting, Queued
  <1>2. Link' = Link
    BY <1>1 DEF Link, LinkOf, Waiting, Up, Queued
  <1> QED BY <1>2, SameService, Mapping

(* A server that has just started. *)
LEMMA StartServes ==
  ASSUME ClientsInit, conn = [f \in DOMAIN conn |-> None], pc \notin {"send", "stopped"}
  PROVE  FlowInv /\ Echo!Init
  <1>1. EndsOK /\ \A p \in Peers : Flow(<<>>, p) /\ Waiting(p)
    BY InitFlow
  <1>2. FlowInv
    BY <1>1 DEF FlowInv, Held
  <1>3. Link = [p \in Peers |-> "none"]
    <2>1. \A p \in Peers : ~Up(p)
      BY DEF Up
    <2> QED BY <1>1, <2>1, LinkIs DEF Link
  <1>4. Side = [p \in Peers |-> "open"]
    BY DEF ClientsInit, Side, SideOf
  <1>5. Sent = [p \in Peers |-> <<>>]
    BY DEF ClientsInit, Sent, SentBytes
  <1>6. Echo!Init
    BY <1>3, <1>4, <1>5 DEF ClientsInit, Echo!Init, Link, Side, Sent, Up
  <1> QED BY <1>2, <1>6

Serves == FlowInv' /\ (Echo!Next \/ UNCHANGED Echo!vars)

\* A step of the loop that no client can see.
LEMMA LoopServes ==
  ASSUME FlowInv, UNCHANGED <<phase, nsent, inq, echoed, unread, fin, dead, err, queue, conn>>,
         pc \notin {"send", "stopped"}, pc' \notin {"send", "stopped"}
  PROVE  Serves
  <1>1. ServiceSame /\ \A q \in Peers : \A h \in Seq(Bytes) : Flow(h, q) => Flow(h, q)'
    BY QuietFlow DEF FlowInv
  <1>2. \A q \in Peers : Held(q) = <<>> /\ Held(q)' = <<>>
    BY DEF Held
  <1>3. FlowInv'
    <2>1. ASSUME NEW q \in Peers PROVE Flow(<<>>, q)'
      BY <1>1, <1>2, NothingHeld
    <2> QED BY <1>1, <1>2, <2>1, HeldThen DEF FlowInv, ServiceSame
  <1> QED BY <1>1, <1>3, Stutters DEF Serves, Serving

\* The process ends with nothing in its hands that could still be sent.
LEMMA ExitServes ==
  ASSUME FlowInv, pc # "stopped", pc' = "stopped", UNCHANGED conn,
         UNCHANGED <<phase, nsent, inq, echoed, unread, fin, dead, err, queue>>,
         pc = "send" => dead[conn[sockfd]]
  PROVE  Serves
  <1>1. ServiceSame /\ \A q \in Peers : \A h \in Seq(Bytes) : Flow(h, q) => Flow(h, q)'
    BY QuietFlow DEF FlowInv
  <1>2. ASSUME NEW q \in Peers PROVE Flow(Held(q), q)'
    <2>1. Held(q)' = <<>>
      BY DEF Held
    <2>2. CASE dead[q]
      BY <2>2 DEF Flow
    <2>3. CASE ~dead[q]
      <3>1. Held(q) = <<>>
        BY <2>3 DEF Held
      <3>2. Flow(<<>>, q)'
        BY <1>1, <3>1, NothingHeld
      <3> QED BY <2>1, <3>2, HeldThen
    <2> QED BY <2>2, <2>3
  <1>3. Link' = Link
    BY DEF Link, LinkOf, Up, Queued
  <1>4. Serving /\ ~Serving'
    BY DEF Serving
  <1>5. Link' = [p \in Peers |-> IF p \in {} THEN "ended" ELSE Link[p]]
    BY <1>3 DEF Link
  <1>6. {} \in SUBSET {p \in Peers : Link[p] = "up"}
    OBVIOUS
  <1>7. Echo!Stop
    BY <1>1, <1>4, <1>5, <1>6, SameService DEF Echo!Stop, Link, Side, Sent, Serving, Up
  <1>8. FlowInv'
    BY <1>1, <1>2 DEF FlowInv, ServiceSame
  <1> QED BY <1>7, <1>8 DEF Serves, Echo!Next

LEMMA AcceptServes ==
  ASSUME ServerOK, FlowInv, NEW fd \in DOMAIN conn, conn[fd] = None,
         queue # <<>>, queue' = Tail(queue), conn' = [conn EXCEPT ![fd] = Head(queue)],
         UNCHANGED <<phase, nsent, inq, echoed, unread, fin, dead, err>>,
         pc \notin {"send", "stopped"}, pc' \notin {"send", "stopped"}
  PROVE  Serves
  <1>1. PICK p : p = Head(queue)
    OBVIOUS
  <1>2. /\ p \in Peers /\ Waiting(p) /\ ~Waiting(p)'
        /\ \A q \in Peers \ {p} : Waiting(q)' = Waiting(q)
    BY <1>1, AcceptEndsWait DEF ServerOK
  <1>3. ServiceSame /\ \A q \in Peers : \A h \in Seq(Bytes) : Flow(h, q) => Flow(h, q)'
    BY QuietFlow DEF FlowInv
  <1>4. DOMAIN conn' = DOMAIN conn /\ \A f \in DOMAIN conn : conn'[f] = IF f = fd THEN p ELSE conn[f]
    BY <1>1 DEF ServerOK
  <1>5. ~Up(p) /\ Up(p)'
    <2>1. p # None
      BY <1>2, EventServerAssumption
    <2>2. ~Up(p)
      BY <1>2, <2>1 DEF ServerOK, Up
    <2>3. Up(p)'
      BY <1>4 DEF Up
    <2> QED BY <2>2, <2>3
  <1>6. \A q \in Peers \ {p} : Up(q)' = Up(q)
    <2> SUFFICES ASSUME NEW q \in Peers \ {p} PROVE Up(q)' <=> Up(q)
      BY DEF Up
    <2>1. None \notin Peers
      BY EventServerAssumption
    <2> QED BY <1>4, <2>1 DEF Up
  <1>7. Link[p] = "none" /\ Link'[p] = "up" /\ \A q \in Peers \ {p} : Link'[q] = Link[q]
    BY <1>2, <1>5, <1>6, LinkIs
  <1>8. Link' = [Link EXCEPT ![p] = "up"]
    BY <1>2, <1>7 DEF Link
  <1>9. Serving /\ Serving'
    BY DEF Serving
  <1>10. Echo!Accept(p)
    BY <1>3, <1>7, <1>8, <1>9, SameService DEF Echo!Accept, Link, Side, Sent, Serving, Up
  <1>11. FlowInv'
    <2>1. \A q \in Peers : Held(q) = <<>> /\ Held(q)' = <<>>
      BY DEF Held
    <2>2. ASSUME NEW q \in Peers PROVE Flow(<<>>, q)'
      BY <1>3, <2>1, NothingHeld
    <2> QED BY <1>3, <2>1, <2>2, HeldThen DEF FlowInv, ServiceSame
  <1> QED BY <1>2, <1>10, <1>11 DEF Serves, Echo!Next

LEMMA RecvDataServes ==
  ASSUME ServerOK, FlowInv, pc = "recv", pc' = "send",
         RecvTakes(conn[sockfd]), buf' = Received(conn[sockfd]), UNCHANGED <<conn, sockfd>>
  PROVE  Serves
  <1>1. PICK p : p = conn[sockfd]
    OBVIOUS
  <1>2. p \in Peers /\ RecvTakes(p) /\ buf' = Received(p)
    BY <1>1 DEF ServerOK
  <1>3. /\ \A h : h = Received(p) /\ Flow(<<>>, p) => Flow(h, p)'
        /\ \A q \in Peers \ {p} : \A h \in Seq(Bytes) : Flow(h, q) => Flow(h, q)'
        /\ ServiceSame /\ UNCHANGED <<phase, queue, echoed>>
    BY <1>2, RecvFlow DEF ServerOK, FlowInv
  <1>4. \A q \in Peers : Held(q) = <<>> /\ Held(q)' = IF q = p THEN Received(p) ELSE <<>>
    BY <1>1, <1>2 DEF Held
  <1>5. Flow(Held(p), p)'
    <2>1. Flow(<<>>, p)
      <3>1. Flow(Held(p), p)
        BY <1>2 DEF FlowInv
      <3> QED BY <1>2, <1>4, <3>1
    <2>2. PICK h : h = Received(p)
      OBVIOUS
    <2>3. Flow(h, p)'
      BY <1>3, <2>1, <2>2
    <2> QED BY <1>2, <1>4, <2>2, <2>3, HeldThen
  <1>6. ASSUME NEW q \in Peers \ {p} PROVE Flow(Held(q), q)'
    <2>1. Flow(<<>>, q)'
      BY <1>3, <1>4, NothingHeld
    <2> QED BY <1>4, <2>1, HeldThen
  <1>7. FlowInv'
    BY <1>3, <1>5, <1>6 DEF FlowInv, ServiceSame
  <1>8. UNCHANGED Echo!vars
    BY <1>3, Stutters DEF Serving
  <1> QED BY <1>7, <1>8 DEF Serves

LEMMA RecvEndsServes ==
  ASSUME ServerOK, FlowInv, pc = "recv", pc' \notin {"send", "stopped"},
         conn' = [conn EXCEPT ![sockfd] = None],
         RecvResult(conn[sockfd]) \in {"eof", "ECONNRESET"},
         UNCHANGED clientVars \/ ErrorReported(conn[sockfd])
  PROVE  Serves
  <1>1. PICK p : p = conn[sockfd]
    OBVIOUS
  <1>2. RecvResult(p) \in {"eof", "ECONNRESET"} /\ (UNCHANGED clientVars \/ ErrorReported(p))
    BY <1>1
  <1>3. p \in Peers /\ sockfd \in DOMAIN conn
    BY <1>1 DEF ServerOK
  <1>4. /\ \A q \in Peers : \A h \in Seq(Bytes) : Flow(h, q) => Flow(h, q)'
        /\ ServiceSame /\ UNCHANGED <<phase, queue, echoed>>
    <2>1. CASE UNCHANGED clientVars
      BY <2>1, QuietFlow DEF FlowInv, clientVars
    <2>2. CASE ErrorReported(p)
      BY <1>3, <2>2, ErrorFlow DEF FlowInv, ServerOK
    <2> QED BY <1>2, <2>1, <2>2
  <1>5. \A q \in Peers : Held(q) = <<>> /\ Held(q)' = <<>>
    BY DEF Held
  <1>6. FlowInv'
    <2>1. ASSUME NEW q \in Peers PROVE Flow(<<>>, q)'
      BY <1>4, <1>5, NothingHeld
    <2> QED BY <1>4, <1>5, <2>1, HeldThen DEF FlowInv, ServiceSame
  <1>7. Flow(<<>>, p)
    BY <1>3, <1>4, <1>5, NothingHeld
  <1>8. SideOf(p) # "open" /\ (SideOf(p) = "half" => echoed[p] = SentBytes(p))
    BY <1>2, <1>3, <1>7, EndReported DEF ServerOK, FlowInv
  <1>9. /\ DOMAIN conn' = DOMAIN conn
        /\ \A f \in DOMAIN conn : conn'[f] = IF f = sockfd THEN None ELSE conn[f]
    BY DEF ServerOK
  <1>10. /\ Up(p) /\ ~Up(p)' /\ ~Waiting(p)' /\ None \notin Peers
         /\ \A q \in Peers \ {p} : Up(q)' = Up(q) /\ Waiting(q)' = Waiting(q)
    <2>1. None \notin Peers
      BY EventServerAssumption
    <2>2. Up(p) /\ ~Waiting(p) /\ \A f \in DOMAIN conn : conn[f] = p => f = sockfd
      BY <1>1, <1>3, <2>1 DEF ServerOK, Up
    <2>3. \A q \in Peers : Waiting(q)' = Waiting(q)
      BY <1>4 DEF Waiting, Queued
    <2>4. ~Up(p)'
      BY <1>3, <1>9, <2>1, <2>2 DEF Up
    <2>5. ASSUME NEW q \in Peers \ {p} PROVE Up(q)' = Up(q)
      <3>1. Up(q)' <=> Up(q)
        BY <1>1, <1>9, <2>1 DEF Up
      <3> QED BY <3>1 DEF Up
    <2> QED BY <1>3, <2>1, <2>2, <2>3, <2>4, <2>5
  <1>11. Link[p] = "up" /\ Link'[p] = "ended" /\ \A q \in Peers \ {p} : Link'[q] = Link[q]
    BY <1>3, <1>10, LinkIs
  <1>12. Link' = [Link EXCEPT ![p] = "ended"]
    BY <1>3, <1>11 DEF Link
  <1>13. Serving /\ Serving' /\ Side[p] = SideOf(p) /\ Sent[p] = SentBytes(p)
    BY <1>3 DEF Serving, Side, Sent
  <1>14. Echo!End(p)
    BY <1>3, <1>4, <1>8, <1>11, <1>12, <1>13, SameService
      DEF Echo!End, Link, Side, Sent, Serving, Up
  <1> QED BY <1>3, <1>6, <1>14 DEF Serves, Echo!Next

LEMMA SendServes ==
  ASSUME ServerOK, FlowInv, pc = "send", SendResult(conn[sockfd]) = "sent",
         NEW n \in 1 .. Len(buf), SendTakes(conn[sockfd], buf, n),
         buf' = SubSeq(buf, n + 1, Len(buf)),
         buf' = <<>> \/ pc' = "send", pc' # "stopped", UNCHANGED <<conn, sockfd>>
  PROVE  Serves
  <1>1. PICK p : p = conn[sockfd]
    OBVIOUS
  <1>2. p \in Peers /\ sockfd \in DOMAIN conn /\ buf \in Seq(Bytes)
    BY <1>1 DEF ServerOK
  <1>3. PICK b \in Seq(Bytes) : b = buf
    BY <1>2
  <1>4. ~dead[p]
    BY <1>1 DEF SendResult
  <1>5. Flow(b, p)
    <2>1. Flow(Held(p), p) /\ Held(p) = b
      BY <1>1, <1>2, <1>3 DEF FlowInv, Held
    <2> QED BY <2>1
  <1>6. n \in 1 .. Len(b) /\ SendTakes(p, b, n)
    BY <1>1, <1>3
  <1>7. /\ Flow(SubSeq(b, n + 1, Len(b)), p)'
        /\ \A q \in Peers \ {p} : \A h \in Seq(Bytes) : Flow(h, q) => Flow(h, q)'
        /\ \E m \in Len(echoed[p]) + 1 .. Len(SentBytes(p)) :
             echoed' = [echoed EXCEPT ![p] = SubSeq(SentBytes(p), 1, m)]
        /\ ServiceSame /\ UNCHANGED <<phase, queue>>
    BY <1>2, <1>3, <1>4, <1>5, <1>6, SendTakesFlow DEF ServerOK, FlowInv
  <1>8. FlowInv'
    <2>1. PICK h : h = SubSeq(b, n + 1, Len(b))
      OBVIOUS
    <2>2. Held(p)' = h
      BY <1>1, <1>3, <2>1 DEF Held
    <2>3. Flow(Held(p), p)'
      BY <1>2, <1>7, <2>1, <2>2, HeldThen
    <2>4. ASSUME NEW q \in Peers \ {p} PROVE Flow(Held(q), q)'
      <3>1. Held(q) = <<>> /\ Held(q)' = <<>>
        BY <1>1 DEF Held
      <3>2. Flow(<<>>, q)'
        BY <1>7, <3>1, NothingHeld
      <3> QED BY <3>1, <3>2, HeldThen
    <2> QED BY <1>7, <2>3, <2>4 DEF FlowInv, ServiceSame
  <1>9. Link[p] = "up" /\ Link' = Link
    <2>1. Up(p)
      BY <1>1, <1>2 DEF Up
    <2>2. Link' = Link
      BY <1>7 DEF Link, LinkOf, Up, Queued
    <2> QED BY <1>2, <2>1, <2>2, LinkIs
  <1>10. Serving /\ Serving' /\ Sent[p] = SentBytes(p)
    BY <1>2 DEF Serving, Sent
  <1>11. Echo!Echo(p)
    BY <1>7, <1>9, <1>10, SameService DEF Echo!Echo, Link, Side, Sent, Serving, Up
  <1> QED BY <1>2, <1>8, <1>11 DEF Serves, Echo!Next

\* A reset is reported, and the rest of the buffer is lost with the connection.
LEMMA SendFailsServes ==
  ASSUME ServerOK, FlowInv, pc = "send", pc' \notin {"send", "stopped"}, UNCHANGED conn,
         SendResult(conn[sockfd]) = "error", ErrorReported(conn[sockfd])
  PROVE  Serves
  <1>1. PICK p : p = conn[sockfd]
    OBVIOUS
  <1>2. p \in Peers /\ SendResult(p) = "error" /\ ErrorReported(p)
    BY <1>1 DEF ServerOK
  <1>3. dead[p] /\ dead'[p]
    BY <1>2 DEF SendResult, ErrorReported
  <1>4. /\ \A q \in Peers : \A h \in Seq(Bytes) : Flow(h, q) => Flow(h, q)'
        /\ ServiceSame /\ UNCHANGED <<phase, queue, echoed>>
    BY <1>2, ErrorFlow DEF FlowInv, ServerOK
  <1>5. ASSUME NEW q \in Peers PROVE Flow(Held(q), q)'
    <2>1. CASE q = p
      BY <1>3, <2>1 DEF Flow
    <2>2. CASE q # p
      <3>1. Held(q) = <<>> /\ Held(q)' = <<>>
        BY <1>1, <2>2 DEF Held
      <3>2. Flow(<<>>, q)'
        BY <1>4, <3>1, NothingHeld
      <3> QED BY <3>1, <3>2, HeldThen
    <2> QED BY <2>1, <2>2
  <1>6. FlowInv'
    BY <1>4, <1>5 DEF FlowInv, ServiceSame
  <1>7. UNCHANGED Echo!vars
    BY <1>4, Stutters DEF Serving
  <1> QED BY <1>6, <1>7 DEF Serves

LEMMA ClientMovesServe ==
  ASSUME ServerOK, FlowInv, UNCHANGED <<conn, sockfd, buf, pc>>,
         \E p \in Peers : ClientStep(p)
  PROVE  Serves
  <1>1. UNCHANGED <<conn, sockfd, buf, pc>>
    OBVIOUS
  <1>2. PICK p \in Peers : ClientFlow(p)
    BY ClientStepFlow DEF ServerOK, FlowInv
  <1>3. ASSUME NEW q \in Peers PROVE Flow(Held(q), q)'
    <2>1. PICK h \in Seq(Bytes) : h = Held(q)
      BY HeldIsBytes
    <2>2. Flow(h, q)
      BY <2>1 DEF FlowInv
    <2>3. Flow(h, q)'
      BY <1>2, <2>1, <2>2 DEF ClientFlow
    <2>4. Held(q)' = h
      BY <1>1, <2>1 DEF Held
    <2> QED BY <2>3, <2>4, HeldThen
  <1>4. FlowInv'
    BY <1>2, <1>3 DEF FlowInv, ClientFlow
  <1>5. Link' = Link
    <2>1. \A q \in Peers : Up(q)' = Up(q) /\ Waiting(q)' = Waiting(q)
      BY <1>1, <1>2 DEF ClientFlow, Up
    <2> QED BY <2>1, LinkIs DEF Link
  <1>6. Serving' = Serving /\ echoed' = echoed
    BY <1>1, <1>2 DEF Serving, ClientFlow
  <1>7. /\ \A q \in Peers \ {p} : Side'[q] = Side[q] /\ Sent'[q] = Sent[q]
        /\ \/ Side'[p] = Side[p] /\ Sent'[p] = Sent[p]
           \/ Side[p] # "gone" /\ Side'[p] \in {"half", "gone"} /\ Sent'[p] = Sent[p]
           \/ /\ Side[p] = "open" /\ Side'[p] = "open"
              /\ \E b \in Bytes : Sent'[p] = Append(Sent[p], b)
    BY <1>2 DEF ClientFlow, ServiceMove, Side, Sent
  <1>8. CASE Side'[p] = Side[p] /\ Sent'[p] = Sent[p]
    <2>1. Side' = Side /\ Sent' = Sent
      BY <1>7, <1>8 DEF Side, Sent
    <2> QED BY <1>4, <1>5, <1>6, <2>1, Mapping DEF Serves
  <1>9. CASE Side[p] # "gone" /\ Side'[p] \in {"half", "gone"} /\ Sent'[p] = Sent[p]
    <2>1. Sent' = Sent /\ Side' = [Side EXCEPT ![p] = Side'[p]]
      BY <1>7, <1>9 DEF Side, Sent
    <2>2. Echo!Client(p)
      BY <1>5, <1>6, <1>9, <2>1 DEF Echo!Client, Link, Side, Sent, Serving, Up
    <2> QED BY <1>4, <2>2 DEF Serves, Echo!Next
  <1>10. CASE /\ Side[p] = "open" /\ Side'[p] = "open"
              /\ \E b \in Bytes : Sent'[p] = Append(Sent[p], b)
    <2>1. PICK b \in Bytes : Sent'[p] = Append(Sent[p], b)
      BY <1>10
    <2>2. Side' = Side /\ Sent' = [Sent EXCEPT ![p] = Append(Sent[p], b)]
      BY <1>7, <1>10, <2>1 DEF Side, Sent
    <2>3. Echo!Client(p)
      BY <1>5, <1>6, <1>10, <2>1, <2>2 DEF Echo!Client, Link, Side, Sent, Serving, Up
    <2> QED BY <1>4, <2>3 DEF Serves, Echo!Next
  <1> QED BY <1>7, <1>8, <1>9, <1>10

LEMMA StutterServes ==
  ASSUME FlowInv, UNCHANGED <<phase, nsent, inq, echoed, unread, fin, dead, err, queue>>,
         UNCHANGED <<conn, sockfd, buf, pc>>
  PROVE  Serves
  <1>1. ServiceSame
    BY QuietFlow DEF FlowInv
  <1>2. FlowInv'
    BY DEF FlowInv, EndsOK, Flow, Held, SentBytes
  <1> QED BY <1>1, <1>2, Stutters DEF Serves, Serving

----------------------------------------------------------------------------
(* The steps of the select server are steps of the service. *)

USE SelectAssumption

LEMMA SelectServerOK == ASSUME SelectIInv PROVE ServerOK /\ DOMAIN conn = SelectConnFds
  <1>1. DOMAIN conn = SelectConnFds /\ ClientsTypeOK /\ QueueOK /\ buf \in Seq(Bytes)
    BY DEF SelectIInv, SelectTypeOK
  <1>2. conn \in [DOMAIN conn -> Peers \cup {None}]
    BY <1>1 DEF SelectIInv, SelectTypeOK
  <1>3. pc \in {"recv", "send"} => sockfd \in DOMAIN conn /\ conn[sockfd] \in Peers
    BY <1>1, SelectInUse DEF SelectIInv, SelectReported
  <1> QED BY <1>1, <1>2, <1>3 DEF ServerOK, SelectIInv, SelectConnected, Waiting

LEMMA SelectNextServes ==
  ASSUME SelectIInv, FlowInv, [SelectNext]_selectVars PROVE Serves
  <1>1. ServerOK /\ DOMAIN conn = SelectConnFds
    BY SelectServerOK
  <1>2. CASE Select \/ SelectScan
    BY <1>2, LoopServes DEF Select, SelectScan, clientVars
  <1>3. CASE SelectAccept
    <2>1. PICK fd : fd = Min(SelectFreeFds)
      OBVIOUS
    <2>2. SelectFreeFds \in SUBSET Nat
      BY DEF SelectFreeFds, SelectConnFds
    <2>3. fd \in DOMAIN conn /\ conn[fd] = None
      BY <1>1, <1>3, <2>1, <2>2, MinOfNumbers DEF SelectFreeFds, SelectAccept
    <2>4. /\ pc = "accept" /\ queue # <<>> /\ queue' = Tail(queue)
          /\ conn' = [conn EXCEPT ![fd] = Head(queue)] /\ pc' \in {"select", "scan"}
          /\ UNCHANGED <<phase, nsent, inq, echoed, unread, fin, dead, err>>
      BY <1>3, <2>1 DEF SelectAccept, SelectHandled
    <2> QED BY <1>1, <2>3, <2>4, AcceptServes
  <1>4. CASE SelectRecvData
    BY <1>1, <1>4, RecvDataServes DEF SelectRecvData
  <1>5. CASE SelectRecvEnds
    <2>1. /\ pc = "recv" /\ pc' \in {"select", "scan"} /\ conn' = [conn EXCEPT ![sockfd] = None]
          /\ RecvResult(conn[sockfd]) \in {"eof", "ECONNRESET"}
          /\ UNCHANGED clientVars \/ ErrorReported(conn[sockfd])
      BY <1>5 DEF SelectRecvEnds, SelectHandled
    <2> QED BY <1>1, <2>1, RecvEndsServes
  <1>6. CASE SelectRecvFails \/ SelectAcceptFails
    BY <1>6, ExitServes DEF SelectRecvFails, SelectAcceptFails, SelectExit, clientVars
  <1>7. CASE SelectSend
    <2>1. PICK n \in 1 .. Len(buf) :
            SendTakes(conn[sockfd], buf, n) /\ buf' = SubSeq(buf, n + 1, Len(buf))
      BY <1>7 DEF SelectSend
    <2>2. /\ pc = "send" /\ UNCHANGED <<conn, sockfd>> /\ SendResult(conn[sockfd]) = "sent"
          /\ pc' \in {"select", "scan", "send"}
          /\ buf' = <<>> \/ pc' = "send"
      BY <1>7 DEF SelectSend, SelectHandled
    <2> QED BY <1>1, <2>1, <2>2, SendServes
  <1>8. CASE SelectSendFails
    <2>1. /\ pc = "send" /\ pc' \in {"select", "scan"} /\ UNCHANGED conn
          /\ SendResult(conn[sockfd]) = "error" /\ ErrorReported(conn[sockfd])
      BY <1>8 DEF SelectSendFails, SelectHandled
    <2> QED BY <1>1, <2>1, SendFailsServes
  <1>9. CASE SelectSendKills
    <2>1. dead[conn[sockfd]] /\ pc = "send"
      BY <1>9 DEF SelectSendKills, SendResult
    <2> QED BY <1>9, <2>1, ExitServes DEF SelectSendKills, SelectExit, clientVars
  <1>10. CASE SelectClientMoves
    BY <1>1, <1>10, ClientMovesServe DEF SelectClientMoves, selectServerVars
  <1>11. CASE UNCHANGED selectVars
    BY <1>11, StutterServes DEF selectVars, clientVars, selectServerVars
  <1> QED BY <1>2, <1>3, <1>4, <1>5, <1>6, <1>7, <1>8, <1>9, <1>10, <1>11
        DEF SelectNext, SelectServer

LEMMA SelectInitMaps == SelectInit => FlowInv /\ Echo!Init
  BY StartServes DEF SelectInit

(* The select server implements the echo service: each client gets back a  *)
(* prefix of what it has sent, in order and nobody else's, and loses its   *)
(* connection only after it has ended it, with every byte returned if it   *)
(* can still read, or with the process.                                    *)
THEOREM SelectImplementsEcho == SelectSpec => EchoSpec
  <1>1. SelectIInv /\ FlowInv /\ [SelectNext]_selectVars => FlowInv' /\ [Echo!Next]_(Echo!vars)
    BY SelectNextServes DEF Serves
  <1> QED BY <1>1, SelectInitMaps, SelectInductive, PTL DEF SelectSpec, EchoSpec, Echo!Spec

HIDE SelectAssumption

----------------------------------------------------------------------------
(* And so are those of the poll server. *)

USE PollAssumption

LEMMA PollServerOK == ASSUME PollIInv PROVE ServerOK /\ DOMAIN conn = PollConnFds
  <1>1. DOMAIN conn = PollConnFds /\ ClientsTypeOK /\ QueueOK /\ buf \in Seq(Bytes)
    BY DEF PollIInv, PollTypeOK
  <1>2. conn \in [DOMAIN conn -> Peers \cup {None}]
    BY <1>1 DEF PollIInv, PollTypeOK
  <1>3. pc \in {"recv", "send"} => sockfd \in DOMAIN conn /\ conn[sockfd] \in Peers
    BY <1>1, PollInUse DEF PollIInv, PollReported
  <1> QED BY <1>1, <1>2, <1>3 DEF ServerOK, PollIInv, PollConnected, Waiting

LEMMA PollNextServes ==
  ASSUME PollIInv, FlowInv, [PollNext]_pollVars PROVE Serves
  <1>1. ServerOK /\ DOMAIN conn = PollConnFds
    BY PollServerOK
  <1>2. CASE Poll \/ PollScan
    BY <1>2, LoopServes DEF Poll, PollScan, clientVars
  <1>3. CASE PollAccept
    <2>1. PICK fd : fd = Min(PollFreeFds)
      OBVIOUS
    <2>2. PollFreeFds \in SUBSET Nat
      BY DEF PollFreeFds, PollConnFds
    <2>3. fd \in DOMAIN conn /\ conn[fd] = None
      BY <1>1, <1>3, <2>1, <2>2, MinOfNumbers DEF PollFreeFds, PollAccept
    <2>4. /\ pc = "accept" /\ queue # <<>> /\ queue' = Tail(queue)
          /\ conn' = [conn EXCEPT ![fd] = Head(queue)] /\ pc' \in {"poll", "scan"}
          /\ UNCHANGED <<phase, nsent, inq, echoed, unread, fin, dead, err>>
      BY <1>3, <2>1 DEF PollAccept, PollHandled
    <2> QED BY <1>1, <2>3, <2>4, AcceptServes
  <1>4. CASE PollRecvData
    BY <1>1, <1>4, RecvDataServes DEF PollRecvData
  <1>5. CASE PollRecvEnds
    <2>1. /\ pc = "recv" /\ pc' \in {"poll", "scan"} /\ conn' = [conn EXCEPT ![sockfd] = None]
          /\ RecvResult(conn[sockfd]) \in {"eof", "ECONNRESET"}
          /\ UNCHANGED clientVars \/ ErrorReported(conn[sockfd])
      BY <1>5 DEF PollRecvEnds, PollHandled
    <2> QED BY <1>1, <2>1, RecvEndsServes
  <1>6. CASE PollRecvFails \/ PollAcceptFails
    BY <1>6, ExitServes DEF PollRecvFails, PollAcceptFails, PollExit, clientVars
  <1>7. CASE PollSend
    <2>1. PICK n \in 1 .. Len(buf) :
            SendTakes(conn[sockfd], buf, n) /\ buf' = SubSeq(buf, n + 1, Len(buf))
      BY <1>7 DEF PollSend
    <2>2. /\ pc = "send" /\ UNCHANGED <<conn, sockfd>> /\ SendResult(conn[sockfd]) = "sent"
          /\ pc' \in {"poll", "scan", "send"}
          /\ buf' = <<>> \/ pc' = "send"
      BY <1>7 DEF PollSend, PollHandled
    <2> QED BY <1>1, <2>1, <2>2, SendServes
  <1>8. CASE PollSendFails
    <2>1. /\ pc = "send" /\ pc' \in {"poll", "scan"} /\ UNCHANGED conn
          /\ SendResult(conn[sockfd]) = "error" /\ ErrorReported(conn[sockfd])
      BY <1>8 DEF PollSendFails, PollHandled
    <2> QED BY <1>1, <2>1, SendFailsServes
  <1>9. CASE PollSendKills
    <2>1. dead[conn[sockfd]] /\ pc = "send"
      BY <1>9 DEF PollSendKills, SendResult
    <2> QED BY <1>9, <2>1, ExitServes DEF PollSendKills, PollExit, clientVars
  <1>10. CASE PollClientMoves
    BY <1>1, <1>10, ClientMovesServe DEF PollClientMoves, pollServerVars
  <1>11. CASE UNCHANGED pollVars
    BY <1>11, StutterServes DEF pollVars, clientVars, pollServerVars
  <1> QED BY <1>2, <1>3, <1>4, <1>5, <1>6, <1>7, <1>8, <1>9, <1>10, <1>11
        DEF PollNext, PollServer

LEMMA PollInitMaps == PollInit => FlowInv /\ Echo!Init
  BY StartServes DEF PollInit

(* The poll server implements the same service, whatever the uninitialised *)
(* revents of its entries hold.                                            *)
THEOREM PollImplementsEcho == PollSpec => EchoSpec
  <1>1. PollIInv /\ FlowInv /\ [PollNext]_pollVars => FlowInv' /\ [Echo!Next]_(Echo!vars)
    BY PollNextServes DEF Serves
  <1> QED BY <1>1, PollInitMaps, PollInductive, PTL DEF PollSpec, EchoSpec, Echo!Spec

HIDE PollAssumption

----------------------------------------------------------------------------
(* Whichever of the two runs. *)

EventIInv ==
  /\ server \in {"poll", "select"}
  /\ server = "poll" => PollIInv
  /\ server = "select" => SelectIInv

LEMMA EventInitIInv == EventInit => EventIInv
  BY SelectInitIInv, PollInitIInv DEF EventInit, EventIInv

LEMMA EventNextIInv == EventIInv /\ [EventNext]_eventVars => EventIInv'
  <1> SUFFICES ASSUME EventIInv, [EventNext]_eventVars PROVE EventIInv'
    OBVIOUS
  <1>1. server' = server
    BY DEF EventNext, eventVars
  <1>2. CASE server = "poll"
    <2>1. [PollNext]_pollVars
      BY <1>2 DEF EventNext, eventVars, pollVars, pollServerVars, clientVars
    <2> QED BY <1>1, <1>2, <2>1, PollNextIInv DEF EventIInv
  <1>3. CASE server = "select"
    <2>1. [SelectNext]_selectVars
      BY <1>3 DEF EventNext, eventVars, selectVars, selectServerVars, clientVars
    <2> QED BY <1>1, <1>3, <2>1, SelectNextIInv DEF EventIInv
  <1> QED BY <1>2, <1>3 DEF EventIInv

LEMMA EventInductive == EventSpec => []EventIInv
  BY EventInitIInv, EventNextIInv, PTL DEF EventSpec

(* Type correctness: no index of either server leaves client[], and no     *)
(* descriptor put into a set of the select server reaches FD_SETSIZE.       *)
THEOREM TypeCorrect == EventSpec => []TypeOK
  <1>1. EventIInv => TypeOK
    BY DEF EventIInv, PollIInv, SelectIInv, TypeOK
  <1> QED BY <1>1, EventInductive, PTL

(* The tables of tcpserv_select.cpp and tcpserv_poll.cpp always list the    *)
(* open connections, each once, and neither the loop nor the system call   *)
(* leaves one out.                                                         *)
THEOREM TheBooksAgree == EventSpec => []BookkeepingAgrees
  <1>1. EventIInv => BookkeepingAgrees
    BY DEF EventIInv, PollIInv, SelectIInv, BookkeepingAgrees
  <1> QED BY <1>1, EventInductive, PTL

(* nready is the number of descriptors still to be served: the early exits  *)
(* of the loop of tcpserv_select.cpp skip nobody.                            *)
THEOREM EarlyExitsAreRight == EventSpec => []ReadyCountExact
  <1>1. EventIInv => ReadyCountExact
    BY DEF EventIInv, SelectIInv, ReadyCountExact
  <1> QED BY <1>1, EventInductive, PTL

(* Either server calls recv() only for a client that has sent something or *)
(* has ended, so that a silent one never blocks the others.                *)
THEOREM RecvReturns == EventSpec => []RecvNeverBlocks
  <1>1. EventIInv => RecvNeverBlocks
    BY SelectRecvHasNews, PollRecvHasNews DEF EventIInv
  <1> QED BY <1>1, EventInductive, PTL

(* Both implement the echo service, over the same clients. *)
THEOREM ImplementsEcho == EventSpec => EchoSpec
  <1>1. EventInit => FlowInv /\ Echo!Init
    BY SelectInitMaps, PollInitMaps DEF EventInit
  <1>2. EventIInv /\ FlowInv /\ [EventNext]_eventVars => FlowInv' /\ [Echo!Next]_(Echo!vars)
    <2> SUFFICES ASSUME EventIInv, FlowInv, [EventNext]_eventVars PROVE Serves
      BY DEF Serves
    <2>1. CASE server = "poll"
      <3>1. [PollNext]_pollVars
        BY <2>1 DEF EventNext, eventVars, pollVars, pollServerVars, clientVars
      <3> QED BY <2>1, <3>1, PollNextServes DEF EventIInv
    <2>2. CASE server = "select"
      <3>1. [SelectNext]_selectVars
        BY <2>2 DEF EventNext, eventVars, selectVars, selectServerVars, clientVars
      <3> QED BY <2>2, <3>1, SelectNextServes DEF EventIInv
    <2> QED BY <2>1, <2>2 DEF EventIInv
  <1> QED BY <1>1, <1>2, EventInductive, PTL DEF EventSpec, EchoSpec, Echo!Spec

----------------------------------------------------------------------------
(* What the service promises, and so the servers. *)

Kept ==
  /\ Link \in [Peers -> {"none", "up", "ended"}] /\ Side \in [Peers -> {"open", "half", "gone"}]
  /\ Sent \in [Peers -> Seq(Bytes)] /\ echoed \in [Peers -> Seq(Bytes)]
  /\ \A p \in Peers :
       /\ \E n \in 0 .. Len(Sent[p]) : echoed[p] = SubSeq(Sent[p], 1, n)
       /\ Serving /\ Link[p] = "ended" => Side[p] # "open"
       /\ Serving /\ Link[p] = "ended" /\ Side[p] = "half" => echoed[p] = Sent[p]

LEMMA KeptAtFirst == Echo!Init => Kept
  <1> SUFFICES ASSUME Echo!Init PROVE Kept
    OBVIOUS
  <1>1. /\ Link = [p \in Peers |-> "none"] /\ Side = [p \in Peers |-> "open"]
        /\ Sent = [p \in Peers |-> <<>>] /\ echoed = [p \in Peers |-> <<>>]
    BY DEF Echo!Init, Link, Side, Sent, Up, Serving
  <1>2. <<>> \in Seq(Bytes) /\ Len(<<>>) = 0 /\ SubSeq(<<>>, 1, 0) = <<>>
    OBVIOUS
  <1>3. \A p \in Peers : \E n \in 0 .. Len(Sent[p]) : echoed[p] = SubSeq(Sent[p], 1, n)
    <2> TAKE p \in Peers
    <2>1. 0 \in 0 .. Len(Sent[p]) /\ echoed[p] = SubSeq(Sent[p], 1, 0)
      BY <1>1, <1>2
    <2> QED BY <2>1
  <1> QED BY <1>1, <1>2, <1>3 DEF Kept

LEMMA KeptByService == Kept /\ [Echo!Next]_(Echo!vars) => Kept'
  <1> SUFFICES ASSUME Kept, [Echo!Next]_(Echo!vars) PROVE Kept'
    OBVIOUS
  <1>1. CASE UNCHANGED Echo!vars
    <2>1. Link' = Link /\ Side' = Side /\ Sent' = Sent /\ echoed' = echoed /\ Serving' = Serving
      BY <1>1 DEF Echo!vars, Link, Side, Sent, Up, Serving
    <2> QED BY <2>1 DEF Kept
  <1>2. CASE Echo!Stop
    <2>1. /\ Side' = Side /\ Sent' = Sent /\ echoed' = echoed /\ Serving' = FALSE
          /\ \E gone \in SUBSET Peers : Link' = [p \in Peers |-> IF p \in gone THEN "ended" ELSE Link[p]]
      BY <1>2 DEF Echo!Stop, Link, Side, Sent, Up, Serving
    <2> QED BY <2>1 DEF Kept
  <1>3. ASSUME NEW p \in Peers, Echo!Accept(p) PROVE Kept'
    <2>1. /\ Link' = [Link EXCEPT ![p] = "up"]
          /\ Side' = Side /\ Sent' = Sent /\ echoed' = echoed /\ Serving' = Serving
      BY <1>3 DEF Echo!Accept, Link, Side, Sent, Up, Serving
    <2>2. Link' \in [Peers -> {"none", "up", "ended"}]
      BY <2>1 DEF Kept
    <2>3. \A q \in Peers : Link'[q] = "ended" => Link[q] = "ended"
      BY <2>1 DEF Kept
    <2> QED BY <2>1, <2>2, <2>3 DEF Kept
  <1>4. ASSUME NEW p \in Peers, Echo!End(p) PROVE Kept'
    <2>1. /\ Link' = [Link EXCEPT ![p] = "ended"] /\ Side[p] # "open"
          /\ Side[p] = "half" => echoed[p] = Sent[p]
          /\ Side' = Side /\ Sent' = Sent /\ echoed' = echoed /\ Serving' = Serving
      BY <1>4 DEF Echo!End, Link, Side, Sent, Up, Serving
    <2>2. Link' \in [Peers -> {"none", "up", "ended"}]
      BY <2>1 DEF Kept
    <2>3. \A q \in Peers : q # p => Link'[q] = Link[q]
      BY <2>1 DEF Kept
    <2> QED BY <2>1, <2>2, <2>3 DEF Kept
  <1>5. ASSUME NEW p \in Peers, Echo!Echo(p) PROVE Kept'
    <2>1. /\ Link[p] = "up"
          /\ \E n \in Len(echoed[p]) + 1 .. Len(Sent[p]) :
               echoed' = [echoed EXCEPT ![p] = SubSeq(Sent[p], 1, n)]
          /\ Link' = Link /\ Side' = Side /\ Sent' = Sent /\ Serving' = Serving
      BY <1>5 DEF Echo!Echo, Link, Side, Sent, Up, Serving
    <2>2. PICK n \in Len(echoed[p]) + 1 .. Len(Sent[p]) :
            echoed' = [echoed EXCEPT ![p] = SubSeq(Sent[p], 1, n)]
      BY <2>1
    <2>3. Sent[p] \in Seq(Bytes) /\ echoed[p] \in Seq(Bytes) /\ echoed \in [Peers -> Seq(Bytes)]
      BY DEF Kept
    <2>4. n \in 0 .. Len(Sent[p])
      BY <2>3
    <2>5. SubSeq(Sent[p], 1, n) \in Seq(Bytes)
      BY <2>3, <2>4
    <2>6. /\ echoed' \in [Peers -> Seq(Bytes)] /\ echoed'[p] = SubSeq(Sent[p], 1, n)
          /\ \A q \in Peers : q # p => echoed'[q] = echoed[q]
      BY <2>2, <2>3, <2>5
    <2>7. ASSUME NEW q \in Peers
          PROVE  /\ \E m \in 0 .. Len(Sent[q]) : echoed'[q] = SubSeq(Sent[q], 1, m)
                 /\ Serving /\ Link[q] = "ended" => Side[q] # "open"
                 /\ Serving /\ Link[q] = "ended" /\ Side[q] = "half" => echoed'[q] = Sent[q]
      <3>1. CASE q = p
        BY <3>1, <2>1, <2>4, <2>6
      <3>2. CASE q # p
        BY <3>2, <2>6 DEF Kept
      <3> QED BY <3>1, <3>2
    <2> QED BY <2>1, <2>6, <2>7 DEF Kept
  <1>6. ASSUME NEW p \in Peers, Echo!Client(p) PROVE Kept'
    <2>1. /\ \/ /\ Side[p] # "gone"
                /\ Side' \in {[Side EXCEPT ![p] = s] : s \in {"half", "gone"}}
                /\ Sent' = Sent
             \/ /\ Side[p] = "open"
                /\ \E b \in Bytes : Sent' = [Sent EXCEPT ![p] = Append(Sent[p], b)]
                /\ Side' = Side
          /\ Link' = Link /\ echoed' = echoed /\ Serving' = Serving
      BY <1>6 DEF Echo!Client, Link, Side, Sent, Up, Serving
    <2>2. CASE Side[p] # "gone" /\ Side' \in {[Side EXCEPT ![p] = s] : s \in {"half", "gone"}} /\ Sent' = Sent
      <3>1. PICK s \in {"half", "gone"} : Side' = [Side EXCEPT ![p] = s]
        BY <2>2
      <3>2. Side' \in [Peers -> {"open", "half", "gone"}]
        BY <3>1 DEF Kept
      <3>3. \A q \in Peers :
              /\ Side[q] # "open" => Side'[q] # "open"
              /\ Side'[q] = "half" => Side[q] \in {"open", "half"}
        BY <2>2, <3>1 DEF Kept
      <3> QED BY <2>1, <2>2, <3>2, <3>3 DEF Kept
    <2>3. ASSUME Side[p] = "open", NEW b \in Bytes, Sent' = [Sent EXCEPT ![p] = Append(Sent[p], b)], Side' = Side
          PROVE  Kept'
      <3>1. Sent[p] \in Seq(Bytes) /\ Append(Sent[p], b) \in Seq(Bytes) /\ Sent \in [Peers -> Seq(Bytes)]
        BY DEF Kept
      <3>2. /\ Sent' \in [Peers -> Seq(Bytes)] /\ Sent'[p] = Append(Sent[p], b)
            /\ \A q \in Peers : q # p => Sent'[q] = Sent[q]
        BY <2>3, <3>1
      <3>3. PICK n \in 0 .. Len(Sent[p]) : echoed[p] = SubSeq(Sent[p], 1, n)
        BY DEF Kept
      <3>4. n \in 0 .. Len(Sent'[p]) /\ SubSeq(Sent'[p], 1, n) = SubSeq(Sent[p], 1, n)
        BY <3>1, <3>2
      <3>5. ASSUME NEW q \in Peers
            PROVE  /\ \E m \in 0 .. Len(Sent'[q]) : echoed[q] = SubSeq(Sent'[q], 1, m)
                   /\ Serving /\ Link[q] = "ended" => Side[q] # "open"
                   /\ Serving /\ Link[q] = "ended" /\ Side[q] = "half" => echoed[q] = Sent'[q]
        <4>1. CASE q = p
          <5>1. \E m \in 0 .. Len(Sent'[q]) : echoed[q] = SubSeq(Sent'[q], 1, m)
            BY <4>1, <3>3, <3>4
          <5>2. Side[q] = "open" /\ (Serving /\ Link[q] = "ended" => Side[q] # "open")
            BY <4>1, <2>3 DEF Kept
          <5> QED BY <5>1, <5>2
        <4>2. CASE q # p
          BY <4>2, <3>2 DEF Kept
        <4> QED BY <4>1, <4>2
      <3> QED BY <2>1, <2>3, <3>2, <3>5 DEF Kept
    <2> QED BY <2>1, <2>2, <2>3
  <1> QED BY <1>1, <1>2, <1>3, <1>4, <1>5, <1>6 DEF Echo!Next

(* Whatever a client gets back is the start of what it has sent, also when  *)
(* its connection is gone, and one that has only closed its sending side    *)
(* and sees the connection end while the server runs has got every byte.    *)
THEOREM ClientsGetTheirBytes == EventSpec => []Echo!Promise
  <1>1. Kept => Echo!Promise
    BY DEF Kept, Echo!Promise, Link, Side, Sent, Up, Serving
  <1>2. EchoSpec => []Kept
    BY KeptAtFirst, KeptByService, PTL DEF EchoSpec, Echo!Spec
  <1> QED BY <1>1, <1>2, ImplementsEcho, PTL
=============================================================================
