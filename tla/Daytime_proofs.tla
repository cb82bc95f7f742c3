--------------------------- MODULE Daytime_proofs ---------------------------
(***************************************************************************)
(* The daytime programs, proved for any number of clients, any length of   *)
(* the line and any pieces of it that recv() returns, over a network that  *)
(* loses, duplicates and reorders datagrams.                               *)
(***************************************************************************)
EXTENDS Daytime, SequenceTheorems, TLAPS

Pieces == (1 .. MaxTime) \X (1 .. LineLen)

(* The types of TypeOK, with those of the bytes that a client has been sent. *)
Types ==
  /\ transport \in {"tcp", "udp", "udp_connect"}
  /\ now \in 1 .. MaxTime
  /\ asked \in [Clients -> 0 .. MaxTime]
  /\ printed \in [Clients -> Seq(Pieces)]
  /\ inq \in [Clients -> Seq(Pieces)]
  /\ at \in [Clients -> {"start", "recv"} \cup Gone]
  /\ queue \in Seq(Clients)
  /\ link \in [Clients -> {"none", "open", "fin", "reset", "broken"}]
  /\ requests \in [Clients -> 0 .. 1 + MaxDups]
  /\ answers \in [Clients -> SUBSET (1 .. MaxTime)]
  /\ dups \in 0 .. MaxDups
  /\ server \in {"wait", "time", "send", "ended"}
  /\ peer \in Clients
  /\ buff \in 0 .. MaxTime

Waits(c) == \E k \in 1 .. Len(queue) : queue[k] = c
Once == \A k, l \in 1 .. Len(queue) : queue[k] = queue[l] => k = l
Busy == server \in {"time", "send"}

(* Whatever has been read from the clock for a client, it was after the    *)
(* client had asked.                                                       *)
Clocks(c) ==
  /\ asked[c] <= now
  /\ at[c] = "start" => asked[c] = 0
  /\ at[c] = "recv" => asked[c] # 0
  /\ requests[c] # 0 => asked[c] # 0
  /\ requests[c] <= dups + 1
  /\ at[c] = "start" => requests[c] = 0 /\ answers[c] = {} /\ printed[c] = <<>>
  /\ \A t \in answers[c] : asked[c] # 0 /\ asked[c] <= t /\ t <= now
  /\ Busy /\ peer = c => asked[c] # 0
  /\ server = "send" /\ peer = c => asked[c] <= buff /\ buff <= now

(* u and then v are the start of the line of time t. *)
OfLine(u, v, t) ==
  /\ Len(u) + Len(v) <= LineLen
  /\ \A k \in 1 .. Len(u) : u[k] = <<t, k>>
  /\ \A k \in 1 .. Len(v) : v[k] = <<t, Len(u) + k>>

Told(c) ==
  \/ printed[c] = <<>> /\ inq[c] = <<>>
  \/ /\ asked[c] # 0
     /\ \E t \in 1 .. MaxTime : asked[c] <= t /\ t <= now /\ OfLine(printed[c], inq[c], t)

(* A connection waits in the queue or is being served until it has got its *)
(* line, and ends without one only if the server does.                     *)
Tcp(c) ==
  /\ requests[c] = 0 /\ answers[c] = {}
  /\ at[c] = "start" => link[c] = "none"
  /\ Waits(c) => asked[c] # 0 /\ link[c] \in {"open", "broken"} /\ ~(Busy /\ peer = c)
  /\ Busy /\ peer = c => link[c] \in {"open", "broken"}
  /\ link[c] = "open" => Waits(c) \/ (Busy /\ peer = c)
  /\ link[c] \in {"none", "open"} => printed[c] = <<>> /\ inq[c] = <<>>
  /\ link[c] = "fin" /\ at[c] = "recv" =>
       \/ Len(printed[c]) + Len(inq[c]) = LineLen
       \/ server = "ended" /\ printed[c] = <<>> /\ inq[c] = <<>>
  /\ link[c] = "reset" => server = "ended" /\ printed[c] = <<>> /\ inq[c] = <<>>
  /\ link[c] = "broken" => at[c] = "killed"

Udp(c) ==
  /\ link[c] = "none" /\ inq[c] = <<>>
  /\ Len(printed[c]) \in {0, LineLen}

IInv ==
  /\ Types /\ Once
  /\ transport = "tcp" => ~lossy
  /\ transport # "tcp" => queue = <<>>
  /\ \A c \in Clients : Clocks(c) /\ Told(c)
  /\ \A c \in Clients : IF transport = "tcp" THEN Tcp(c) ELSE Udp(c)

Safe(c) ==
  /\ Clocks(c) /\ Told(c)
  /\ IF transport = "tcp" THEN Tcp(c) ELSE Udp(c)

USE DaytimeAssumption

----------------------------------------------------------------------------
(* What a step leaves as it was. *)

(* A client is safe after a step that does not concern it. *)
LEMMA Frame ==
  ASSUME Types, Types', NEW q \in Clients, Safe(q), transport' = transport,
         now <= now', dups <= dups', server = "ended" => server' = "ended",
         asked'[q] = asked[q], printed'[q] = printed[q], at'[q] = at[q], inq'[q] = inq[q],
         link'[q] = link[q], requests'[q] = requests[q], answers'[q] = answers[q],
         Waits(q)' = Waits(q),
         (Busy /\ peer = q)' = (Busy /\ peer = q),
         server' = "send" /\ peer' = q => server = "send" /\ peer = q /\ buff' = buff
  PROVE  Safe(q)'
  <1>1. Clocks(q)'
    <2>1. Clocks(q)
      BY DEF Safe
    <2>2. PICK n \in Nat : now' = n
      BY DEF Types
    <2>3. PICK d \in Nat : dups' = d
      BY DEF Types
    <2>4. asked[q] \in Nat /\ now \in Nat /\ requests[q] \in Nat /\ dups \in Nat
      BY DEF Types
    <2>5. now <= n /\ dups <= d
      BY <2>2, <2>3
    <2>6. asked[q] <= n /\ requests[q] <= d + 1
      BY <2>1, <2>4, <2>5 DEF Clocks
    <2>7. \A t \in answers[q] : t \in Nat /\ asked[q] # 0 /\ asked[q] <= t /\ t <= n
      BY <2>1, <2>4, <2>5 DEF Clocks, Types
    <2>8. server' = "send" /\ peer' = q => asked[q] <= buff /\ buff <= n
      BY <2>1, <2>4, <2>5 DEF Clocks, Types
    <2>9. (Busy /\ peer = q)' => asked[q] # 0
      BY <2>1 DEF Clocks
    <2>10. /\ at'[q] = "start" => asked'[q] = 0
           /\ at'[q] = "recv" => asked'[q] # 0
           /\ requests'[q] # 0 => asked'[q] # 0
           /\ at'[q] = "start" => requests'[q] = 0 /\ answers'[q] = {} /\ printed'[q] = <<>>
      BY <2>1 DEF Clocks
    <2>11. asked'[q] <= now' /\ requests'[q] <= dups' + 1
      BY <2>2, <2>3, <2>6
    <2>12. \A t \in answers'[q] : asked'[q] # 0 /\ asked'[q] <= t /\ t <= now'
      BY <2>2, <2>7
    <2>13. server' = "send" /\ peer' = q => asked'[q] <= buff' /\ buff' <= now'
      BY <2>2, <2>8
    <2> QED BY <2>9, <2>10, <2>11, <2>12, <2>13 DEF Clocks
  <1>2. Told(q)'
    <2>1. Told(q)
      BY DEF Safe
    <2>2. CASE printed[q] = <<>> /\ inq[q] = <<>>
      BY <2>2 DEF Told
    <2>3. ASSUME asked[q] # 0, NEW t \in 1 .. MaxTime, asked[q] <= t, t <= now,
                 OfLine(printed[q], inq[q], t)
          PROVE  Told(q)'
      <3>1. t <= now' /\ asked'[q] # 0 /\ asked'[q] <= t
        BY <2>3 DEF Types
      <3>2. OfLine(printed'[q], inq'[q], t)
        BY <2>3
      <3> QED BY <3>1, <3>2 DEF Told
    <2> QED BY <2>1, <2>2, <2>3 DEF Told
  <1>3. CASE transport = "tcp"
    <2>1. Tcp(q)
      BY <1>3 DEF Safe
    <2>2. Tcp(q)'
      BY <2>1 DEF Tcp, Busy
    <2> QED BY <1>1, <1>2, <1>3, <2>2 DEF Safe
  <1>4. CASE transport # "tcp"
    <2>1. Udp(q)
      BY <1>4 DEF Safe
    <2>2. Udp(q)'
      BY <2>1 DEF Udp
    <2> QED BY <1>1, <1>2, <1>4, <2>2 DEF Safe
  <1> QED BY <1>3, <1>4

LEMMA SafeIs == IInv <=> /\ Types /\ Once
                         /\ transport = "tcp" => ~lossy
                         /\ transport # "tcp" => queue = <<>>
                         /\ \A c \in Clients : Safe(c)
  BY DEF IInv, Safe

(* A connection joins the queue at its end, and leaves it at its head.     *)
LEMMA QueueGrows ==
  ASSUME queue \in Seq(Clients), Once, NEW c \in Clients, ~Waits(c), queue' = Append(queue, c)
  PROVE  Once' /\ Waits(c)' /\ \A q \in Clients \ {c} : Waits(q)' = Waits(q)
  <1>1. Len(queue') = Len(queue) + 1 /\ queue'[Len(queue) + 1] = c /\ Len(queue) \in Nat
    OBVIOUS
  <1>2. \A k \in 1 .. Len(queue) : queue'[k] = queue[k]
    OBVIOUS
  <1>3. Waits(c)'
    BY <1>1 DEF Waits
  <1>4. ASSUME NEW q \in Clients \ {c} PROVE Waits(q)' = Waits(q)
    <2>1. Waits(q) => Waits(q)'
      BY <1>1, <1>2 DEF Waits
    <2>2. Waits(q)' => Waits(q)
      BY <1>1, <1>2 DEF Waits
    <2>3. Waits(q) \in BOOLEAN /\ Waits(q)' \in BOOLEAN
      BY DEF Waits
    <2> QED BY <2>1, <2>2, <2>3
  <1>5. Once'
    <2> SUFFICES ASSUME NEW k \in 1 .. Len(queue'), NEW l \in 1 .. Len(queue'),
                        queue'[k] = queue'[l]
                 PROVE  k = l
      BY DEF Once
    <2>1. \A m \in 1 .. Len(queue) : queue[m] # c
      BY DEF Waits
    <2> QED BY <1>1, <1>2, <2>1 DEF Once
  <1> QED BY <1>3, <1>4, <1>5

LEMMA QueueShrinks ==
  ASSUME queue \in Seq(Clients), Once, queue # <<>>, queue' = Tail(queue),
         NEW p, p = Head(queue)
  PROVE  /\ p \in Clients /\ Waits(p) /\ Once' /\ ~Waits(p)' /\ queue' \in Seq(Clients)
         /\ \A q \in Clients \ {p} : Waits(q)' = Waits(q)
  <1>1. /\ Len(queue) \in Nat \ {0} /\ Len(queue') = Len(queue) - 1 /\ p = queue[1]
        /\ p \in Clients /\ queue' \in Seq(Clients)
    OBVIOUS
  <1>2. \A k \in 1 .. Len(queue') : queue'[k] = queue[k + 1]
    OBVIOUS
  <1>3. Waits(p)
    BY <1>1 DEF Waits
  <1>4. Once'
    <2> SUFFICES ASSUME NEW k \in 1 .. Len(queue'), NEW l \in 1 .. Len(queue'),
                        queue'[k] = queue'[l]
                 PROVE  k = l
      BY DEF Once
    <2>1. queue[k + 1] = queue[l + 1] /\ k + 1 \in 1 .. Len(queue) /\ l + 1 \in 1 .. Len(queue)
      BY <1>1, <1>2
    <2>2. k + 1 = l + 1
      BY <2>1 DEF Once
    <2> QED BY <1>1, <2>2
  <1>5. ~Waits(p)'
    <2> SUFFICES ASSUME NEW k \in 1 .. Len(queue'), queue'[k] = p PROVE FALSE
      BY DEF Waits
    <2>1. queue[k + 1] = queue[1] /\ k + 1 \in 1 .. Len(queue) /\ 1 \in 1 .. Len(queue)
      BY <1>1, <1>2
    <2>2. k + 1 = 1
      BY <2>1 DEF Once
    <2> QED BY <1>1, <2>2
  <1>6. ASSUME NEW q \in Clients \ {p} PROVE Waits(q)' = Waits(q)
    <2>1. ASSUME NEW k \in 1 .. Len(queue'), queue'[k] = q PROVE Waits(q)
      <3>1. queue[k + 1] = q /\ k + 1 \in 1 .. Len(queue)
        BY <1>1, <1>2, <2>1
      <3> QED BY <3>1 DEF Waits
    <2>2. ASSUME NEW k \in 1 .. Len(queue), queue[k] = q PROVE Waits(q)'
      <3>1. k # 1
        BY <1>1, <2>2
      <3>2. k - 1 \in 1 .. Len(queue') /\ k - 1 + 1 = k
        BY <1>1, <3>1
      <3>3. queue'[k - 1] = q
        BY <1>2, <2>2, <3>2
      <3> QED BY <3>2, <3>3 DEF Waits
    <2>3. Waits(q)' <=> Waits(q)
      BY <2>1, <2>2 DEF Waits
    <2> QED BY <2>3 DEF Waits
  <1> QED BY <1>1, <1>3, <1>4, <1>5, <1>6

(* What a step must not do to a client it does not concern. *)
Same(q) ==
  /\ asked'[q] = asked[q] /\ printed'[q] = printed[q] /\ at'[q] = at[q] /\ inq'[q] = inq[q]
  /\ link'[q] = link[q] /\ requests'[q] = requests[q] /\ answers'[q] = answers[q]
  /\ Waits(q)' = Waits(q)
  /\ (Busy /\ peer = q)' = (Busy /\ peer = q)
  /\ server' = "send" /\ peer' = q => server = "send" /\ peer = q /\ buff' = buff

Later ==
  /\ transport' = transport /\ lossy' = lossy
  /\ now <= now' /\ dups <= dups'
  /\ server = "ended" => server' = "ended"

LEMMA Lift ==
  ASSUME IInv, Types', Once', Later, transport # "tcp" => queue' = <<>>,
         NEW C \in SUBSET Clients,
         \A q \in Clients \ C : Same(q), \A c \in C : Safe(c)'
  PROVE  IInv'
  <1>1. ASSUME NEW q \in Clients \ C PROVE Safe(q)'
    <2>1. Safe(q) /\ Types
      BY DEF IInv, Safe
    <2> QED BY <1>1, <2>1, Frame DEF Same, Later
  <1>2. \A q \in Clients : Safe(q)'
    BY <1>1
  <1> QED BY <1>2 DEF IInv, Safe, Later

LEMMA LiftOne ==
  ASSUME IInv, Types', Once', Later, transport # "tcp" => queue' = <<>>,
         NEW c \in Clients, \A q \in Clients \ {c} : Same(q), Safe(c)'
  PROVE  IInv'
  <1>1. ASSUME NEW q \in Clients \ {c} PROVE Safe(q)'
    <2>1. Safe(q) /\ Types
      BY DEF IInv, Safe
    <2> QED BY <1>1, <2>1, Frame DEF Same, Later
  <1>2. \A q \in Clients : Safe(q)'
    BY <1>1
  <1> QED BY <1>2 DEF IInv, Safe, Later

----------------------------------------------------------------------------
(* The server preserves the invariant. *)

LEMMA AcceptStep == ASSUME IInv, Accept PROVE IInv'
  <1>1. /\ transport = "tcp" /\ server = "wait" /\ queue # <<>>
        /\ peer' = Head(queue) /\ queue' = Tail(queue) /\ server' = "time"
        /\ UNCHANGED <<transport, lossy, now, inq, link, requests, answers, dups>>
        /\ UNCHANGED <<asked, printed, at, buff>>
    BY DEF Accept, Over, rigid, udpVars, clientVars
  <1>2. PICK p : p = Head(queue)
    OBVIOUS
  <1>3. /\ p \in Clients /\ Waits(p) /\ Once' /\ ~Waits(p)' /\ queue' \in Seq(Clients)
        /\ \A q \in Clients \ {p} : Waits(q)' = Waits(q)
    BY <1>1, <1>2, QueueShrinks DEF IInv, Types
  <1>4. Types'
    BY <1>1, <1>2, <1>3 DEF IInv, Types
  <1>5. Later
    BY <1>1 DEF Later, IInv, Types
  <1>6. \A q \in Clients \ {p} : Same(q)
    BY <1>1, <1>2, <1>3 DEF Same, Busy
  <1>7. Safe(p)'
    <2>1. Clocks(p) /\ Told(p) /\ Tcp(p)
      BY <1>1, <1>3 DEF IInv
    <2>2. Clocks(p)'
      BY <1>1, <1>2, <1>3, <2>1 DEF Clocks, Tcp, Busy
    <2>3. Told(p)'
      BY <1>1, <2>1 DEF Told
    <2>4. Tcp(p)'
      BY <1>1, <1>2, <1>3, <2>1 DEF Tcp, Busy
    <2> QED BY <1>1, <2>2, <2>3, <2>4 DEF Safe
  <1> QED BY <1>1, <1>3, <1>4, <1>5, <1>6, <1>7, LiftOne

LEMMA RecvFromStep == ASSUME IInv, RecvFrom PROVE IInv'
  <1>1. PICK c \in Clients :
          requests[c] > 0 /\ requests' = [requests EXCEPT ![c] = @ - 1] /\ peer' = c
    BY DEF RecvFrom
  <1>2. /\ transport # "tcp" /\ server = "wait" /\ buff' = 0 /\ server' = "time"
        /\ UNCHANGED <<transport, lossy, now, queue, inq, link, answers, dups>>
        /\ UNCHANGED <<asked, printed, at>>
    BY DEF RecvFrom, Over, rigid, tcpVars, clientVars
  <1>3. PICK m \in Nat : requests[c] = m + 1 /\ m + 1 <= 1 + MaxDups
    <2>1. requests[c] \in 0 .. 1 + MaxDups
      BY DEF IInv, Types
    <2>2. requests[c] - 1 \in Nat /\ requests[c] = (requests[c] - 1) + 1
      BY <1>1, <2>1
    <2> QED BY <2>1, <2>2
  <1>4. requests' = [requests EXCEPT ![c] = m]
    BY <1>1, <1>3
  <1>5. Types'
    BY <1>1, <1>2, <1>3, <1>4 DEF IInv, Types
  <1>6. Later /\ Once'
    BY <1>2 DEF Later, IInv, Types, Once
  <1>7. \A q \in Clients \ {c} : Same(q)
    BY <1>1, <1>2, <1>4 DEF Same, Busy, Waits, IInv, Types
  <1>8. Safe(c)'
    <2>1. Clocks(c) /\ Told(c) /\ Udp(c)
      BY <1>2 DEF IInv
    <2>2. requests'[c] = m
      BY <1>4 DEF IInv, Types
    <2>3. m <= dups + 1 /\ asked[c] # 0 /\ asked[c] <= now
      BY <1>3, <2>1 DEF Clocks, IInv, Types
    <2>4. at[c] # "start"
      BY <2>1, <2>3 DEF Clocks
    <2>5. Clocks(c)'
      BY <1>1, <1>2, <2>1, <2>2, <2>3, <2>4 DEF Clocks, Busy
    <2>6. Told(c)'
      BY <1>2, <2>1 DEF Told
    <2>7. Udp(c)'
      BY <1>2, <2>1 DEF Udp
    <2> QED BY <1>2, <2>5, <2>6, <2>7 DEF Safe
  <1>9. queue' = <<>>
    BY <1>2 DEF IInv
  <1> QED BY <1>5, <1>6, <1>7, <1>8, <1>9, LiftOne

LEMMA ReadsClockStep == ASSUME IInv, ReadsClock PROVE IInv'
  <1>1. /\ server = "time" /\ buff' = now /\ server' = "send"
        /\ UNCHANGED <<transport, lossy, now, queue, inq, link, requests, answers, dups>>
        /\ UNCHANGED <<asked, printed, at, peer>>
    BY DEF ReadsClock, Clock, rigid, tcpVars, udpVars, clientVars
  <1>2. PICK p \in Clients : p = peer
    BY DEF IInv, Types
  <1>3. Types'
    <2>1. buff' \in 0 .. MaxTime
      BY <1>1 DEF IInv, Types
    <2> QED BY <1>1, <2>1 DEF IInv, Types
  <1>4. Later /\ Once'
    BY <1>1 DEF Later, IInv, Types, Once
  <1>5. \A q \in Clients \ {p} : Same(q)
    BY <1>1, <1>2 DEF Same, Busy, Waits
  <1>6. Safe(p)'
    <2>1. Clocks(p) /\ Told(p) /\ (IF transport = "tcp" THEN Tcp(p) ELSE Udp(p))
      BY DEF IInv
    <2>2. Clocks(p)'
      BY <1>1, <1>2, <2>1 DEF Clocks, Busy, IInv, Types
    <2>3. Told(p)'
      BY <1>1, <2>1 DEF Told
    <2>4. CASE transport = "tcp"
      BY <1>1, <1>2, <2>1, <2>2, <2>3, <2>4 DEF Tcp, Busy, Waits, Safe
    <2>5. CASE transport # "tcp"
      BY <1>1, <2>1, <2>2, <2>3, <2>5 DEF Udp, Safe
    <2> QED BY <2>4, <2>5
  <1>7. transport # "tcp" => queue' = <<>>
    BY <1>1 DEF IInv
  <1> QED BY <1>3, <1>4, <1>5, <1>6, <1>7, LiftOne

LEMMA LineIs ==
  ASSUME NEW t \in 1 .. MaxTime
  PROVE  /\ Line(t) \in Seq(Pieces) /\ Len(Line(t)) = LineLen
         /\ OfLine(<<>>, Line(t), t) /\ OfLine(Line(t), <<>>, t)
  <1>1. Line(t) \in Seq(Pieces) /\ Len(Line(t)) = LineLen
    BY DEF Line, Pieces
  <1>2. \A k \in 1 .. LineLen : Line(t)[k] = <<t, k>>
    BY DEF Line
  <1>3. Len(<<>>) = 0 /\ LineLen \in Nat
    OBVIOUS
  <1>4. OfLine(<<>>, Line(t), t)
    BY <1>1, <1>2, <1>3 DEF OfLine
  <1>5. OfLine(Line(t), <<>>, t)
    BY <1>1, <1>2, <1>3 DEF OfLine
  <1> QED BY <1>1, <1>4, <1>5

(* A connection that is being served gets its line and is closed. *)
LEMMA SendsStep == ASSUME IInv, Sends PROVE IInv'
  <1>1. PICK p \in Clients : p = peer
    BY DEF IInv, Types
  <1>2. /\ transport = "tcp" /\ server = "send" /\ link[p] # "broken"
        /\ inq' = [inq EXCEPT ![p] = @ \o Line(buff)]
        /\ link' = [link EXCEPT ![p] = Closed(@)] /\ server' = "wait"
        /\ UNCHANGED <<transport, lossy, now, queue, requests, answers, dups>>
        /\ UNCHANGED <<asked, printed, at, peer, buff>>
    BY <1>1 DEF Sends, Over, rigid, udpVars, clientVars
  <1>3. Clocks(p) /\ Tcp(p)
    BY <1>2 DEF IInv
  <1>4. link[p] = "open" /\ printed[p] = <<>> /\ inq[p] = <<>> /\ ~Waits(p)
    BY <1>1, <1>2, <1>3 DEF Tcp, Busy, IInv, Types
  <1>5. buff \in 1 .. MaxTime /\ asked[p] # 0 /\ asked[p] <= buff /\ buff <= now
    BY <1>1, <1>2, <1>3 DEF Clocks, Busy, IInv, Types
  <1>6. PICK line : line = Line(buff)
    OBVIOUS
  <1>7. line \in Seq(Pieces) /\ Len(line) = LineLen /\ OfLine(<<>>, line, buff)
    BY <1>5, <1>6, LineIs
  <1>8. inq' = [inq EXCEPT ![p] = line] /\ link' = [link EXCEPT ![p] = "fin"]
    <2>1. <<>> \o line = line
      BY <1>7
    <2> QED BY <1>2, <1>4, <1>6, <2>1 DEF Closed
  <1>9. Types'
    BY <1>2, <1>7, <1>8 DEF IInv, Types
  <1>10. Later /\ Once'
    BY <1>2 DEF Later, IInv, Types, Once
  <1>11. \A q \in Clients \ {p} : Same(q)
    BY <1>1, <1>2, <1>8 DEF Same, Busy, Waits, IInv, Types
  <1>12. Safe(p)'
    <2>1. inq'[p] = line /\ link'[p] = "fin" /\ printed'[p] = <<>> /\ Waits(p)' = Waits(p)
      BY <1>2, <1>4, <1>8 DEF IInv, Types, Waits
    <2>2. Clocks(p)'
      BY <1>2, <1>3 DEF Clocks, Busy
    <2>3. Told(p)'
      BY <1>2, <1>5, <1>7, <2>1 DEF Told
    <2>4. Len(printed'[p]) + Len(inq'[p]) = LineLen
      BY <1>7, <2>1
    <2>5. Tcp(p)'
      BY <1>2, <1>3, <1>4, <2>1, <2>4 DEF Tcp, Busy
    <2> QED BY <1>2, <2>2, <2>3, <2>5 DEF Safe
  <1> QED BY <1>2, <1>9, <1>10, <1>11, <1>12, LiftOne

LEMMA SendsToStep == ASSUME IInv, SendsTo PROVE IInv'
  <1>1. PICK p \in Clients : p = peer
    BY DEF IInv, Types
  <1>2. PICK A : A = IF at[p] \in Gone THEN answers[p] ELSE answers[p] \cup {buff}
    OBVIOUS
  <1>3. /\ transport # "tcp" /\ server = "send" /\ server' = "wait"
        /\ answers' = [answers EXCEPT ![p] = A]
        /\ UNCHANGED <<transport, lossy, now, queue, inq, link, requests, dups>>
        /\ UNCHANGED <<asked, printed, at, peer, buff>>
    BY <1>1, <1>2 DEF SendsTo, Over, rigid, tcpVars, clientVars
  <1>4. Clocks(p) /\ Told(p) /\ Udp(p)
    BY <1>3 DEF IInv
  <1>5. buff \in 1 .. MaxTime /\ asked[p] # 0 /\ asked[p] <= buff /\ buff <= now
    BY <1>1, <1>3, <1>4 DEF Clocks, Busy, IInv, Types
  <1>6. A \in SUBSET (1 .. MaxTime) /\ \A t \in A : asked[p] # 0 /\ asked[p] <= t /\ t <= now
    BY <1>2, <1>4, <1>5 DEF Clocks, IInv, Types
  <1>7. Types'
    BY <1>3, <1>6 DEF IInv, Types
  <1>8. Later /\ Once'
    BY <1>3 DEF Later, IInv, Types, Once
  <1>9. \A q \in Clients \ {p} : Same(q)
    BY <1>1, <1>3 DEF Same, Busy, Waits, IInv, Types
  <1>10. Safe(p)'
    <2>1. answers'[p] = A
      BY <1>3 DEF IInv, Types
    <2>2. at[p] # "start"
      BY <1>4, <1>5 DEF Clocks
    <2>3. Clocks(p)'
      BY <1>3, <1>4, <1>6, <2>1, <2>2 DEF Clocks, Busy
    <2>4. Told(p)' /\ Udp(p)'
      BY <1>3, <1>4 DEF Told, Udp
    <2> QED BY <1>3, <2>3, <2>4 DEF Safe
  <1>11. queue' = <<>>
    BY <1>3 DEF IInv
  <1> QED BY <1>7, <1>8, <1>9, <1>10, <1>11, LiftOne

(* What the end of the server leaves its clients with. *)
LEMMA EndsStep == ASSUME IInv, Ends PROVE IInv'
  <1>1. PICK come \in SUBSET {c \in Clients : requests[c] > 0} :
          requests' = [c \in Clients |-> IF c \in come THEN 0 ELSE requests[c]]
    BY DEF Ends
  <1>2. /\ server' = "ended" /\ queue' = <<>>
        /\ UNCHANGED <<transport, lossy, now, inq, answers, dups>>
        /\ UNCHANGED <<asked, printed, at, peer, buff>>
    BY DEF Ends, rigid, clientVars
  <1>3. link' = [c \in Clients |-> IF link[c] # "open" THEN link[c]
                                   ELSE IF Waits(c) THEN "reset" ELSE "fin"]
    BY DEF Ends, Contains, Waits
  <1>4. \A q \in Clients : ~Waits(q)'
    BY <1>2 DEF Waits
  <1>5. Types'
    <2>1. requests' \in [Clients -> 0 .. 1 + MaxDups]
      <3>1. \A c \in Clients : requests[c] \in 0 .. 1 + MaxDups
        BY DEF IInv, Types
      <3>2. 0 \in 0 .. 1 + MaxDups
        OBVIOUS
      <3> QED BY <1>1, <3>1, <3>2
    <2>2. link' \in [Clients -> {"none", "open", "fin", "reset", "broken"}]
      BY <1>3 DEF IInv, Types
    <2>3. queue' \in Seq(Clients) /\ server' \in {"wait", "time", "send", "ended"}
      BY <1>2
    <2> QED BY <1>2, <2>1, <2>2, <2>3 DEF IInv, Types
  <1>6. Later /\ Once'
    BY <1>2 DEF Later, IInv, Types, Once
  <1>7. ASSUME NEW q \in Clients PROVE Safe(q)'
    <2>1. Clocks(q) /\ Told(q) /\ (IF transport = "tcp" THEN Tcp(q) ELSE Udp(q))
      BY DEF IInv
    <2>2. requests'[q] = 0 \/ requests'[q] = requests[q]
      BY <1>1
    <2>3. Clocks(q)'
      <3>1. 0 <= dups + 1
        BY DEF IInv, Types
      <3> QED BY <1>2, <2>1, <2>2, <3>1 DEF Clocks, Busy
    <2>4. Told(q)'
      BY <1>2, <2>1 DEF Told
    <2>5. CASE transport = "tcp"
      <3>1. link'[q] = IF link[q] # "open" THEN link[q] ELSE IF Waits(q) THEN "reset" ELSE "fin"
        BY <1>3
      <3>2. Tcp(q)'
        BY <1>2, <1>4, <2>1, <2>2, <2>5, <3>1 DEF Tcp, Busy
      <3> QED BY <1>2, <2>3, <2>4, <2>5, <3>2 DEF Safe
    <2>6. CASE transport # "tcp"
      <3>1. Udp(q)'
        BY <1>2, <1>3, <2>1, <2>6 DEF Udp
      <3> QED BY <1>2, <2>3, <2>4, <2>6, <3>1 DEF Safe
    <2> QED BY <2>5, <2>6
  <1> QED BY <1>2, <1>5, <1>6, <1>7, SafeIs DEF Safe, IInv, Later

----------------------------------------------------------------------------
(* So do the clients. *)

LEMMA ConnectsStep == ASSUME IInv, NEW c \in Clients, Connects(c) PROVE IInv'
  <1>1. /\ transport = "tcp" /\ at[c] = "start" /\ queue' = Append(queue, c)
        /\ link' = [link EXCEPT ![c] = "open"] /\ asked' = [asked EXCEPT ![c] = now]
        /\ at' = [at EXCEPT ![c] = "recv"]
        /\ UNCHANGED <<transport, lossy, now, inq, requests, answers, dups>>
        /\ UNCHANGED <<printed, server, peer, buff>>
    BY DEF Connects, Over, rigid, udpVars, serverVars
  <1>2. Clocks(c) /\ Tcp(c)
    BY <1>1 DEF IInv
  <1>3. /\ asked[c] = 0 /\ requests[c] = 0 /\ answers[c] = {} /\ link[c] = "none"
        /\ printed[c] = <<>> /\ inq[c] = <<>> /\ ~Waits(c) /\ ~(Busy /\ peer = c)
    BY <1>1, <1>2 DEF Clocks, Tcp
  <1>4. Once' /\ Waits(c)' /\ \A q \in Clients \ {c} : Waits(q)' = Waits(q)
    BY <1>1, <1>3, QueueGrows DEF IInv, Types
  <1>5. Types'
    <2>1. queue' \in Seq(Clients)
      BY <1>1 DEF IInv, Types
    <2>2. asked' \in [Clients -> 0 .. MaxTime] /\ now # 0
      BY <1>1 DEF IInv, Types
    <2> QED BY <1>1, <2>1, <2>2 DEF IInv, Types
  <1>6. Later
    BY <1>1 DEF Later, IInv, Types
  <1>7. \A q \in Clients \ {c} : Same(q)
    BY <1>1, <1>4 DEF Same, Busy, IInv, Types
  <1>8. Safe(c)'
    <2>1. asked'[c] = now /\ at'[c] = "recv" /\ link'[c] = "open" /\ now # 0
      BY <1>1 DEF IInv, Types
    <2>2. now <= now /\ 0 <= dups + 1
      BY DEF IInv, Types
    <2>3. Clocks(c)'
      BY <1>1, <1>3, <2>1, <2>2 DEF Clocks, Busy
    <2>4. Told(c)'
      BY <1>1, <1>3 DEF Told
    <2>5. Tcp(c)'
      BY <1>1, <1>3, <1>4, <2>1 DEF Tcp, Busy
    <2> QED BY <1>1, <2>3, <2>4, <2>5 DEF Safe
  <1> QED BY <1>1, <1>4, <1>5, <1>6, <1>7, <1>8, LiftOne

LEMMA SendsRequestStep == ASSUME IInv, NEW c \in Clients, SendsRequest(c) PROVE IInv'
  <1>1. /\ transport # "tcp" /\ at[c] = "start"
        /\ requests' = [requests EXCEPT ![c] = @ + 1] /\ asked' = [asked EXCEPT ![c] = now]
        /\ at' = [at EXCEPT ![c] = "recv"]
        /\ UNCHANGED <<transport, lossy, now, queue, inq, link, answers, dups>>
        /\ UNCHANGED <<printed, server, peer, buff>>
    BY DEF SendsRequest, Over, rigid, tcpVars, serverVars
  <1>2. Clocks(c) /\ Udp(c)
    BY <1>1 DEF IInv
  <1>3. /\ asked[c] = 0 /\ requests[c] = 0 /\ answers[c] = {}
        /\ printed[c] = <<>> /\ inq[c] = <<>> /\ ~(Busy /\ peer = c)
    BY <1>1, <1>2 DEF Clocks, Udp
  <1>4. requests' = [requests EXCEPT ![c] = 1]
    BY <1>1, <1>3
  <1>5. Types'
    <2>1. asked' \in [Clients -> 0 .. MaxTime] /\ now # 0
      BY <1>1 DEF IInv, Types
    <2>2. 1 \in 0 .. 1 + MaxDups
      OBVIOUS
    <2>3. requests' \in [Clients -> 0 .. 1 + MaxDups]
      BY <1>4, <2>2 DEF IInv, Types
    <2> QED BY <1>1, <2>1, <2>3 DEF IInv, Types
  <1>6. Later /\ Once'
    BY <1>1 DEF Later, IInv, Types, Once
  <1>7. \A q \in Clients \ {c} : Same(q)
    BY <1>1, <1>4 DEF Same, Busy, Waits, IInv, Types
  <1>8. Safe(c)'
    <2>1. asked'[c] = now /\ at'[c] = "recv" /\ requests'[c] = 1 /\ now # 0
      BY <1>1, <1>4 DEF IInv, Types
    <2>2. now <= now /\ 1 <= dups + 1
      BY DEF IInv, Types
    <2>3. Clocks(c)'
      BY <1>1, <1>3, <2>1, <2>2 DEF Clocks, Busy
    <2>4. Told(c)' /\ Udp(c)'
      BY <1>1, <1>2, <1>3 DEF Told, Udp
    <2> QED BY <1>1, <2>3, <2>4 DEF Safe
  <1>9. queue' = <<>>
    BY <1>1 DEF IInv
  <1> QED BY <1>5, <1>6, <1>7, <1>8, <1>9, LiftOne

(* The client ends, with what it has been told. *)
LEMMA GoneStep ==
  ASSUME IInv, NEW c \in Clients, at[c] \in {"start", "recv"},
         NEW how \in Gone, at' = [at EXCEPT ![c] = how],
         requests' = requests \/ (requests[c] > 0 /\ transport # "tcp"
                                  /\ requests' = [requests EXCEPT ![c] = @ - 1]),
         UNCHANGED <<transport, lossy, now, queue, inq, link, answers, dups>>,
         UNCHANGED <<asked, printed, server, peer, buff>>
  PROVE  IInv'
  <1>1. Clocks(c) /\ Told(c) /\ (IF transport = "tcp" THEN Tcp(c) ELSE Udp(c))
    BY DEF IInv
  <1>2. at'[c] = how /\ how \notin {"start", "recv"}
    BY DEF IInv, Types, Gone
  <1>3. PICK m \in 0 .. 1 + MaxDups : /\ requests' = [requests EXCEPT ![c] = m]
                                      /\ m <= requests[c]
                                      /\ transport = "tcp" => m = requests[c]
    <2>1. requests[c] \in 0 .. 1 + MaxDups /\ requests = [requests EXCEPT ![c] = requests[c]]
      BY DEF IInv, Types
    <2>2. CASE requests' = requests
      <3>1. requests' = [requests EXCEPT ![c] = requests[c]] /\ requests[c] <= requests[c]
        BY <2>1, <2>2
      <3> QED BY <2>1, <3>1
    <2>3. CASE /\ requests[c] > 0 /\ transport # "tcp"
               /\ requests' = [requests EXCEPT ![c] = @ - 1]
      <3>1. requests[c] - 1 \in 0 .. 1 + MaxDups /\ requests[c] - 1 <= requests[c]
        BY <2>1, <2>3
      <3> QED BY <2>3, <3>1
    <2> QED BY <2>2, <2>3
  <1>4. Types'
    <2>1. at' \in [Clients -> {"start", "recv"} \cup Gone]
      BY DEF IInv, Types
    <2>2. requests' \in [Clients -> 0 .. 1 + MaxDups]
      BY <1>3 DEF IInv, Types
    <2> QED BY <2>1, <2>2 DEF IInv, Types
  <1>5. Later /\ Once'
    BY DEF Later, IInv, Types, Once
  <1>6. \A q \in Clients \ {c} : Same(q)
    BY <1>3 DEF Same, Busy, Waits, IInv, Types
  <1>7. Safe(c)'
    <2>1. requests'[c] = m
      BY <1>3 DEF IInv, Types
    <2>2. m # 0 => requests[c] # 0
      BY <1>3 DEF IInv, Types
    <2>3. m <= dups + 1
      BY <1>1, <1>3 DEF Clocks, IInv, Types
    <2>4. Clocks(c)'
      BY <1>1, <1>2, <2>1, <2>2, <2>3 DEF Clocks, Busy
    <2>5. Told(c)'
      BY <1>1 DEF Told
    <2>6. CASE transport = "tcp"
      <3>1. Tcp(c) /\ m = requests[c]
        BY <1>1, <1>3, <2>6
      <3>2. requests'[c] = 0 /\ Waits(c)' = Waits(c)
        BY <2>1, <3>1 DEF Tcp, Waits
      <3>3. Tcp(c)'
        BY <1>2, <3>1, <3>2 DEF Tcp, Busy
      <3> QED BY <2>4, <2>5, <2>6, <3>3 DEF Safe
    <2>7. CASE transport # "tcp"
      BY <1>1, <2>4, <2>5, <2>7 DEF Udp, Safe
    <2> QED BY <2>6, <2>7
  <1>8. transport # "tcp" => queue' = <<>>
    BY DEF IInv
  <1> QED BY <1>4, <1>5, <1>6, <1>7, <1>8, LiftOne

(* A line stays one when a piece of it goes from the connection to the     *)
(* output.                                                                 *)
Moves(u, v, n, w, x) == w = u \o SubSeq(v, 1, n) /\ x = SubSeq(v, n + 1, Len(v))

SameBytes(u, v, w, x) ==
  /\ w \in Seq(Pieces) /\ x \in Seq(Pieces)
  /\ Len(w) + Len(x) = Len(u) + Len(v)
  /\ \A t : OfLine(u, v, t) => OfLine(w, x, t)

LEMMA Splits ==
  ASSUME NEW u \in Seq(Pieces), NEW v \in Seq(Pieces), NEW n \in 1 .. Len(v),
         NEW w, NEW x, Moves(u, v, n, w, x)
  PROVE  SameBytes(u, v, w, x) /\ Len(w) = Len(u) + n
  <1>0. w = u \o SubSeq(v, 1, n) /\ x = SubSeq(v, n + 1, Len(v))
    BY DEF Moves
  <1> DEFINE y == SubSeq(v, 1, n)
  <1>1. y \in Seq(Pieces) /\ Len(y) = n /\ \A k \in 1 .. n : y[k] = v[k]
    OBVIOUS
  <1>2. x \in Seq(Pieces) /\ Len(x) = Len(v) - n /\ \A k \in 1 .. Len(x) : x[k] = v[n + k]
    BY <1>0
  <1> HIDE DEF y
  <1>3. /\ w \in Seq(Pieces) /\ Len(w) = Len(u) + n
        /\ \A k \in 1 .. Len(w) : w[k] = IF k <= Len(u) THEN u[k] ELSE y[k - Len(u)]
    <2>1. w = u \o y
      BY <1>0 DEF y
    <2>2. /\ u \o y \in Seq(Pieces) /\ Len(u \o y) = Len(u) + n
          /\ \A k \in 1 .. Len(u \o y) :
               (u \o y)[k] = IF k <= Len(u) THEN u[k] ELSE y[k - Len(u)]
      BY <1>1
    <2> QED BY <2>1, <2>2
  <1>4. Len(u) \in Nat /\ Len(v) \in Nat /\ Len(w) + Len(x) = Len(u) + Len(v)
    <2>1. Len(u) \in Nat /\ Len(v) \in Nat
      OBVIOUS
    <2>2. PICK a \in Nat, b \in Nat, m \in Nat : a = Len(u) /\ b = Len(v) /\ m = n
      BY <2>1
    <2>3. Len(w) = a + m /\ Len(x) = b - m
      BY <1>2, <1>3, <2>2
    <2>4. (a + m) + (b - m) = a + b
      OBVIOUS
    <2> QED BY <2>1, <2>2, <2>3, <2>4
  <1>5. ASSUME NEW t, OfLine(u, v, t) PROVE OfLine(w, x, t)
    <2>1. ASSUME NEW k \in 1 .. Len(w) PROVE w[k] = <<t, k>>
      <3>1. CASE k <= Len(u)
        <4>1. k \in 1 .. Len(u) /\ w[k] = u[k]
          BY <1>3, <1>4, <3>1
        <4> QED BY <1>5, <4>1 DEF OfLine
      <3>2. CASE ~ (k <= Len(u))
        <4>1. k - Len(u) \in 1 .. n /\ k - Len(u) \in 1 .. Len(v) /\ Len(u) + (k - Len(u)) = k
          BY <1>3, <1>4, <3>2
        <4>2. w[k] = v[k - Len(u)]
          BY <1>1, <1>3, <3>2, <4>1
        <4> QED BY <1>5, <4>1, <4>2 DEF OfLine
      <3> QED BY <3>1, <3>2
    <2>2. ASSUME NEW k \in 1 .. Len(x) PROVE x[k] = <<t, Len(w) + k>>
      <3>1. n + k \in 1 .. Len(v) /\ Len(u) + (n + k) = Len(w) + k
        BY <1>2, <1>3, <1>4
      <3> QED BY <1>2, <1>5, <3>1 DEF OfLine
    <2>3. Len(w) + Len(x) <= LineLen
      BY <1>4, <1>5 DEF OfLine
    <2> QED BY <2>1, <2>2, <2>3 DEF OfLine
  <1> QED BY <1>2, <1>3, <1>4, <1>5 DEF SameBytes

LEMMA RefusedStep == ASSUME IInv, NEW c \in Clients, Refused(c) PROVE IInv'
  <1>1. /\ at[c] = "start" /\ at' = [at EXCEPT ![c] = "quit"] /\ requests' = requests
        /\ UNCHANGED <<transport, lossy, now, queue, inq, link, answers, dups>>
        /\ UNCHANGED <<asked, printed, server, peer, buff>>
    BY DEF Refused, rigid, tcpVars, udpVars, serverVars
  <1>2. "quit" \in Gone
    BY DEF Gone
  <1> QED BY <1>1, <1>2, GoneStep

LEMMA FinishesStep == ASSUME IInv, NEW c \in Clients, Finishes(c) PROVE IInv'
  <1>1. /\ at[c] = "recv" /\ requests' = requests
        /\ UNCHANGED <<transport, lossy, now, queue, inq, link, answers, dups>>
        /\ UNCHANGED <<asked, printed, server, peer, buff>>
    BY DEF Finishes, rigid, tcpVars, udpVars, serverVars
  <1>2. PICK how \in Gone : at' = [at EXCEPT ![c] = how]
    BY DEF Finishes, Gone
  <1> QED BY <1>1, <1>2, GoneStep

LEMMA BouncedStep == ASSUME IInv, NEW c \in Clients, Bounced(c) PROVE IInv'
  <1>1. /\ at[c] = "recv" /\ at' = [at EXCEPT ![c] = "wild"] /\ requests[c] > 0
        /\ transport # "tcp" /\ requests' = [requests EXCEPT ![c] = @ - 1]
        /\ UNCHANGED <<transport, lossy, now, queue, inq, link, answers, dups>>
        /\ UNCHANGED <<asked, printed, server, peer, buff>>
    BY DEF Bounced, rigid, tcpVars, serverVars
  <1>2. "wild" \in Gone
    BY DEF Gone
  <1> QED BY <1>1, <1>2, GoneStep

LEMMA PrintsStep == ASSUME IInv, NEW c \in Clients, Prints(c) PROVE IInv'
  <1>1. PICK n \in 1 .. Len(inq[c]) :
          /\ printed' = [printed EXCEPT ![c] = @ \o SubSeq(inq[c], 1, n)]
          /\ inq' = [inq EXCEPT ![c] = SubSeq(@, n + 1, Len(@))]
    BY DEF Prints
  <1>2. /\ transport = "tcp" /\ at[c] = "recv" /\ link[c] # "reset"
        /\ UNCHANGED <<transport, lossy, now, queue, link, requests, answers, dups>>
        /\ UNCHANGED <<asked, at, server, peer, buff>>
    BY DEF Prints, Over, rigid, udpVars, serverVars
  <1>3. PICK u \in Seq(Pieces), v \in Seq(Pieces) : u = printed[c] /\ v = inq[c]
    BY DEF IInv, Types
  <1>4. PICK w, x : w = u \o SubSeq(v, 1, n) /\ x = SubSeq(v, n + 1, Len(v))
    OBVIOUS
  <1>5. printed' = [printed EXCEPT ![c] = w] /\ inq' = [inq EXCEPT ![c] = x]
    BY <1>1, <1>3, <1>4
  <1>6. n \in 1 .. Len(v)
    BY <1>1, <1>3
  <1>7. /\ w \in Seq(Pieces) /\ x \in Seq(Pieces)
        /\ Len(w) = Len(u) + n /\ Len(w) + Len(x) = Len(u) + Len(v)
        /\ \A t : OfLine(u, v, t) => OfLine(w, x, t)
    <2>1. Moves(u, v, n, w, x)
      BY <1>4 DEF Moves
    <2>2. SameBytes(u, v, w, x) /\ Len(w) = Len(u) + n
      BY <1>6, <2>1, Splits
    <2> QED BY <2>2 DEF SameBytes
  <1>8. v # <<>>
    BY <1>6
  <1>9. Types'
    BY <1>2, <1>5, <1>7 DEF IInv, Types
  <1>10. Later /\ Once'
    BY <1>2 DEF Later, IInv, Types, Once
  <1>11. \A q \in Clients \ {c} : Same(q)
    BY <1>2, <1>5 DEF Same, Busy, Waits, IInv, Types
  <1>12. Safe(c)'
    <2>1. Clocks(c) /\ Told(c) /\ Tcp(c)
      BY <1>2 DEF IInv
    <2>2. printed'[c] = w /\ inq'[c] = x /\ Waits(c)' = Waits(c)
      BY <1>2, <1>5 DEF IInv, Types, Waits
    <2>3. Clocks(c)'
      BY <1>2, <2>1 DEF Clocks, Busy
    <2>4. Told(c)'
      <3>1. PICK t \in 1 .. MaxTime : /\ asked[c] # 0 /\ asked[c] <= t /\ t <= now
                                      /\ OfLine(u, v, t)
        BY <1>3, <1>8, <2>1 DEF Told
      <3>2. OfLine(w, x, t)
        BY <1>7, <3>1
      <3> QED BY <1>2, <2>2, <3>1, <3>2 DEF Told
    <2>5. Tcp(c)'
      <3>1. link[c] = "fin" => Len(w) + Len(x) = LineLen
        BY <1>2, <1>3, <1>7, <1>8, <2>1 DEF Tcp
      <3> QED BY <1>2, <1>3, <1>8, <2>1, <2>2, <3>1 DEF Tcp, Busy
    <2> QED BY <1>2, <2>3, <2>4, <2>5 DEF Safe
  <1> QED BY <1>2, <1>9, <1>10, <1>11, <1>12, LiftOne

LEMMA AnsweredStep == ASSUME IInv, NEW c \in Clients, Answered(c) PROVE IInv'
  <1>1. PICK t \in answers[c] : printed' = [printed EXCEPT ![c] = Line(t)]
    BY DEF Answered
  <1>2. /\ transport # "tcp" /\ at[c] = "recv" /\ answers' = [answers EXCEPT ![c] = {}]
        /\ UNCHANGED <<transport, lossy, now, queue, inq, link, requests, dups>>
        /\ UNCHANGED <<asked, at, server, peer, buff>>
    BY DEF Answered, Over, rigid, tcpVars, serverVars
  <1>3. Clocks(c) /\ Udp(c)
    BY <1>2 DEF IInv
  <1>4. t \in 1 .. MaxTime /\ asked[c] # 0 /\ asked[c] <= t /\ t <= now
    BY <1>1, <1>3 DEF Clocks, IInv, Types
  <1>5. PICK line : line = Line(t)
    OBVIOUS
  <1>6. line \in Seq(Pieces) /\ Len(line) = LineLen /\ OfLine(line, <<>>, t)
    BY <1>4, <1>5, LineIs
  <1>7. Types'
    BY <1>1, <1>2, <1>5, <1>6 DEF IInv, Types
  <1>8. Later /\ Once'
    BY <1>2 DEF Later, IInv, Types, Once
  <1>9. \A q \in Clients \ {c} : Same(q)
    BY <1>1, <1>2 DEF Same, Busy, Waits, IInv, Types
  <1>10. Safe(c)'
    <2>1. printed'[c] = line /\ answers'[c] = {} /\ inq'[c] = <<>>
      BY <1>1, <1>2, <1>3, <1>5 DEF IInv, Types, Udp
    <2>2. Clocks(c)'
      BY <1>2, <1>3, <2>1 DEF Clocks, Busy
    <2>3. Told(c)'
      BY <1>2, <1>4, <1>6, <2>1 DEF Told
    <2>4. Udp(c)'
      BY <1>2, <1>3, <1>6, <2>1 DEF Udp
    <2> QED BY <1>2, <2>2, <2>3, <2>4 DEF Safe
  <1>11. queue' = <<>>
    BY <1>2 DEF IInv
  <1> QED BY <1>7, <1>8, <1>9, <1>10, <1>11, LiftOne

(* What a client has printed is the start of a line without the rest.      *)
LEMMA Stops ==
  ASSUME NEW S, NEW u \in Seq(S), NEW v \in Seq(S), NEW t, OfLine(u, v, t)
  PROVE  OfLine(u, <<>>, t)
  <1>1. PICK m \in Nat, n \in Nat : m = Len(u) /\ n = Len(v)
    OBVIOUS
  <1>2. m + n <= LineLen
    BY <1>1 DEF OfLine
  <1>3. m + 0 <= LineLen /\ Len(<<>>) = 0
    BY <1>2
  <1>4. \A k \in 1 .. Len(u) : u[k] = <<t, k>>
    BY DEF OfLine
  <1> QED BY <1>1, <1>3, <1>4 DEF OfLine

LEMMA ClientKilledStep == ASSUME IInv, NEW c \in Clients, ClientKilled(c) PROVE IInv'
  <1>1. PICK l : /\ link' = [link EXCEPT ![c] = l]
                 /\ l = link[c] \/ (transport = "tcp" /\ l = "broken")
    BY DEF ClientKilled, Over
  <1>2. /\ at[c] = "recv" /\ at' = [at EXCEPT ![c] = "killed"]
        /\ inq' = [inq EXCEPT ![c] = <<>>] /\ answers' = [answers EXCEPT ![c] = {}]
        /\ UNCHANGED <<transport, lossy, now, queue, requests, dups>>
        /\ UNCHANGED <<asked, printed, server, peer, buff>>
    BY DEF ClientKilled, rigid, serverVars
  <1>3. Clocks(c) /\ Told(c) /\ (IF transport = "tcp" THEN Tcp(c) ELSE Udp(c))
    BY DEF IInv
  <1>4. Types'
    <2>1. <<>> \in Seq(Pieces)
      OBVIOUS
    <2>2. l \in {"none", "open", "fin", "reset", "broken"}
      BY <1>1 DEF IInv, Types
    <2>3. at' \in [Clients -> {"start", "recv"} \cup Gone]
      BY <1>2 DEF IInv, Types, Gone
    <2>4. link' \in [Clients -> {"none", "open", "fin", "reset", "broken"}]
      BY <1>1, <2>2 DEF IInv, Types
    <2>5. inq' \in [Clients -> Seq(Pieces)] /\ answers' \in [Clients -> SUBSET (1 .. MaxTime)]
      BY <1>2, <2>1 DEF IInv, Types
    <2> QED BY <1>2, <2>3, <2>4, <2>5 DEF IInv, Types
  <1>5. Later /\ Once'
    BY <1>2 DEF Later, IInv, Types, Once
  <1>6. \A q \in Clients \ {c} : Same(q)
    BY <1>1, <1>2 DEF Same, Busy, Waits, IInv, Types
  <1>7. Safe(c)'
    <2>1. /\ link'[c] = l /\ at'[c] = "killed" /\ inq'[c] = <<>> /\ answers'[c] = {}
          /\ Waits(c)' = Waits(c)
      BY <1>1, <1>2 DEF IInv, Types, Waits
    <2>2. Clocks(c)'
      BY <1>2, <1>3, <2>1 DEF Clocks, Busy
    <2>3. Told(c)'
      <3>1. CASE printed[c] = <<>>
        BY <1>2, <2>1, <3>1 DEF Told
      <3>2. CASE printed[c] # <<>>
        <4>1. PICK t \in 1 .. MaxTime : /\ asked[c] # 0 /\ asked[c] <= t /\ t <= now
                                        /\ OfLine(printed[c], inq[c], t)
          BY <1>3, <3>2 DEF Told
        <4>2. printed[c] \in Seq(Pieces) /\ inq[c] \in Seq(Pieces)
          BY DEF IInv, Types
        <4>3. OfLine(printed[c], <<>>, t)
          BY <4>1, <4>2, Stops
        <4> QED BY <1>2, <2>1, <4>1, <4>3 DEF Told
      <3> QED BY <3>1, <3>2
    <2>4. CASE transport = "tcp"
      <3>1. Tcp(c)
        BY <1>3, <2>4
      <3>2. link[c] \in {"none", "open"} => printed'[c] = <<>>
        BY <1>2, <3>1 DEF Tcp
      <3>3. link[c] = "reset" => server' = "ended" /\ printed'[c] = <<>>
        BY <1>2, <3>1 DEF Tcp
      <3>4. Waits(c)' => asked'[c] # 0 /\ l \in {"open", "broken"} /\ ~(Busy /\ peer = c)'
        BY <1>1, <1>2, <2>1, <3>1 DEF Tcp, Busy
      <3>5. (Busy /\ peer = c)' => l \in {"open", "broken"}
        BY <1>1, <1>2, <3>1 DEF Tcp, Busy
      <3>6. l = "open" => Waits(c)' \/ (Busy /\ peer = c)'
        BY <1>1, <1>2, <2>1, <3>1 DEF Tcp, Busy
      <3>7. requests'[c] = 0
        BY <1>2, <3>1 DEF Tcp
      <3>8. Tcp(c)'
        BY <1>1, <2>1, <3>2, <3>3, <3>4, <3>5, <3>6, <3>7 DEF Tcp
      <3> QED BY <1>2, <2>2, <2>3, <2>4, <3>8 DEF Safe
    <2>5. CASE transport # "tcp"
      <3>1. Udp(c)'
        BY <1>1, <1>2, <1>3, <2>1, <2>5 DEF Udp
      <3> QED BY <1>2, <2>2, <2>3, <2>5, <3>1 DEF Safe
    <2> QED BY <2>4, <2>5
  <1>8. transport # "tcp" => queue' = <<>>
    BY <1>2 DEF IInv
  <1> QED BY <1>4, <1>5, <1>6, <1>7, <1>8, LiftOne

----------------------------------------------------------------------------
(* And the clock and the network. *)

LEMMA TickStep == ASSUME IInv, Tick PROVE IInv'
  <1>1. /\ now < MaxTime /\ now' = now + 1
        /\ UNCHANGED <<transport, lossy, queue, inq, link, requests, answers, dups>>
        /\ UNCHANGED <<asked, printed, at, server, peer, buff>>
    BY DEF Tick, rigid, tcpVars, udpVars, clientVars, serverVars
  <1>2. PICK n \in 1 .. MaxTime : now' = n /\ now <= n
    <2>1. now + 1 \in 1 .. MaxTime /\ now <= now + 1
      BY <1>1 DEF IInv, Types
    <2> QED BY <1>1, <2>1
  <1>3. Types'
    BY <1>1, <1>2 DEF IInv, Types
  <1>4. Later /\ Once'
    <2>1. dups <= dups
      BY DEF IInv, Types
    <2> QED BY <1>1, <1>2, <2>1 DEF Later, IInv, Once
  <1>5. \A q \in Clients : Same(q)
    BY <1>1 DEF Same, Busy, Waits
  <1>6. transport # "tcp" => queue' = <<>>
    BY <1>1 DEF IInv
  <1> QED BY <1>3, <1>4, <1>5, <1>6, Lift

LEMMA DuplicateStep == ASSUME IInv, Duplicate PROVE IInv'
  <1>1. PICK c \in Clients : requests[c] > 0 /\ requests' = [requests EXCEPT ![c] = @ + 1]
    BY DEF Duplicate
  <1>2. /\ dups < MaxDups /\ dups' = dups + 1
        /\ UNCHANGED <<transport, lossy, now, queue, inq, link, answers>>
        /\ UNCHANGED <<asked, printed, at, server, peer, buff>>
    BY DEF Duplicate, rigid, tcpVars, clientVars, serverVars
  <1>3. Clocks(c) /\ Told(c) /\ (IF transport = "tcp" THEN Tcp(c) ELSE Udp(c))
    BY DEF IInv
  <1>4. /\ dups \in Nat /\ requests[c] \in Nat /\ requests[c] # 0
        /\ requests[c] <= dups + 1 /\ dups + 1 <= MaxDups
    BY <1>1, <1>2, <1>3 DEF Clocks, IInv, Types
  <1>5. transport # "tcp" /\ asked[c] # 0 /\ at[c] # "start"
    BY <1>3, <1>4 DEF Tcp, Clocks
  <1>6. PICK d \in 0 .. MaxDups, m \in 0 .. 1 + MaxDups :
          dups' = d /\ dups <= d /\ requests' = [requests EXCEPT ![c] = m] /\ m <= d + 1
    <2>1. dups + 1 \in 0 .. MaxDups /\ requests[c] + 1 \in 0 .. 1 + MaxDups
      BY <1>4
    <2>2. dups <= dups + 1 /\ requests[c] + 1 <= (dups + 1) + 1
      BY <1>4
    <2> QED BY <1>1, <1>2, <2>1, <2>2
  <1>7. Types'
    <2>1. requests' \in [Clients -> 0 .. 1 + MaxDups]
      BY <1>6 DEF IInv, Types
    <2> QED BY <1>2, <1>6, <2>1 DEF IInv, Types
  <1>8. Later /\ Once'
    <2>1. now <= now
      BY DEF IInv, Types
    <2> QED BY <1>2, <1>6, <2>1 DEF Later, IInv, Once
  <1>9. \A q \in Clients \ {c} : Same(q)
    BY <1>2, <1>6 DEF Same, Busy, Waits, IInv, Types
  <1>10. Safe(c)'
    <2>1. requests'[c] = m
      BY <1>6 DEF IInv, Types
    <2>2. Clocks(c)'
      BY <1>2, <1>3, <1>5, <1>6, <2>1 DEF Clocks, Busy
    <2>3. Told(c)' /\ Udp(c)'
      BY <1>2, <1>3, <1>5 DEF Told, Udp
    <2> QED BY <1>2, <1>5, <2>2, <2>3 DEF Safe
  <1>11. queue' = <<>>
    BY <1>2, <1>5 DEF IInv
  <1> QED BY <1>7, <1>8, <1>9, <1>10, <1>11, LiftOne

LEMMA LoseStep == ASSUME IInv, Lose PROVE IInv'
  <1>1. PICK c \in Clients :
          \/ requests[c] > 0 /\ requests' = [requests EXCEPT ![c] = @ - 1] /\ UNCHANGED answers
          \/ \E t \in answers[c] : answers' = [answers EXCEPT ![c] = @ \ {t}] /\ UNCHANGED requests
    BY DEF Lose
  <1>2. /\ transport # "tcp"
        /\ UNCHANGED <<transport, lossy, now, queue, inq, link, dups>>
        /\ UNCHANGED <<asked, printed, at, server, peer, buff>>
    BY DEF Lose, rigid, tcpVars, clientVars, serverVars, IInv
  <1>3. Clocks(c) /\ Told(c) /\ Udp(c)
    BY <1>2 DEF IInv
  <1>4. PICK m \in 0 .. 1 + MaxDups, A \in SUBSET answers[c] :
          /\ requests' = [requests EXCEPT ![c] = m] /\ answers' = [answers EXCEPT ![c] = A]
          /\ m <= requests[c]
    <2>1. /\ requests[c] \in 0 .. 1 + MaxDups /\ requests[c] <= requests[c]
          /\ requests = [requests EXCEPT ![c] = requests[c]]
          /\ answers = [answers EXCEPT ![c] = answers[c]]
      BY DEF IInv, Types
    <2>2. CASE /\ requests[c] > 0 /\ UNCHANGED answers
               /\ requests' = [requests EXCEPT ![c] = @ - 1]
      <3>1. requests[c] - 1 \in 0 .. 1 + MaxDups /\ requests[c] - 1 <= requests[c]
        BY <2>1, <2>2
      <3>2. answers' = [answers EXCEPT ![c] = answers[c]]
        BY <2>1, <2>2
      <3> QED BY <2>2, <3>1, <3>2
    <2>3. CASE \E t \in answers[c] :
                 answers' = [answers EXCEPT ![c] = @ \ {t}] /\ UNCHANGED requests
      <3>1. PICK t : answers' = [answers EXCEPT ![c] = answers[c] \ {t}] /\ requests' = requests
        BY <2>3
      <3>2. answers[c] \ {t} \in SUBSET answers[c]
        OBVIOUS
      <3>3. requests' = [requests EXCEPT ![c] = requests[c]]
        BY <2>1, <3>1
      <3> QED BY <2>1, <3>1, <3>2, <3>3
    <2> QED BY <1>1, <2>2, <2>3
  <1>5. Types'
    <2>1. requests' \in [Clients -> 0 .. 1 + MaxDups]
      BY <1>4 DEF IInv, Types
    <2>2. answers' \in [Clients -> SUBSET (1 .. MaxTime)]
      BY <1>4 DEF IInv, Types
    <2> QED BY <1>2, <2>1, <2>2 DEF IInv, Types
  <1>6. Later /\ Once'
    BY <1>2 DEF Later, IInv, Types, Once
  <1>7. \A q \in Clients \ {c} : Same(q)
    BY <1>2, <1>4 DEF Same, Busy, Waits, IInv, Types
  <1>8. Safe(c)'
    <2>1. requests'[c] = m /\ answers'[c] = A
      BY <1>4 DEF IInv, Types
    <2>2. m # 0 => requests[c] # 0
      BY <1>4 DEF IInv, Types
    <2>3. m <= dups + 1
      BY <1>3, <1>4 DEF Clocks, IInv, Types
    <2>4. at[c] = "start" => m = 0 /\ A = {}
      BY <1>3, <1>4, <2>2 DEF Clocks
    <2>5. Clocks(c)'
      BY <1>2, <1>3, <1>4, <2>1, <2>2, <2>3, <2>4 DEF Clocks, Busy
    <2>6. Told(c)' /\ Udp(c)'
      BY <1>2, <1>3 DEF Told, Udp
    <2> QED BY <1>2, <2>5, <2>6 DEF Safe
  <1>9. queue' = <<>>
    BY <1>2 DEF IInv
  <1> QED BY <1>5, <1>6, <1>7, <1>8, <1>9, LiftOne

----------------------------------------------------------------------------
(* The invariant. *)

LEMMA InitIInv == Init => IInv
  <1> SUFFICES ASSUME Init PROVE IInv
    OBVIOUS
  <1>1. peer \in Clients
    BY DEF Init
  <1>2. Types
    <2>1. <<>> \in Seq(Pieces) /\ <<>> \in Seq(Clients)
      OBVIOUS
    <2>2. printed \in [Clients -> Seq(Pieces)] /\ inq \in [Clients -> Seq(Pieces)]
      BY <2>1 DEF Init
    <2>3. now \in 1 .. MaxTime /\ dups \in 0 .. MaxDups /\ buff \in 0 .. MaxTime
      BY DEF Init
    <2>4. asked \in [Clients -> 0 .. MaxTime] /\ requests \in [Clients -> 0 .. 1 + MaxDups]
      BY DEF Init
    <2>5. answers \in [Clients -> SUBSET (1 .. MaxTime)]
      BY DEF Init
    <2>6. /\ at \in [Clients -> {"start", "recv"} \cup Gone]
          /\ link \in [Clients -> {"none", "open", "fin", "reset", "broken"}]
      BY DEF Init
    <2> QED BY <1>1, <2>1, <2>2, <2>3, <2>4, <2>5, <2>6 DEF Init, Types
  <1>3. Once /\ \A c \in Clients : ~Waits(c)
    BY DEF Init, Once, Waits
  <1>4. \A c \in Clients : Clocks(c) /\ Told(c)
    BY DEF Init, Clocks, Told, Busy
  <1>5. \A c \in Clients : Tcp(c) /\ Udp(c)
    BY <1>3 DEF Init, Tcp, Udp, Busy
  <1>6. (transport = "tcp" => ~lossy) /\ queue = <<>>
    BY DEF Init, Over
  <1> QED BY <1>2, <1>3, <1>4, <1>5, <1>6 DEF IInv

LEMMA NextIInv == IInv /\ [Next]_vars => IInv'
  <1> SUFFICES ASSUME IInv, [Next]_vars PROVE IInv'
    OBVIOUS
  <1>1. CASE Server
    <2>1. CASE SendFails
      BY <2>1, EndsStep DEF SendFails
    <2> QED BY <1>1, <2>1, AcceptStep, RecvFromStep, ReadsClockStep, SendsStep, SendsToStep DEF Server
  <1>2. CASE Fails \/ Killed
    BY <1>2, EndsStep DEF Fails, Killed
  <1>3. CASE Tick \/ Duplicate \/ Lose
    BY <1>3, TickStep, DuplicateStep, LoseStep
  <1>4. ASSUME NEW c \in Clients, Client(c) PROVE IInv'
    BY <1>4, ConnectsStep, SendsRequestStep, RefusedStep, PrintsStep, FinishesStep, AnsweredStep,
       BouncedStep DEF Client
  <1>5. ASSUME NEW c \in Clients, ClientKilled(c) PROVE IInv'
    BY <1>5, ClientKilledStep
  <1>6. CASE UNCHANGED vars
    <2>1. /\ UNCHANGED <<transport, lossy, now, queue, inq, link, requests, answers, dups>>
          /\ UNCHANGED <<asked, printed, at, server, peer, buff>>
      BY <1>6 DEF vars, rigid, tcpVars, udpVars, clientVars, serverVars
    <2>2. Types'
      BY <2>1 DEF IInv, Types
    <2>3. Later /\ Once'
      BY <2>1 DEF Later, IInv, Types, Once
    <2>4. \A q \in Clients : Same(q)
      BY <2>1 DEF Same, Busy, Waits
    <2>5. transport # "tcp" => queue' = <<>>
      BY <2>1 DEF IInv
    <2> QED BY <2>2, <2>3, <2>4, <2>5, Lift
  <1> QED BY <1>1, <1>2, <1>3, <1>4, <1>5, <1>6 DEF Next

LEMMA Inductive == Spec => []IInv
  BY InitIInv, NextIInv, PTL DEF Spec

----------------------------------------------------------------------------
(* Types. *)

(* The pieces that are the start of a line, as a subsequence of it.        *)
LEMMA StartOfLine ==
  ASSUME NEW u \in Seq(Pieces), NEW v \in Seq(Pieces), NEW t \in 1 .. MaxTime, OfLine(u, v, t)
  PROVE  Len(u) <= LineLen /\ u = SubSeq(Line(t), 1, Len(u))
  <1>1. PICK m \in Nat, n \in Nat : m = Len(u) /\ n = Len(v)
    OBVIOUS
  <1>2. m + n <= LineLen /\ m <= m + n
    BY <1>1 DEF OfLine
  <1>3. m <= LineLen
    BY <1>2
  <1>4. Len(Line(t)) = LineLen /\ Line(t) \in Seq(Pieces)
    BY LineIs
  <1>5. PICK s : s = SubSeq(Line(t), 1, m)
    OBVIOUS
  <1>6. s \in Seq(Pieces) /\ Len(s) = m /\ \A k \in 1 .. m : s[k] = Line(t)[k]
    BY <1>3, <1>4, <1>5
  <1>7. \A k \in 1 .. m : Line(t)[k] = <<t, k>> /\ u[k] = <<t, k>>
    BY <1>1, <1>3 DEF Line, OfLine
  <1>8. \A k \in 1 .. m : s[k] = u[k]
    BY <1>6, <1>7
  <1>9. s = u
    BY <1>1, <1>6, <1>8
  <1> QED BY <1>1, <1>3, <1>5, <1>9

(* So are what has been printed and what has come after it, together.      *)
LEMMA TogetherPrefix ==
  ASSUME NEW u \in Seq(Pieces), NEW v \in Seq(Pieces), NEW t \in 1 .. MaxTime, OfLine(u, v, t)
  PROVE  IsPrefix(u \o v, Line(t))
  <1>1. PICK w : w = u \o v
    OBVIOUS
  <1>2. u \o v \in Seq(Pieces) /\ Len(u \o v) = Len(u) + Len(v)
        /\ \A k \in 1 .. Len(u \o v) :
             (u \o v)[k] = IF k <= Len(u) THEN u[k] ELSE v[k - Len(u)]
    OBVIOUS
  <1>3. w \in Seq(Pieces) /\ Len(w) = Len(u) + Len(v)
        /\ \A k \in 1 .. Len(w) : w[k] = IF k <= Len(u) THEN u[k] ELSE v[k - Len(u)]
    BY <1>1, <1>2
  <1>4. ASSUME NEW k \in 1 .. Len(w) PROVE w[k] = <<t, k>>
    <2>0. Len(u) \in Nat /\ Len(v) \in Nat
      OBVIOUS
    <2>1. CASE k <= Len(u)
      <3>1. k \in 1 .. Len(u) /\ w[k] = u[k]
        BY <1>3, <2>0, <2>1
      <3> QED BY <3>1 DEF OfLine
    <2>2. CASE ~(k <= Len(u))
      <3>1. k - Len(u) \in 1 .. Len(v) /\ Len(u) + (k - Len(u)) = k
        BY <1>3, <2>0, <2>2
      <3>2. w[k] = v[k - Len(u)]
        BY <1>3, <2>2
      <3> QED BY <3>1, <3>2 DEF OfLine
    <2> QED BY <2>1, <2>2
  <1>5. OfLine(w, <<>>, t)
    <2>1. Len(w) + Len(<<>>) <= LineLen
      <3>1. Len(w) <= LineLen /\ Len(w) \in Nat /\ Len(<<>>) = 0
        BY <1>3 DEF OfLine
      <3> QED BY <3>1
    <2> QED BY <1>4, <2>1 DEF OfLine
  <1>6. <<>> \in Seq(Pieces)
    OBVIOUS
  <1>7. Len(w) <= LineLen /\ w = SubSeq(Line(t), 1, Len(w))
    BY <1>3, <1>5, <1>6, StartOfLine
  <1>8. Len(Line(t)) = LineLen
    BY LineIs
  <1>9. SubSeq(w, 1, Len(w)) = w
    BY <1>3
  <1> QED BY <1>1, <1>7, <1>8, <1>9 DEF IsPrefix

LEMMA TypesOfIInv == IInv => TypeOK
  <1> SUFFICES ASSUME IInv PROVE TypeOK
    OBVIOUS
  <1>1. ASSUME NEW c \in Clients
        PROVE  \E t \in 1 .. MaxTime : IsPrefix(printed[c] \o inq[c], Line(t))
    <2>1. printed[c] \in Seq(Pieces) /\ inq[c] \in Seq(Pieces)
      BY DEF IInv, Types
    <2>2. \E t \in 1 .. MaxTime : OfLine(printed[c], inq[c], t)
      <3>1. CASE printed[c] = <<>> /\ inq[c] = <<>>
        <4>1. OfLine(<<>>, <<>>, 1) /\ 1 \in 1 .. MaxTime
          BY DEF OfLine
        <4> QED BY <3>1, <4>1
      <3> QED BY <3>1 DEF IInv, Told
    <2> QED BY <2>1, <2>2, TogetherPrefix
  <1>2. IsInjective(queue)
    <2>1. DOMAIN queue = 1 .. Len(queue)
      BY DEF IInv, Types
    <2> QED BY <2>1 DEF IsInjective, IInv, Once
  <1>3. server = "send" => buff # 0
    <2> SUFFICES ASSUME server = "send" PROVE buff # 0
      OBVIOUS
    <2>1. peer \in Clients /\ asked[peer] \in Nat /\ buff \in Nat
      BY DEF IInv, Types
    <2>2. asked[peer] # 0 /\ asked[peer] <= buff
      BY <2>1 DEF IInv, Clocks, Busy
    <2> QED BY <2>1, <2>2
  <1> QED BY <1>1, <1>2, <1>3 DEF TypeOK, IInv, Types

(* Nothing leaves its type: in particular what a client has printed and    *)
(* what is on its way to it are always the start of one line, and no       *)
(* connection is in the queue twice.                                       *)
THEOREM TypeCorrect == Spec => []TypeOK
  BY Inductive, TypesOfIInv, PTL

----------------------------------------------------------------------------
(* Service: what the programs owe their clients. *)

(* A step of the programs that a client does not see. *)
LEMMA Stutters ==
  ASSUME UNCHANGED <<now, asked, printed, at>>, (server' = "ended") = (server = "ended")
  PROVE  UNCHANGED Service!vars
  <1>1. Fate' = Fate
    BY DEF Fate
  <1> QED BY <1>1 DEF Service!vars

LEMMA ServerStep == ASSUME Accept \/ RecvFrom \/ ReadsClock \/ Sends \/ SendsTo
                    PROVE  UNCHANGED Service!vars
  <1>1. UNCHANGED <<now, asked, printed, at>> /\ server # "ended" /\ server' # "ended"
    BY DEF Accept, RecvFrom, ReadsClock, Sends, SendsTo, clientVars
  <1> QED BY <1>1, Stutters

LEMMA NetworkStep == ASSUME Duplicate \/ Lose PROVE UNCHANGED Service!vars
  <1>1. UNCHANGED <<now, asked, printed, at, server>>
    BY DEF Duplicate, Lose, clientVars, serverVars
  <1> QED BY <1>1, Stutters

LEMMA StopStep == ASSUME SendFails \/ Fails \/ Killed PROVE Service!Stop
  <1>1. server # "ended" /\ server' = "ended" /\ UNCHANGED <<now, asked, printed, at>>
    BY DEF SendFails, Fails, Killed, Ends, clientVars
  <1>2. Fate' = Fate
    BY <1>1 DEF Fate
  <1> QED BY <1>1, <1>2 DEF Service!Stop

LEMMA ClockStep == ASSUME Tick PROVE Service!Tick
  <1>1. now' = now + 1 /\ UNCHANGED <<asked, printed, at, server>>
    BY DEF Tick, clientVars, serverVars
  <1>2. Fate' = Fate
    BY <1>1 DEF Fate
  <1> QED BY <1>1, <1>2 DEF Service!Tick

LEMMA AskStep ==
  ASSUME IInv, NEW c \in Clients, Connects(c) \/ SendsRequest(c)
  PROVE  Service!Ask(c)
  <1>1. /\ at[c] = "start" /\ asked' = [asked EXCEPT ![c] = now]
        /\ at' = [at EXCEPT ![c] = "recv"] /\ UNCHANGED <<now, printed, server>>
    BY DEF Connects, SendsRequest, serverVars
  <1>2. asked[c] = 0 /\ Fate[c] = "here"
    BY <1>1 DEF IInv, Clocks, Fate
  <1>3. Fate' = Fate
    BY <1>1 DEF Fate, IInv, Types
  <1> QED BY <1>1, <1>2, <1>3 DEF Service!Ask

(* A client that is still there, when it ends. *)
LEMMA FateChanges ==
  ASSUME IInv, NEW c \in Clients, NEW how \in Gone, at' = [at EXCEPT ![c] = how]
  PROVE  Fate' = [Fate EXCEPT ![c] = IF how = "killed" THEN "killed" ELSE "ended"]
  <1>1. \A q \in Clients : at'[q] = IF q = c THEN how ELSE at[q]
    BY DEF IInv, Types
  <1>2. how \notin {"start", "recv"}
    BY DEF Gone
  <1> QED BY <1>1, <1>2 DEF Fate

LEMMA EndStep ==
  ASSUME IInv, NEW c \in Clients, Refused(c) \/ Finishes(c) \/ Bounced(c)
  PROVE  Service!End(c)
  <1>1. /\ at[c] \in {"start", "recv"} /\ UNCHANGED <<now, asked, printed, server>>
    BY DEF Refused, Finishes, Bounced, serverVars
  <1>2. PICK how \in Gone \ {"killed"} : at' = [at EXCEPT ![c] = how]
    BY DEF Refused, Finishes, Bounced, Gone
  <1>3. Fate[c] = "here" /\ Fate' = [Fate EXCEPT ![c] = "ended"]
    BY <1>1, <1>2, FateChanges DEF Fate
  <1>4. Len(printed[c]) = LineLen \/ (server = "ended" /\ printed[c] = <<>>)
    <2>1. printed[c] \in Seq(Pieces) /\ Len(<<>>) = 0
      BY DEF IInv, Types
    <2>2. CASE Refused(c)
      BY <2>2 DEF Refused, IInv, Clocks
    <2>3. CASE Bounced(c)
      BY <2>3 DEF Bounced
    <2>4. CASE Finishes(c)
      <3>1. CASE transport = "tcp"
        <4>1. Tcp(c) /\ at[c] = "recv" /\ ((link[c] = "fin" /\ inq[c] = <<>>) \/ link[c] = "reset")
          BY <2>4, <3>1 DEF IInv, Finishes, Over
        <4>2. Len(printed[c]) + 0 = Len(printed[c])
          BY <2>1
        <4> QED BY <2>1, <4>1, <4>2 DEF Tcp
      <3>2. CASE transport # "tcp"
        <4>1. Udp(c) /\ printed[c] # <<>>
          BY <2>4, <3>2 DEF IInv, Finishes, Over, Udp
        <4> QED BY <2>1, <4>1 DEF Udp
      <3> QED BY <3>1, <3>2
    <2> QED BY <2>2, <2>3, <2>4
  <1> QED BY <1>1, <1>3, <1>4 DEF Service!End

LEMMA KillStep == ASSUME IInv, NEW c \in Clients, ClientKilled(c) PROVE Service!Kill(c)
  <1>1. /\ at[c] = "recv" /\ at' = [at EXCEPT ![c] = "killed"]
        /\ UNCHANGED <<now, asked, printed, server>>
    BY DEF ClientKilled, serverVars
  <1>2. "killed" \in Gone
    BY DEF Gone
  <1>3. Fate[c] = "here" /\ Fate' = [Fate EXCEPT ![c] = "killed"]
    BY <1>1, <1>2, FateChanges DEF Fate
  <1> QED BY <1>1, <1>3 DEF Service!Kill

(* Bytes are printed only as more of a line that the client has asked for. *)
LEMMA TellIs ==
  ASSUME IInv, NEW c \in Clients, at[c] = "recv", UNCHANGED <<now, asked, at, server>>,
         NEW u \in Seq(Pieces), u = printed[c], NEW w \in Seq(Pieces), NEW v \in Seq(Pieces),
         NEW x \in Seq(Pieces), NEW t \in 1 .. MaxTime, printed' = [printed EXCEPT ![c] = w],
         asked[c] # 0, asked[c] <= t, t <= now, Len(u) < Len(w),
         OfLine(u, v, t), OfLine(w, x, t)
  PROVE  Service!Tell(c)
  <1>1. u = SubSeq(Line(t), 1, Len(u))
    BY StartOfLine
  <1>2. Len(w) <= LineLen /\ w = SubSeq(Line(t), 1, Len(w))
    BY StartOfLine
  <1>3. Line(t) = Service!Line(t)
    BY DEF Line, Service!Line
  <1>4. t \in asked[c] .. now
    BY DEF IInv, Types
  <1>5. Len(w) \in Len(u) + 1 .. LineLen
    <2>1. PICK m \in Nat, n \in Nat : m = Len(u) /\ n = Len(w)
      OBVIOUS
    <2>2. m < n /\ n <= LineLen
      BY <1>2, <2>1
    <2>3. n \in m + 1 .. LineLen
      BY <2>2
    <2> QED BY <2>1, <2>3
  <1>6. /\ printed[c] = SubSeq(Service!Line(t), 1, Len(printed[c]))
        /\ printed' = [printed EXCEPT ![c] = SubSeq(Service!Line(t), 1, Len(w))]
        /\ Len(w) \in Len(printed[c]) + 1 .. LineLen
    BY <1>1, <1>2, <1>3, <1>5
  <1>7. Fate[c] = "here" /\ Fate' = Fate
    BY DEF Fate
  <1>8. (server' = "ended") = (server = "ended")
    OBVIOUS
  <1> QED BY <1>4, <1>6, <1>7, <1>8 DEF Service!Tell

LEMMA PrintsTells == ASSUME IInv, NEW c \in Clients, Prints(c) PROVE Service!Tell(c)
  <1>1. PICK n \in 1 .. Len(inq[c]) :
          printed' = [printed EXCEPT ![c] = @ \o SubSeq(inq[c], 1, n)]
    BY DEF Prints
  <1>2. at[c] = "recv" /\ UNCHANGED <<now, asked, at, server>>
    BY DEF Prints, serverVars
  <1>3. PICK u \in Seq(Pieces), v \in Seq(Pieces) : u = printed[c] /\ v = inq[c]
    BY DEF IInv, Types
  <1>4. PICK w, x : Moves(u, v, n, w, x)
    BY DEF Moves
  <1>5. printed' = [printed EXCEPT ![c] = w]
    BY <1>1, <1>3, <1>4 DEF Moves
  <1>6. n \in 1 .. Len(v)
    BY <1>1, <1>3
  <1>7. SameBytes(u, v, w, x) /\ Len(w) = Len(u) + n
    BY <1>3, <1>4, <1>6, Splits
  <1>8. PICK t \in 1 .. MaxTime : /\ asked[c] # 0 /\ asked[c] <= t /\ t <= now
                                  /\ OfLine(u, v, t)
    <2>1. v # <<>>
      BY <1>6
    <2> QED BY <1>3, <2>1 DEF IInv, Told
  <1>9. Len(u) < Len(w)
    BY <1>3, <1>6, <1>7
  <1>10. w \in Seq(Pieces) /\ x \in Seq(Pieces) /\ OfLine(w, x, t)
    BY <1>7, <1>8 DEF SameBytes
  <1> QED BY <1>2, <1>3, <1>5, <1>8, <1>9, <1>10, TellIs

LEMMA AnsweredTells == ASSUME IInv, NEW c \in Clients, Answered(c) PROVE Service!Tell(c)
  <1>1. PICK t \in answers[c] : printed' = [printed EXCEPT ![c] = Line(t)]
    BY DEF Answered
  <1>2. at[c] = "recv" /\ printed[c] = <<>> /\ UNCHANGED <<now, asked, at, server>>
    BY DEF Answered, serverVars
  <1>3. t \in 1 .. MaxTime /\ asked[c] # 0 /\ asked[c] <= t /\ t <= now
    BY <1>1 DEF IInv, Clocks, Types
  <1>4. PICK line : line = Line(t)
    OBVIOUS
  <1>5. /\ line \in Seq(Pieces) /\ Len(line) = LineLen
        /\ OfLine(<<>>, line, t) /\ OfLine(line, <<>>, t)
    BY <1>3, <1>4, LineIs
  <1>6. <<>> \in Seq(Pieces) /\ <<>> = printed[c] /\ Len(<<>>) < Len(line)
    BY <1>2, <1>5
  <1>7. printed' = [printed EXCEPT ![c] = line]
    BY <1>1, <1>4
  <1> QED BY <1>2, <1>3, <1>5, <1>6, <1>7, TellIs

LEMMA InitService == Init => Service!Init
  <1> SUFFICES ASSUME Init PROVE Service!Init
    OBVIOUS
  <1>1. Fate = [c \in Clients |-> "here"]
    BY DEF Init, Fate
  <1> QED BY <1>1 DEF Init, Service!Init

LEMMA NextService == IInv /\ [Next]_vars => [Service!Next]_(Service!vars)
  <1> SUFFICES ASSUME IInv, [Next]_vars PROVE Service!Next \/ UNCHANGED Service!vars
    OBVIOUS
  <1>1. CASE Server
    BY <1>1, ServerStep, StopStep DEF Server, Service!Next
  <1>2. CASE Fails \/ Killed
    BY <1>2, StopStep DEF Service!Next
  <1>3. CASE Tick \/ Duplicate \/ Lose
    BY <1>3, ClockStep, NetworkStep DEF Service!Next
  <1>4. ASSUME NEW c \in Clients, Client(c) \/ ClientKilled(c) PROVE Service!Next
    <2>1. Service!Ask(c) \/ Service!Tell(c) \/ Service!End(c) \/ Service!Kill(c)
      BY <1>4, AskStep, EndStep, KillStep, PrintsTells, AnsweredTells DEF Client
    <2> QED BY <2>1 DEF Service!Next
  <1>5. CASE UNCHANGED vars
    <2>1. UNCHANGED <<now, asked, printed, at, server>>
      BY <1>5 DEF vars, clientVars, serverVars
    <2> QED BY <2>1, Stutters
  <1> QED BY <1>1, <1>2, <1>3, <1>4, <1>5 DEF Next

(* The programs give every client what DaytimeService promises: one whole  *)
(* line with a time since the request, unless client or server ends.       *)
THEOREM ImplementsDaytime == Spec => DaytimeSpec
  BY InitService, NextService, Inductive, PTL DEF Spec, DaytimeSpec, Service!Spec

----------------------------------------------------------------------------
(* What the service promises, and so the programs. *)

(* A client that has ended by itself has its line, or none for a reason.   *)
Kept ==
  \A c \in Clients :
    Fate[c] = "ended" => Len(printed[c]) = LineLen \/ (server = "ended" /\ printed[c] = <<>>)

LEMMA KeptByService ==
  ASSUME IInv, Kept, Service!Next \/ UNCHANGED Service!vars
  PROVE  Kept'
  <1>1. Fate \in [Clients -> {"here", "ended", "killed"}]
    BY DEF Fate
  <1>2. printed \in [Clients -> Seq(Pieces)]
    BY DEF IInv, Types
  <1>3. ASSUME NEW c \in Clients, Fate'[c] = Fate[c],
               printed'[c] = printed[c] \/ Fate[c] = "here",
               server = "ended" => server' = "ended"
        PROVE  Fate'[c] = "ended" =>
                 Len(printed'[c]) = LineLen \/ (server' = "ended" /\ printed'[c] = <<>>)
    BY <1>3 DEF Kept
  <1>4. CASE Service!Tick \/ Service!Stop \/ UNCHANGED Service!vars
    <2>1. UNCHANGED <<printed, Fate>> /\ (server = "ended" => server' = "ended")
      BY <1>4 DEF Service!Tick, Service!Stop, Service!vars
    <2> QED BY <2>1 DEF Kept
  <1>5. ASSUME NEW c \in Clients, Service!Ask(c) PROVE Kept'
    <2>1. UNCHANGED <<printed, Fate>> /\ (server = "ended" => server' = "ended")
      BY <1>5 DEF Service!Ask
    <2> QED BY <2>1 DEF Kept
  <1>6. ASSUME NEW c \in Clients, Service!Tell(c) PROVE Kept'
    <2>1. /\ Fate[c] = "here" /\ Fate' = Fate /\ (server = "ended" => server' = "ended")
          /\ \A q \in Clients \ {c} : printed'[q] = printed[q]
      BY <1>2, <1>6 DEF Service!Tell
    <2> QED BY <1>3, <2>1 DEF Kept
  <1>7. ASSUME NEW c \in Clients, Service!End(c) PROVE Kept'
    <2>1. /\ Len(printed[c]) = LineLen \/ (server = "ended" /\ printed[c] = <<>>)
          /\ printed' = printed /\ (server = "ended" => server' = "ended")
          /\ \A q \in Clients \ {c} : Fate'[q] = Fate[q]
      BY <1>1, <1>7 DEF Service!End
    <2> QED BY <2>1 DEF Kept
  <1>8. ASSUME NEW c \in Clients, Service!Kill(c) PROVE Kept'
    <2>1. /\ Fate'[c] = "killed"
          /\ printed' = printed /\ (server = "ended" => server' = "ended")
          /\ \A q \in Clients \ {c} : Fate'[q] = Fate[q]
      BY <1>1, <1>8 DEF Service!Kill
    <2> QED BY <2>1 DEF Kept
  <1> QED BY <1>4, <1>5, <1>6, <1>7, <1>8 DEF Service!Next

(* Told, in the words of the service. *)
LEMMA ToldIs ==
  ASSUME IInv, NEW c \in Clients, printed[c] # <<>>
  PROVE  /\ asked[c] # 0
         /\ \E t \in asked[c] .. now, n \in 1 .. LineLen :
              printed[c] = SubSeq(Service!Line(t), 1, n)
  <1>1. PICK u \in Seq(Pieces), v \in Seq(Pieces) : u = printed[c] /\ v = inq[c]
    BY DEF IInv, Types
  <1>2. PICK t \in 1 .. MaxTime : asked[c] # 0 /\ asked[c] <= t /\ t <= now /\ OfLine(u, v, t)
    BY <1>1 DEF IInv, Told
  <1>3. Len(u) <= LineLen /\ u = SubSeq(Line(t), 1, Len(u))
    BY <1>2, StartOfLine
  <1>4. Len(u) \in 1 .. LineLen
    <2>1. u # <<>>
      BY <1>1
    <2>2. Len(u) \in Nat \ {0}
      BY <2>1
    <2> QED BY <1>3, <2>2
  <1>5. t \in asked[c] .. now
    BY <1>2 DEF IInv, Types
  <1>6. Line(t) = Service!Line(t)
    BY DEF Line, Service!Line
  <1> QED BY <1>1, <1>2, <1>3, <1>4, <1>5, <1>6

(* Of the daytime programs: nobody prints anything but the start of one    *)
(* line whose time was read after its request, and whoever returns or      *)
(* quits by itself has printed a whole line, or nothing from a server that *)
(* has ended, whatever recv() has cut it into and the network has lost,    *)
(* duplicated or reordered.                                                *)
THEOREM ClientsGetOneLine == Spec => []Service!Promise
  <1>1. Init => Kept
    BY DEF Init, Kept, Fate
  <1>2. IInv /\ Kept /\ [Next]_vars => Kept'
    BY NextService, KeptByService
  <1>3. IInv /\ Kept => Service!Promise
    <2> SUFFICES ASSUME IInv, Kept PROVE Service!Promise
      OBVIOUS
    <2> QED BY ToldIs DEF Kept, Service!Promise
  <1> QED BY <1>1, <1>2, <1>3, Inductive, PTL DEF Spec
=============================================================================
