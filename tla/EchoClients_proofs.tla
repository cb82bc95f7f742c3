------------------------- MODULE EchoClients_proofs -------------------------
(***************************************************************************)
(* What the proofs about the echo servers need to know of their            *)
(* clients: what a step of a client, and what the kernel's answers to the  *)
(* server, leave as it was.                                                *)
(***************************************************************************)
EXTENDS EchoClients, FiniteSetsExt, SequenceTheorems, FiniteSetTheorems, TLAPS

(* A client waits for accept() at most once, and has connected. *)
QueueOK ==
  /\ \A k, l \in 1 .. Len(queue) : queue[k] = queue[l] => k = l
  /\ \A k \in 1 .. Len(queue) : phase[queue[k]] # "idle"

(* Once connected, always connected; what recv() would report stays; and a *)
(* client comes into the queue only when it connects.                      *)
ClientFacts ==
  /\ \A q \in Peers : Readable(q) => Readable(q)'
  /\ \A q \in Peers : phase[q] # "idle" => phase'[q] # "idle"
  /\ \A q \in Peers : Queued(q)' => Queued(q) \/ phase[q] = "idle"

USE ClientsAssumption

LEMMA InitClients == ClientsInit => ClientsTypeOK /\ QueueOK
  BY DEF ClientsInit, ClientsTypeOK, QueueOK, Phases, Errors

LEMMA ConnectKeeps ==
  ASSUME ClientsTypeOK, QueueOK, NEW p \in Peers, ClientConnects(p)
  PROVE  ClientsTypeOK' /\ QueueOK' /\ ClientFacts
  <1>1. ClientsTypeOK'
    BY DEF ClientsTypeOK, ClientConnects, Phases
  <1>2. /\ Len(queue') = Len(queue) + 1 /\ Len(queue) \in Nat
        /\ \A k \in 1 .. Len(queue) : queue'[k] = queue[k] /\ queue[k] \in Peers
        /\ queue'[Len(queue) + 1] = p
    BY DEF ClientsTypeOK, ClientConnects
  <1>3. phase[p] = "idle" /\ phase' = [phase EXCEPT ![p] = "connected"] /\ phase \in [Peers -> Phases]
    BY DEF ClientConnects, ClientsTypeOK
  <1>4. QueueOK'
    BY <1>2, <1>3 DEF QueueOK
  <1>5. \A q \in Peers : phase[q] # "idle" => phase'[q] # "idle"
    BY <1>3
  <1>6. \A q \in Peers : Queued(q)' => Queued(q) \/ phase[q] = "idle"
    BY <1>2, <1>3 DEF Queued
  <1>7. \A q \in Peers : Readable(q) => Readable(q)'
    BY DEF ClientConnects, Readable
  <1> QED BY <1>1, <1>4, <1>5, <1>6, <1>7 DEF ClientFacts

LEMMA SendKeeps ==
  ASSUME ClientsTypeOK, QueueOK, NEW p \in Peers, ClientSends(p)
  PROVE  ClientsTypeOK' /\ QueueOK' /\ ClientFacts
  <1>1. nsent[p] + 1 \in 1 .. MaxBytes
    BY DEF ClientsTypeOK, ClientSends
  <1>2. <<p, nsent[p] + 1>> \in Bytes
    BY <1>1 DEF Bytes
  <1>3. inq' \in [Peers -> Seq(Bytes)]
    BY <1>2 DEF ClientsTypeOK, ClientSends
  <1>4. ClientsTypeOK'
    BY <1>1, <1>3 DEF ClientsTypeOK, ClientSends
  <1>5. QueueOK'
    BY DEF QueueOK, ClientSends
  <1>6. \A q \in Peers : inq[q] # <<>> => inq'[q] # <<>>
    <2>1. inq[p] \in Seq(Bytes) /\ inq'[p] = Append(inq[p], <<p, nsent[p] + 1>>)
      BY DEF ClientsTypeOK, ClientSends
    <2>2. Len(inq'[p]) > 0
      BY <1>2, <2>1
    <2>3. \A q \in Peers \ {p} : inq'[q] = inq[q]
      BY DEF ClientsTypeOK, ClientSends
    <2> QED BY <2>2, <2>3
  <1> QED BY <1>4, <1>5, <1>6 DEF ClientFacts, Readable, Queued, ClientSends

(* The other steps change how the client's stream ends, and no sequence. *)
LEMMA OtherStepsKeep ==
  ASSUME ClientsTypeOK, QueueOK, NEW p \in Peers,
         \/ ClientReads(p) \/ ClientHalfCloses(p) \/ ClientCloses(p)
         \/ ClientAborts(p) \/ ResetArrives(p) \/ ClientVanishes(p)
  PROVE  ClientsTypeOK' /\ QueueOK' /\ ClientFacts
  <1>1. UNCHANGED <<nsent, inq, echoed, queue>>
    BY DEF ClientReads, ClientHalfCloses, ClientCloses, ClientAborts, ResetArrives, ClientVanishes
  <1>2. /\ phase' \in [Peers -> Phases]
        /\ \A q \in Peers : phase[q] # "idle" => phase'[q] # "idle"
    BY DEF ClientsTypeOK, Phases, ClientReads, ClientHalfCloses, ClientCloses, ClientAborts,
           ResetArrives, ClientVanishes
  <1>3. unread' \in [Peers -> 0 .. SendSpace]
    <2>1. CASE ClientReads(p)
      BY <2>1 DEF ClientsTypeOK, ClientReads
    <2>2. CASE ~ClientReads(p)
      <3>1. UNCHANGED unread
        BY <2>2 DEF ClientHalfCloses, ClientCloses, ClientAborts, ResetArrives, ClientVanishes
      <3> QED BY <3>1 DEF ClientsTypeOK
    <2> QED BY <2>1, <2>2
  <1>4. /\ fin' \in [Peers -> BOOLEAN]
        /\ \A q \in Peers : fin[q] => fin'[q]
    BY DEF ClientsTypeOK, ClientReads, ClientHalfCloses, ClientCloses, ClientAborts,
           ResetArrives, ClientVanishes
  <1>5. /\ dead' \in [Peers -> BOOLEAN]
        /\ \A q \in Peers : dead[q] => dead'[q]
    BY DEF ClientsTypeOK, ClientReads, ClientHalfCloses, ClientCloses, ClientAborts,
           ResetArrives, ClientVanishes
  <1>6. err' \in [Peers -> Errors]
    BY DEF ClientsTypeOK, Errors, ClientReads, ClientHalfCloses, ClientCloses, ClientAborts,
           ResetArrives, ClientVanishes
  <1>7. ClientsTypeOK'
    BY <1>1, <1>2, <1>3, <1>4, <1>5, <1>6 DEF ClientsTypeOK
  <1>8. QueueOK'
    <2>1. \A k \in 1 .. Len(queue) : queue[k] \in Peers
      BY DEF ClientsTypeOK
    <2> QED BY <1>1, <1>2, <2>1 DEF QueueOK
  <1>9. ClientFacts
    BY <1>1, <1>2, <1>4, <1>5 DEF ClientFacts, Readable, Queued
  <1> QED BY <1>7, <1>8, <1>9

LEMMA ClientStepKeeps ==
  ASSUME ClientsTypeOK, QueueOK, NEW p \in Peers, ClientStep(p)
  PROVE  ClientsTypeOK' /\ QueueOK' /\ ClientFacts
  BY ConnectKeeps, SendKeeps, OtherStepsKeep DEF ClientStep

(* recv() with data takes from its own connection only. *)
LEMMA RecvTakesKeeps ==
  ASSUME ClientsTypeOK, QueueOK, NEW p \in Peers, RecvTakes(p)
  PROVE  /\ ClientsTypeOK' /\ QueueOK'
         /\ Received(p) \in Seq(Bytes)
         /\ \A q \in Peers \ {p} : Readable(q) => Readable(q)'
         /\ UNCHANGED <<phase, queue>>
  <1> DEFINE n == IF Len(inq[p]) < MAXLINE THEN Len(inq[p]) ELSE MAXLINE
  <1>1. inq[p] \in Seq(Bytes) /\ Len(inq[p]) \in Nat /\ n \in 0 .. Len(inq[p])
    BY DEF ClientsTypeOK
  <1>2. Received(p) \in Seq(Bytes) /\ Len(Received(p)) \in Nat
    BY <1>1, SubSeqProperties, ElementOfSeq DEF Received
  <1>3. SubSeq(inq[p], Len(Received(p)) + 1, Len(inq[p])) \in Seq(Bytes)
    BY <1>1, <1>2, SubSeqProperties, ElementOfSeq
  <1>4. inq' \in [Peers -> Seq(Bytes)]
    BY <1>3 DEF ClientsTypeOK, RecvTakes
  <1>5. ClientsTypeOK' /\ QueueOK'
    BY <1>4 DEF ClientsTypeOK, QueueOK, RecvTakes
  <1>6. \A q \in Peers \ {p} : Readable(q) => Readable(q)'
    BY DEF ClientsTypeOK, RecvTakes, Readable
  <1> QED BY <1>2, <1>5, <1>6 DEF RecvTakes

LEMMA ErrorReportedKeeps ==
  ASSUME ClientsTypeOK, QueueOK, NEW p \in Peers, ErrorReported(p)
  PROVE  /\ ClientsTypeOK' /\ QueueOK'
         /\ \A q \in Peers : Readable(q)' = Readable(q)
         /\ UNCHANGED <<phase, queue>>
  BY DEF ClientsTypeOK, QueueOK, Errors, ErrorReported, Readable

LEMMA SendTakesKeeps ==
  ASSUME ClientsTypeOK, QueueOK, NEW p \in Peers,
         NEW bytes \in Seq(Bytes), NEW n \in 1 .. Len(bytes), SendTakes(p, bytes, n)
  PROVE  /\ ClientsTypeOK' /\ QueueOK'
         /\ SubSeq(bytes, n + 1, Len(bytes)) \in Seq(Bytes)
         /\ \A q \in Peers : Readable(q)' = Readable(q)
         /\ UNCHANGED <<phase, queue>>
  <1>1. Len(bytes) \in Nat
    OBVIOUS
  <1>2. SubSeq(bytes, 1, n) \in Seq(Bytes) /\ SubSeq(bytes, n + 1, Len(bytes)) \in Seq(Bytes)
    BY <1>1, SubSeqProperties, ElementOfSeq
  <1>3. echoed' \in [Peers -> Seq(Bytes)]
    BY <1>2 DEF ClientsTypeOK, SendTakes
  <1>4. unread' \in [Peers -> 0 .. SendSpace]
    BY <1>1 DEF ClientsTypeOK, SendTakes
  <1>5. ClientsTypeOK' /\ QueueOK'
    BY <1>3, <1>4 DEF ClientsTypeOK, QueueOK, SendTakes
  <1> QED BY <1>2, <1>5 DEF SendTakes, Readable

(* accept() takes the head of the queue, and nobody is in the rest twice. *)
LEMMA AcceptKeeps ==
  ASSUME ClientsTypeOK, QueueOK, queue # <<>>, queue' = Tail(queue),
         UNCHANGED <<phase, nsent, inq, echoed, unread, fin, dead, err>>
  PROVE  /\ ClientsTypeOK' /\ QueueOK'
         /\ Head(queue) \in Peers /\ phase[Head(queue)] # "idle"
         /\ Queued(Head(queue))
         /\ \A q \in Peers : Queued(q)' => Queued(q) /\ q # Head(queue)
         /\ \A q \in Peers : Readable(q)' = Readable(q)
  <1>1. /\ Head(queue) = queue[1] /\ Head(queue) \in Peers
        /\ Tail(queue) \in Seq(Peers)
        /\ Len(Tail(queue)) = Len(queue) - 1 /\ Len(queue) \in Nat /\ Len(queue) > 0
        /\ \A k \in 1 .. Len(Tail(queue)) : Tail(queue)[k] = queue[k + 1]
    BY HeadTailProperties DEF ClientsTypeOK
  <1>2. ClientsTypeOK'
    BY <1>1 DEF ClientsTypeOK
  <1>3. QueueOK'
    BY <1>1 DEF QueueOK
  <1>4. Queued(Head(queue)) /\ phase[Head(queue)] # "idle"
    BY <1>1 DEF QueueOK, Queued
  <1>5. \A q \in Peers : Queued(q)' => Queued(q) /\ q # Head(queue)
    <2>1. \A k \in 1 .. Len(Tail(queue)) : k + 1 \in 1 .. Len(queue) /\ k + 1 # 1 /\ 1 \in 1 .. Len(queue)
      BY <1>1
    <2>2. \A k \in 1 .. Len(Tail(queue)) : Tail(queue)[k] # queue[1]
      BY <1>1, <2>1 DEF QueueOK
    <2> QED BY <1>1, <2>1, <2>2 DEF Queued
  <1> QED BY <1>1, <1>2, <1>3, <1>4, <1>5 DEF Readable

(* Min() of a set of numbers: the parts of S up to each of its elements    *)
(* have one that contains no other, and that belongs to the smallest.       *)
LEMMA MinOfNumbers ==
  ASSUME NEW S \in SUBSET Nat, S # {}
  PROVE  Min(S) \in S /\ \A s \in S : Min(S) <= s
  <1> DEFINE UpTo(n) == S \cap (0 .. n)
             T == {UpTo(n) : n \in S}
  <1>1. T \subseteq FiniteSubsetsOf(Nat)
    <2> SUFFICES ASSUME NEW n \in S PROVE UpTo(n) \in FiniteSubsetsOf(Nat)
      OBVIOUS
    <2>1. IsFiniteSet(0 .. n)
      BY FS_Interval
    <2> QED BY <2>1, FS_Subset DEF FiniteSubsetsOf
  <1>2. T # {}
    OBVIOUS
  <1>3. PICK X \in T : \A Y \in T : ~ (<<Y, X>> \in StrictSubsetOrdering(Nat))
    BY <1>1, <1>2, FS_StrictSubsetOrderingWellFounded, WFMin
  <1>4. PICK n \in S : X = UpTo(n)
    BY <1>3
  <1>5. \A m \in S : n <= m
    <2> SUFFICES ASSUME NEW m \in S, m < n PROVE FALSE
      OBVIOUS
    <2>1. UpTo(m) \in T /\ UpTo(m) \subseteq UpTo(n) /\ n \in UpTo(n) /\ n \notin UpTo(m)
      OBVIOUS
    <2>2. <<UpTo(m), X>> \in StrictSubsetOrdering(Nat)
      BY <1>4, <2>1 DEF StrictSubsetOrdering
    <2> QED BY <1>3, <2>1, <2>2
  <1> QED BY <1>5 DEF Min

----------------------------------------------------------------------------
(* The bytes of each client. *)

(* While the connection is not gone, every byte that the client has sent is *)
(* on its way back, held by the server (h), or not received yet.            *)
Flow(h, p) == ~dead[p] => (echoed[p] \o h) \o inq[p] = SentBytes(p)

(* The end of a stream and an error come from what the client did. *)
EndsOK ==
  \A p \in Peers :
    /\ fin[p] => phase[p] \in {"halfclosed", "closed", "aborted"}
    /\ dead[p] => phase[p] \in {"closed", "aborted"}
    /\ err[p] # "none" => dead[p]

(* Not accepted yet. *)
Waiting(p) == phase[p] = "idle" \/ Queued(p)

LEMMA ConcatAppend ==
  ASSUME NEW S, NEW s \in Seq(S), NEW t \in Seq(S), NEW x \in S
  PROVE  s \o Append(t, x) = Append(s \o t, x)
  <1>1. <<x>> \in Seq(S)
    OBVIOUS
  <1>2. (s \o t) \o <<x>> = s \o (t \o <<x>>)
    BY <1>1, ConcatAssociative
  <1>3. s \o t \in Seq(S)
    BY ConcatProperties
  <1>4. Append(t, x) = t \o <<x>> /\ Append(s \o t, x) = (s \o t) \o <<x>>
    BY <1>3, AppendIsConcat
  <1> QED BY <1>2, <1>4

LEMMA FlowAppend ==
  ASSUME NEW S, NEW e \in Seq(S), NEW h \in Seq(S), NEW t \in Seq(S), NEW x \in S
  PROVE  (e \o h) \o Append(t, x) = Append((e \o h) \o t, x)
  <1>1. e \o h \in Seq(S)
    BY ConcatProperties
  <1> QED BY <1>1, ConcatAppend

LEMMA SentAreBytes ==
  ASSUME ClientsTypeOK, NEW p \in Peers
  PROVE  SentBytes(p) \in Seq(Bytes) /\ Len(SentBytes(p)) = nsent[p]
  <1>1. nsent[p] \in 0 .. MaxBytes
    BY DEF ClientsTypeOK
  <1>2. \A k \in 1 .. nsent[p] : <<p, k>> \in Bytes
    BY <1>1 DEF Bytes
  <1> QED BY <1>1, <1>2 DEF SentBytes

LEMMA InitFlow == ClientsInit => EndsOK /\ \A p \in Peers : Flow(<<>>, p) /\ Waiting(p)
  BY DEF ClientsInit, EndsOK, Flow, SentBytes, Waiting

(* What a client does of which the service speaks. *)
ServiceMove(p) ==
  /\ \A q \in Peers \ {p} : SideOf(q)' = SideOf(q) /\ SentBytes(q)' = SentBytes(q)
  /\ \/ SideOf(p)' = SideOf(p) /\ SentBytes(p)' = SentBytes(p)
     \/ SideOf(p) # "gone" /\ SideOf(p)' \in {"half", "gone"} /\ SentBytes(p)' = SentBytes(p)
     \/ /\ SideOf(p) = "open" /\ SideOf(p)' = "open"
        /\ \E b \in Bytes : SentBytes(p)' = Append(SentBytes(p), b)

ClientFlow(p) ==
  /\ EndsOK'
  /\ \A q \in Peers : \A h \in Seq(Bytes) : Flow(h, q) => Flow(h, q)'
  /\ \A q \in Peers : Waiting(q)' = Waiting(q)
  /\ ServiceMove(p)
  /\ UNCHANGED echoed

LEMMA ConnectFlow ==
  ASSUME ClientsTypeOK, EndsOK, NEW p \in Peers, ClientConnects(p)
  PROVE  ClientFlow(p)
  <1>1. /\ UNCHANGED <<nsent, inq, echoed, unread, fin, dead, err>>
        /\ phase[p] = "idle"
        /\ \A q \in Peers : phase'[q] = IF q = p THEN "connected" ELSE phase[q]
    BY DEF ClientConnects, ClientsTypeOK
  <1>2. /\ Len(queue') = Len(queue) + 1 /\ Len(queue) \in Nat
        /\ \A k \in 1 .. Len(queue) : queue'[k] = queue[k]
        /\ queue'[Len(queue) + 1] = p
    BY DEF ClientsTypeOK, ClientConnects
  <1>3. \A q \in Peers : Waiting(q)' = Waiting(q)
    <2> SUFFICES ASSUME NEW q \in Peers PROVE Waiting(q)' <=> Waiting(q)
      BY DEF Waiting, Queued
    <2>1. CASE q = p
      <3>1. Queued(p)'
        BY <1>2 DEF Queued
      <3> QED BY <1>1, <2>1, <3>1 DEF Waiting
    <2>2. CASE q # p
      <3>1. Queued(q)' <=> Queued(q)
        BY <1>2, <2>2 DEF Queued
      <3> QED BY <1>1, <2>2, <3>1 DEF Waiting
    <2> QED BY <2>1, <2>2
  <1>4. EndsOK'
    BY <1>1 DEF EndsOK
  <1>5. \A q \in Peers : SentBytes(q)' = SentBytes(q) /\ SideOf(q)' = SideOf(q)
    BY <1>1 DEF SentBytes, SideOf
  <1>6. \A q \in Peers : \A h \in Seq(Bytes) : Flow(h, q) => Flow(h, q)'
    BY <1>1, <1>5 DEF Flow
  <1> QED BY <1>1, <1>3, <1>4, <1>5, <1>6 DEF ClientFlow, ServiceMove

LEMMA SendFlow ==
  ASSUME ClientsTypeOK, EndsOK, NEW p \in Peers, ClientSends(p)
  PROVE  ClientFlow(p)
  <1> DEFINE b == <<p, nsent[p] + 1>>
  <1>1. /\ UNCHANGED <<phase, echoed, unread, fin, dead, err, queue>>
        /\ phase[p] = "connected"
        /\ nsent[p] \in Nat /\ nsent[p] + 1 \in 1 .. MaxBytes
        /\ \A q \in Peers : nsent'[q] = IF q = p THEN nsent[p] + 1 ELSE nsent[q]
        /\ \A q \in Peers : inq'[q] = IF q = p THEN Append(inq[p], b) ELSE inq[q]
    BY DEF ClientSends, ClientsTypeOK
  <1>2. b \in Bytes
    BY <1>1 DEF Bytes
  <1>3. SentBytes(p)' = Append(SentBytes(p), b)
    <2>1. SentBytes(p) \in Seq(Bytes) /\ Len(SentBytes(p)) = nsent[p]
      BY SentAreBytes
    <2>2. SentBytes(p)' = [k \in 1 .. nsent[p] + 1 |-> <<p, k>>]
      BY <1>1 DEF SentBytes
    <2>3. Append(SentBytes(p), b) = [k \in 1 .. nsent[p] + 1 |-> IF k = nsent[p] + 1 THEN b ELSE SentBytes(p)[k]]
      BY <1>1, <1>2, <2>1
    <2>4. \A k \in 1 .. nsent[p] + 1 : k # nsent[p] + 1 => SentBytes(p)[k] = <<p, k>>
      BY <1>1 DEF SentBytes
    <2> QED BY <2>2, <2>3, <2>4
  <1>4. \A q \in Peers \ {p} : SentBytes(q)' = SentBytes(q)
    BY <1>1 DEF SentBytes
  <1>5. \A q \in Peers : SideOf(q)' = SideOf(q) /\ Waiting(q)' = Waiting(q)
    BY <1>1 DEF SideOf, Waiting, Queued
  <1>6. \A q \in Peers : \A h \in Seq(Bytes) : Flow(h, q) => Flow(h, q)'
    <2> SUFFICES ASSUME NEW q \in Peers, NEW h \in Seq(Bytes), Flow(h, q), ~dead[q]
                 PROVE  (echoed[q] \o h) \o inq'[q] = SentBytes(q)'
      BY <1>1 DEF Flow
    <2>1. (echoed[q] \o h) \o inq[q] = SentBytes(q)
      BY DEF Flow
    <2>2. CASE q = p
      <3>1. echoed[p] \in Seq(Bytes) /\ inq[p] \in Seq(Bytes) /\ h \in Seq(Bytes)
        BY DEF ClientsTypeOK
      <3>2. \A e, t \in Seq(Bytes) : \A x \in Bytes :
              (e \o h) \o Append(t, x) = Append((e \o h) \o t, x)
        BY <3>1, FlowAppend
      <3>3. (echoed[p] \o h) \o Append(inq[p], b) = Append((echoed[p] \o h) \o inq[p], b)
        BY <1>2, <3>1, <3>2, Zenon
      <3> QED BY <1>1, <1>3, <2>1, <2>2, <3>3
    <2>3. CASE q # p
      BY <1>1, <1>4, <2>1, <2>3
    <2> QED BY <2>2, <2>3
  <1>7. EndsOK'
    BY <1>1 DEF EndsOK
  <1>8. SideOf(p) = "open" /\ SideOf(p)' = "open"
    BY <1>1 DEF SideOf
  <1> HIDE DEF b
  <1> QED BY <1>1, <1>2, <1>3, <1>4, <1>5, <1>6, <1>7, <1>8 DEF ClientFlow, ServiceMove

LEMMA OtherStepsFlow ==
  ASSUME ClientsTypeOK, EndsOK, NEW p \in Peers,
         \/ ClientReads(p) \/ ClientHalfCloses(p) \/ ClientCloses(p)
         \/ ClientAborts(p) \/ ResetArrives(p) \/ ClientVanishes(p)
  PROVE  ClientFlow(p)
  <1>1. UNCHANGED <<nsent, inq, echoed, queue>>
    BY DEF ClientReads, ClientHalfCloses, ClientCloses, ClientAborts, ResetArrives, ClientVanishes
  <1>2. /\ \A q \in Peers \ {p} : phase'[q] = phase[q]
        /\ \/ phase'[p] = phase[p]
           \/ phase[p] = "connected" /\ phase'[p] \in {"halfclosed", "closed", "aborted"}
           \/ phase[p] = "halfclosed" /\ phase'[p] \in {"closed", "aborted"}
    BY DEF ClientsTypeOK, ClientReads, ClientHalfCloses, ClientCloses, ClientAborts,
           ResetArrives, ClientVanishes
  <1>3. EndsOK'
    <2>1. \A q \in Peers \ {p} : fin'[q] = fin[q] /\ dead'[q] = dead[q] /\ err'[q] = err[q]
      BY DEF ClientsTypeOK, ClientReads, ClientHalfCloses, ClientCloses, ClientAborts,
             ResetArrives, ClientVanishes
    <2>2. /\ fin'[p] => phase'[p] \in {"halfclosed", "closed", "aborted"}
          /\ dead'[p] => phase'[p] \in {"closed", "aborted"}
          /\ err'[p] # "none" => dead'[p]
      BY DEF EndsOK, ClientsTypeOK, ClientReads, ClientHalfCloses, ClientCloses, ClientAborts,
             ResetArrives, ClientVanishes
    <2> QED BY <1>2, <2>1, <2>2 DEF EndsOK
  <1>4. \A q \in Peers : dead[q] => dead'[q]
    BY DEF ClientsTypeOK, ClientReads, ClientHalfCloses, ClientCloses, ClientAborts,
           ResetArrives, ClientVanishes
  <1>5. \A q \in Peers : SentBytes(q)' = SentBytes(q)
    BY <1>1 DEF SentBytes
  <1>6. \A q \in Peers : \A h \in Seq(Bytes) : Flow(h, q) => Flow(h, q)'
    BY <1>1, <1>4, <1>5 DEF Flow
  <1>7. \A q \in Peers : Waiting(q)' = Waiting(q)
    <2> SUFFICES ASSUME NEW q \in Peers PROVE Waiting(q)' = Waiting(q)
      OBVIOUS
    <2>1. (phase'[q] = "idle") <=> (phase[q] = "idle")
      BY <1>2
    <2>2. Queued(q)' = Queued(q)
      BY <1>1 DEF Queued
    <2> QED BY <2>1, <2>2 DEF Waiting
  <1>8. ServiceMove(p)
    BY <1>2, <1>5 DEF ServiceMove, SideOf
  <1> QED BY <1>1, <1>3, <1>6, <1>7, <1>8 DEF ClientFlow

LEMMA ClientStepFlow ==
  ASSUME ClientsTypeOK, EndsOK, NEW p \in Peers, ClientStep(p)
  PROVE  ClientFlow(p)
  BY ConnectFlow, SendFlow, OtherStepsFlow DEF ClientStep

(* What the server's steps leave as it was. *)
ServiceSame ==
  /\ EndsOK'
  /\ \A q \in Peers : SideOf(q)' = SideOf(q) /\ SentBytes(q)' = SentBytes(q)

LEMMA TakePart ==
  ASSUME NEW S, NEW t \in Seq(S), NEW n \in 0 .. Len(t)
  PROVE  /\ SubSeq(t, 1, n) \in Seq(S) /\ SubSeq(t, n + 1, Len(t)) \in Seq(S)
         /\ Len(SubSeq(t, 1, n)) = n
         /\ SubSeq(t, 1, n) \o SubSeq(t, n + 1, Len(t)) = t
  <1>1. Len(t) \in Nat /\ 1 \in 1 .. Len(t) + 1 /\ n \in 1 - 1 .. Len(t) /\ Len(t) \in n .. Len(t)
    OBVIOUS
  <1>2. /\ SubSeq(t, 1, n) \in Seq(S) /\ SubSeq(t, n + 1, Len(t)) \in Seq(S)
        /\ Len(SubSeq(t, 1, n)) = n
    BY <1>1, SubSeqProperties, ElementOfSeq
  <1>3. SubSeq(t, 1, n) \o SubSeq(t, n + 1, Len(t)) = SubSeq(t, 1, Len(t))
    BY <1>1, ConcatAdjacentSubSeq, Zenon
  <1>4. SubSeq(t, 1, Len(t)) = t
    BY SubSeqFull
  <1> QED BY <1>2, <1>3, <1>4

LEMMA TakeAfter ==
  ASSUME NEW S, NEW e \in Seq(S), NEW t \in Seq(S), NEW n \in 0 .. Len(t)
  PROVE  (e \o SubSeq(t, 1, n)) \o SubSeq(t, n + 1, Len(t)) = e \o t
  <1>1. PICK a \in Seq(S), b \in Seq(S) :
          a = SubSeq(t, 1, n) /\ b = SubSeq(t, n + 1, Len(t))
    BY TakePart
  <1>2. a \o b = t
    BY <1>1, TakePart
  <1>3. e \in Seq(S) /\ a \in Seq(S) /\ b \in Seq(S)
    BY <1>1
  <1>4. (e \o a) \o b = e \o (a \o b)
    BY <1>3
  <1> QED BY <1>1, <1>2, <1>4

(* What send() takes of the server's bytes is the next part of what was sent. *)
LEMMA MoveBytes ==
  ASSUME NEW e \in Seq(Bytes), NEW h \in Seq(Bytes), NEW t \in Seq(Bytes), NEW n \in 1 .. Len(h)
  PROVE  /\ ((e \o SubSeq(h, 1, n)) \o SubSeq(h, n + 1, Len(h))) \o t = (e \o h) \o t
         /\ Len(e) + n \in Len(e) + 1 .. Len((e \o h) \o t)
         /\ e \o SubSeq(h, 1, n) = SubSeq((e \o h) \o t, 1, Len(e) + n)
  <1>1. n \in 0 .. Len(h) /\ Len(h) \in Nat /\ Len(e) \in Nat /\ Len(t) \in Nat
    OBVIOUS
  <1>2. PICK a \in Seq(Bytes), b \in Seq(Bytes) :
          a = SubSeq(h, 1, n) /\ b = SubSeq(h, n + 1, Len(h)) /\ Len(a) = n
    BY <1>1, TakePart
  <1>3. (e \o a) \o b = e \o h
    BY <1>1, <1>2, TakeAfter
  <1>4. PICK f \in Seq(Bytes), r \in Seq(Bytes) : f = e \o a /\ r = b \o t /\ Len(f) = Len(e) + n
    BY <1>2, ConcatProperties
  <1>5. (f \o b) \o t = f \o r
    <2>1. f \in Seq(Bytes) /\ b \in Seq(Bytes) /\ t \in Seq(Bytes)
      BY <1>2, <1>4
    <2>2. (f \o b) \o t = f \o (b \o t)
      BY <2>1
    <2> QED BY <1>4, <2>2
  <1>6. Len(f \o r) = Len(f) + Len(r) /\ Len(r) \in Nat
    BY ConcatProperties
  <1>7. SubSeq(f \o r, 1, Len(f)) = f
    <2>1. 1 \in 1 .. Len(f) /\ Len(f) \in 1 .. Len(f)
      BY <1>1, <1>4
    <2>2. SubSeq(f \o r, 1, Len(f)) = SubSeq(f, 1, Len(f))
      BY <2>1, SubSeqOfConcat1, Zenon
    <2> QED BY <2>2, SubSeqFull
  <1>8. (e \o h) \o t = f \o r
    BY <1>3, <1>4, <1>5
  <1>9. Len(e) + n \in Len(e) + 1 .. Len(f \o r)
    BY <1>1, <1>4, <1>6
  <1> QED BY <1>2, <1>3, <1>4, <1>7, <1>8, <1>9

LEMMA RecvFlow ==
  ASSUME ClientsTypeOK, EndsOK, NEW p \in Peers, RecvTakes(p)
  PROVE  /\ \A h : h = Received(p) /\ Flow(<<>>, p) => Flow(h, p)'
         /\ \A q \in Peers \ {p} : \A h \in Seq(Bytes) : Flow(h, q) => Flow(h, q)'
         /\ ServiceSame /\ UNCHANGED <<phase, queue, echoed>>
  <1> DEFINE n == IF Len(inq[p]) < MAXLINE THEN Len(inq[p]) ELSE MAXLINE
  <1>1. /\ UNCHANGED <<phase, nsent, echoed, unread, fin, dead, err, queue>>
        /\ \A q \in Peers \ {p} : inq'[q] = inq[q]
    BY DEF RecvTakes, ClientsTypeOK
  <1>2. ServiceSame
    BY <1>1 DEF ServiceSame, EndsOK, SideOf, SentBytes
  <1>3. \A q \in Peers \ {p} : \A h \in Seq(Bytes) : Flow(h, q) => Flow(h, q)'
    BY <1>1 DEF Flow, SentBytes
  <1>4. echoed[p] \in Seq(Bytes) /\ inq[p] \in Seq(Bytes) /\ n \in 0 .. Len(inq[p])
    BY DEF ClientsTypeOK
  <1>5. /\ Received(p) = SubSeq(inq[p], 1, n)
        /\ inq'[p] = SubSeq(inq[p], n + 1, Len(inq[p]))
    <2>1. Received(p) = SubSeq(inq[p], 1, n)
      BY DEF Received
    <2>2. Len(Received(p)) = n
      BY <1>4, <2>1, TakePart
    <2>3. inq'[p] = SubSeq(inq[p], Len(Received(p)) + 1, Len(inq[p]))
      BY DEF RecvTakes, ClientsTypeOK
    <2> QED BY <2>1, <2>2, <2>3
  <1>6. ASSUME Flow(<<>>, p), ~dead[p]
        PROVE  (echoed[p] \o Received(p)) \o inq'[p] = SentBytes(p)
    <2>1. (echoed[p] \o <<>>) \o inq[p] = SentBytes(p) /\ echoed[p] \o <<>> = echoed[p]
      BY <1>4, <1>6, ConcatEmptySeq DEF Flow
    <2>2. (echoed[p] \o SubSeq(inq[p], 1, n)) \o SubSeq(inq[p], n + 1, Len(inq[p]))
            = echoed[p] \o inq[p]
      <3> HIDE DEF n
      <3> QED BY <1>4, TakeAfter
    <2> QED BY <1>5, <2>1, <2>2
  <1>7. \A h : h = Received(p) /\ Flow(<<>>, p) => Flow(h, p)'
    BY <1>1, <1>6 DEF Flow, SentBytes
  <1> QED BY <1>1, <1>2, <1>3, <1>7

LEMMA SendTakesFlow ==
  ASSUME ClientsTypeOK, EndsOK, NEW p \in Peers, ~dead[p],
         NEW bytes \in Seq(Bytes), NEW n \in 1 .. Len(bytes), SendTakes(p, bytes, n),
         Flow(bytes, p)
  PROVE  /\ Flow(SubSeq(bytes, n + 1, Len(bytes)), p)'
         /\ \A q \in Peers \ {p} : \A h \in Seq(Bytes) : Flow(h, q) => Flow(h, q)'
         /\ \E m \in Len(echoed[p]) + 1 .. Len(SentBytes(p)) :
              echoed' = [echoed EXCEPT ![p] = SubSeq(SentBytes(p), 1, m)]
         /\ ServiceSame /\ UNCHANGED <<phase, queue>>
  <1>1. /\ UNCHANGED <<phase, nsent, inq, fin, dead, err, queue>>
        /\ echoed' = [echoed EXCEPT ![p] = echoed[p] \o SubSeq(bytes, 1, n)]
        /\ echoed \in [Peers -> Seq(Bytes)] /\ inq[p] \in Seq(Bytes)
    BY DEF SendTakes, ClientsTypeOK
  <1>2. ServiceSame
    BY <1>1 DEF ServiceSame, EndsOK, SideOf, SentBytes
  <1>3. \A q \in Peers \ {p} : \A h \in Seq(Bytes) : Flow(h, q) => Flow(h, q)'
    BY <1>1 DEF Flow, SentBytes
  <1>4. PICK e \in Seq(Bytes), t \in Seq(Bytes) : e = echoed[p] /\ t = inq[p]
    BY <1>1
  <1>5. /\ ((e \o SubSeq(bytes, 1, n)) \o SubSeq(bytes, n + 1, Len(bytes))) \o t = (e \o bytes) \o t
        /\ Len(e) + n \in Len(e) + 1 .. Len((e \o bytes) \o t)
        /\ e \o SubSeq(bytes, 1, n) = SubSeq((e \o bytes) \o t, 1, Len(e) + n)
    <2>1. \A s, h, u \in Seq(Bytes) : \A k \in 1 .. Len(h) :
            /\ ((s \o SubSeq(h, 1, k)) \o SubSeq(h, k + 1, Len(h))) \o u = (s \o h) \o u
            /\ Len(s) + k \in Len(s) + 1 .. Len((s \o h) \o u)
            /\ s \o SubSeq(h, 1, k) = SubSeq((s \o h) \o u, 1, Len(s) + k)
      BY MoveBytes
    <2>2. e \in Seq(Bytes) /\ t \in Seq(Bytes) /\ bytes \in Seq(Bytes) /\ n \in 1 .. Len(bytes)
      BY <1>4
    <2> QED BY <2>1, <2>2, ZenonT(60)
  <1>6. (e \o bytes) \o t = SentBytes(p)
    BY <1>4 DEF Flow
  <1>7. Flow(SubSeq(bytes, n + 1, Len(bytes)), p)'
    <2>1. echoed'[p] = e \o SubSeq(bytes, 1, n)
      BY <1>1, <1>4
    <2>2. SentBytes(p)' = SentBytes(p) /\ inq'[p] = t
      BY <1>1, <1>4 DEF SentBytes
    <2> QED BY <1>4, <1>5, <1>6, <2>1, <2>2 DEF Flow
  <1>8. \E m \in Len(echoed[p]) + 1 .. Len(SentBytes(p)) :
          echoed' = [echoed EXCEPT ![p] = SubSeq(SentBytes(p), 1, m)]
    <2>1. Len(e) + n \in Len(e) + 1 .. Len((e \o bytes) \o t)
          /\ e \o SubSeq(bytes, 1, n) = SubSeq((e \o bytes) \o t, 1, Len(e) + n)
      BY <1>4, <1>5
    <2> QED BY <1>1, <1>4, <1>6, <2>1
  <1> QED BY <1>1, <1>2, <1>3, <1>7, <1>8

LEMMA ErrorFlow ==
  ASSUME ClientsTypeOK, EndsOK, NEW p \in Peers, ErrorReported(p)
  PROVE  /\ \A q \in Peers : \A h \in Seq(Bytes) : Flow(h, q) => Flow(h, q)'
         /\ ServiceSame /\ UNCHANGED <<phase, queue, echoed>>
  <1>1. /\ UNCHANGED <<phase, nsent, inq, echoed, unread, fin, dead, queue>>
        /\ \A q \in Peers : err'[q] = IF q = p THEN "none" ELSE err[q]
    BY DEF ErrorReported, ClientsTypeOK
  <1> QED BY <1>1 DEF ServiceSame, EndsOK, SideOf, SentBytes, Flow

LEMMA QuietFlow ==
  ASSUME EndsOK, UNCHANGED <<phase, nsent, inq, echoed, unread, fin, dead, err>>
  PROVE  /\ \A q \in Peers : \A h \in Seq(Bytes) : Flow(h, q) => Flow(h, q)'
         /\ ServiceSame
  BY DEF ServiceSame, EndsOK, SideOf, SentBytes, Flow

(* accept() ends the wait of one client. *)
LEMMA AcceptEndsWait ==
  ASSUME ClientsTypeOK, QueueOK, queue # <<>>, queue' = Tail(queue), UNCHANGED phase,
         NEW p, p = Head(queue)
  PROVE  /\ p \in Peers /\ Waiting(p) /\ ~Waiting(p)'
         /\ \A q \in Peers \ {p} : Waiting(q)' = Waiting(q)
  <1>1. /\ p = queue[1] /\ p \in Peers
        /\ Len(Tail(queue)) = Len(queue) - 1 /\ Len(queue) \in Nat /\ Len(queue) > 0
        /\ \A k \in 1 .. Len(Tail(queue)) : Tail(queue)[k] = queue[k + 1]
    BY HeadTailProperties DEF ClientsTypeOK
  <1>2. Waiting(p) /\ phase'[p] # "idle"
    BY <1>1 DEF QueueOK, Queued, Waiting
  <1>3. ~Queued(p)'
    <2>1. \A k \in 1 .. Len(Tail(queue)) : k + 1 \in 1 .. Len(queue) /\ k + 1 # 1 /\ 1 \in 1 .. Len(queue)
      BY <1>1
    <2>2. \A k \in 1 .. Len(Tail(queue)) : Tail(queue)[k] # queue[1]
      BY <1>1, <2>1 DEF QueueOK
    <2> SUFFICES ASSUME NEW k \in 1 .. Len(Tail(queue)), Tail(queue)[k] = p PROVE FALSE
      BY <1>1 DEF Queued
    <2> QED BY <1>1, <2>2
  <1>4. ASSUME NEW q \in Peers \ {p} PROVE Waiting(q)' = Waiting(q)
    <2>1. Queued(q)' => Queued(q)
      BY <1>1 DEF Queued
    <2>2. ASSUME Queued(q) PROVE Queued(q)'
      <3>1. PICK k \in 1 .. Len(queue) : queue[k] = q
        BY <2>2 DEF Queued
      <3>2. k # 1 /\ k - 1 \in 1 .. Len(Tail(queue)) /\ (k - 1) + 1 = k
        BY <1>1, <3>1
      <3>3. Tail(queue)[k - 1] = q
        BY <1>1, <3>1, <3>2
      <3> QED BY <3>2, <3>3 DEF Queued
    <2>3. Queued(q)' = Queued(q)
      <3>1. Queued(q) \in BOOLEAN /\ Queued(q)' \in BOOLEAN
        BY DEF Queued
      <3> QED BY <2>1, <2>2, <3>1
    <2> QED BY <2>3 DEF Waiting
  <1> QED BY <1>1, <1>2, <1>3, <1>4 DEF Waiting

(* A connection whose recv() has reported its end has been ended by the    *)
(* client, and one that is only half closed has got everything back.       *)
LEMMA EndReported ==
  ASSUME ClientsTypeOK, EndsOK, NEW p \in Peers, Flow(<<>>, p),
         RecvResult(p) \in {"eof", "ECONNRESET", "ETIMEDOUT"}
  PROVE  SideOf(p) # "open" /\ (SideOf(p) = "half" => echoed[p] = SentBytes(p))
  <1>1. inq[p] = <<>> /\ (fin[p] \/ dead[p])
    BY DEF RecvResult, EndsOK
  <1>2. echoed[p] \in Seq(Bytes) /\ (echoed[p] \o <<>>) \o <<>> = echoed[p]
    BY DEF ClientsTypeOK
  <1>3. ~dead[p] => echoed[p] = SentBytes(p)
    BY <1>1, <1>2 DEF Flow
  <1>4. phase[p] \in {"halfclosed", "closed", "aborted"} /\ (dead[p] => phase[p] # "halfclosed")
    BY <1>1 DEF EndsOK
  <1> QED BY <1>3, <1>4 DEF SideOf

=============================================================================
