---------------------------- MODULE StrCli_proofs ----------------------------
(***************************************************************************)
(* The versions of str_cli(), proved for every input, any size of the      *)
(* lines and of the connection, and whatever the server does: nothing is   *)
(* lost or reordered, a client without select() waits for one line at a    *)
(* time, and one that ends well has printed every answer.                  *)
(***************************************************************************)
EXTENDS StrCli, SequenceTheorems, FiniteSetTheorems, TLAPS

(* s holds the bytes behind byte a, in order. *)
IsRun(s, a) == \A k \in 1 .. Len(s) : s[k] = a + k

(* Where what a buffer holds starts, seen from the start of the input. *)
Told == Len(printed)
Stored == Told + Len(recvline)
Buffered == Stored + Len(recvBuf)
Echoed == Buffered + Len(toClient)
Sent == Echoed + Len(toServer)
Taken == Sent + Len(line)
Filled == Taken + Len(stdio)
Read == Filled + Len(pipe)

NL(q) == q > Len(input) \/ input[q] = "nl"

Sizes ==
  /\ version # "sample" => Len(recvline) <= MAXLINE - 2
  /\ closed => typed = Len(input)
  /\ pc = "select" => version = "select"

Answer == recvline \o <<0>>

(* What has come back is the start of the input, and behind it, once the   *)
(* sample's stream has ended, the same cut answer over and over.           *)
ToldFrom(k) ==
  /\ \A j \in 1 .. k : printed[j] = j
  /\ IsRun(recvline, k)
  /\ k = Told => IsRun(recvBuf, Stored) /\ IsRun(toClient, Buffered)
  /\ k < Told =>
       /\ version = "sample" /\ server # "up"
       /\ k + Len(Answer) <= Told
       /\ \A j \in (k + 1) .. Told :
            printed[j] = IF j <= k + Len(Answer) THEN Answer[j - k] ELSE printed[j - Len(Answer)]
       /\ \A i \in 1 .. Len(Answer) : printed[Told - Len(Answer) + i] = Answer[i]

Back == \E k \in 0 .. Told : ToldFrom(k)

(* The newline the sample has added. *)
Extra == version = "sample" /\ ~Terminated /\ closed /\ stdio = <<>> /\ pipe = <<>>

(* While the server runs the rest follows. *)
Forth ==
  server = "up" =>
    /\ IsRun(toServer, Echoed) /\ IsRun(line, Sent) /\ IsRun(stdio, Taken) /\ IsRun(pipe, Filled)
    /\ Read = typed \/ (Read = typed + 1 /\ Extra)
    /\ version = "sample" /\ ~Terminated /\ Read = Len(input) => stdio # <<>> \/ pipe # <<>>
    /\ pc \in {"select", "fgets", "send"} => recvline = <<>>
    /\ pc # "send" => line = <<>>

(* What a client without select() waits for is the one line it has sent. *)
OneLine ==
  version # "select" /\ server = "up" =>
    /\ pc = "fgets" => Taken = Told
    /\ pc \in {"send", "recv"} =>
         /\ \A q \in (Told + 1) .. (Taken - 1) : ~NL(q)
         /\ Taken - Told <= Limit - 1

Finished ==
  server = "up" =>
    /\ pc = "done" => closed /\ Read = Taken /\ (version # "select" => Taken = Told)
    /\ dialogue /\ closed => Told >= typed

IInv == TypeOK /\ Sizes /\ Back /\ Forth /\ OneLine /\ Finished

----------------------------------------------------------------------------
(* The constants and the types. *)

LEMMA Constants == MAXLINE \in Nat /\ MAXLINE > 1 /\ Space \in Nat /\ Space >= MAXLINE
  BY LineAssumption

LEMMA InputIs ==
  ASSUME TypeOK PROVE input \in Seq({"x", "nl"}) /\ Len(input) \in Nat /\ typed \in 0 .. Len(input)
  BY LineAssumption DEF TypeOK, LinesTypeOK

LEMMA Buffers ==
  ASSUME TypeOK
  PROVE  /\ pipe \in Seq(Positions) /\ stdio \in Seq(Positions) /\ line \in Seq(Positions)
         /\ toServer \in Seq(Positions) /\ toClient \in Seq(Positions)
         /\ recvBuf \in Seq(Positions) /\ recvline \in Seq(Positions)
         /\ printed \in Seq(Positions \cup {0})
         /\ Len(pipe) \in Nat /\ Len(stdio) \in Nat /\ Len(line) \in Nat /\ Len(toServer) \in Nat
         /\ Len(toClient) \in Nat /\ Len(recvBuf) \in Nat /\ Len(recvline) \in Nat /\ Len(printed) \in Nat
         /\ Len(toServer) <= Space /\ Len(toClient) <= Space /\ Len(recvBuf) <= MAXLINE
  <1>1. /\ pipe \in Seq(Positions) /\ stdio \in Seq(Positions) /\ line \in Seq(Positions)
        /\ toServer \in Seq(Positions) /\ toClient \in Seq(Positions)
        /\ recvBuf \in Seq(Positions) /\ recvline \in Seq(Positions)
        /\ printed \in Seq(Positions \cup {0})
    BY DEF TypeOK, LinesTypeOK
  <1>2. Len(toServer) <= Space /\ Len(toClient) <= Space /\ Len(recvBuf) <= MAXLINE
    BY DEF TypeOK, LinesTypeOK
  <1> QED BY <1>1, <1>2

LEMMA Offsets ==
  ASSUME TypeOK
  PROVE  /\ Told \in Nat /\ Stored \in Nat /\ Buffered \in Nat /\ Echoed \in Nat
         /\ Sent \in Nat /\ Taken \in Nat /\ Filled \in Nat /\ Read \in Nat
         /\ Told <= Stored /\ Stored <= Buffered /\ Buffered <= Echoed /\ Echoed <= Sent
         /\ Sent <= Taken /\ Taken <= Filled /\ Filled <= Read
  BY Buffers DEF Told, Stored, Buffered, Echoed, Sent, Taken, Filled, Read

----------------------------------------------------------------------------
(* Sequences of consecutive bytes. *)

LEMMA CatRun ==
  ASSUME NEW S, NEW s \in Seq(S), NEW t \in Seq(S), NEW a \in Int, IsRun(s, a), IsRun(t, a + Len(s))
  PROVE  IsRun(s \o t, a) /\ s \o t \in Seq(S) /\ Len(s \o t) = Len(s) + Len(t)
  BY DEF IsRun

LEMMA Cat ==
  ASSUME NEW S, NEW s \in Seq(S), NEW t \in Seq(S)
  PROVE  /\ s \o t \in Seq(S) /\ Len(s \o t) = Len(s) + Len(t)
         /\ \A j \in 1 .. Len(s) : (s \o t)[j] = s[j]
         /\ \A j \in 1 .. Len(t) : (s \o t)[Len(s) + j] = t[j]
  OBVIOUS

(* The same for the start of the input. *)
LEMMA Grow ==
  ASSUME NEW S, NEW s \in Seq(S), NEW t \in Seq(S), NEW a \in Int,
         Len(s) = a, IsRun(s, 0), IsRun(t, a)
  PROVE  IsRun(s \o t, 0) /\ s \o t \in Seq(S) /\ Len(s \o t) = a + Len(t)
  BY CatRun

LEMMA PartRun ==
  ASSUME NEW S, NEW s \in Seq(S), NEW a \in Int, IsRun(s, a), NEW n \in 0 .. Len(s)
  PROVE  /\ IsRun(SubSeq(s, 1, n), a)
         /\ IsRun(From(s, n + 1), a + n)
  BY DEF IsRun, From

LEMMA Parts ==
  ASSUME NEW S, NEW s \in Seq(S), NEW n \in 0 .. Len(s)
  PROVE  /\ SubSeq(s, 1, n) \in Seq(S) /\ Len(SubSeq(s, 1, n)) = n
         /\ From(s, n + 1) \in Seq(S) /\ Len(From(s, n + 1)) = Len(s) - n
         /\ \A k \in 1 .. n : SubSeq(s, 1, n)[k] = s[k]
  BY DEF From

LEMMA BytesAre ==
  ASSUME NEW from \in Nat, NEW to \in Nat, 0 < from, from <= to + 1
  PROVE  /\ Bytes(from, to) \in Seq(from .. to)
         /\ Len(Bytes(from, to)) = to - from + 1
         /\ IsRun(Bytes(from, to), from - 1)
  <1>1. to - from + 1 \in Nat
    OBVIOUS
  <1>2. \A k \in 1 .. (to - from + 1) : from + k - 1 \in from .. to
    OBVIOUS
  <1>3. Bytes(from, to) \in Seq(from .. to) /\ Len(Bytes(from, to)) = to - from + 1
    BY <1>1, <1>2 DEF Bytes
  <1>4. \A k \in 1 .. (to - from + 1) : Bytes(from, to)[k] = (from - 1) + k
    BY DEF Bytes
  <1> QED BY <1>3, <1>4 DEF IsRun

(* A run from the start of the input is what Bytes() says. *)
LEMMA RunIsBytes ==
  ASSUME NEW S, NEW s \in Seq(S), IsRun(s, 0)
  PROVE  s = Bytes(1, Len(s))
  <1>1. Bytes(1, Len(s)) = [k \in 1 .. Len(s) |-> k]
    BY DEF Bytes
  <1>2. s = [k \in 1 .. Len(s) |-> s[k]]
    OBVIOUS
  <1> QED BY <1>1, <1>2 DEF IsRun

----------------------------------------------------------------------------
(* Where a line ends. *)

LEMMA Smallest ==
  ASSUME NEW S \in SUBSET Nat, S # {}
  PROVE  \E n \in S : \A m \in S : n <= m
  <1> DEFINE UpTo(n) == S \cap (0 .. n)
             T == {UpTo(n) : n \in S}
  <1>1. T \subseteq FiniteSubsetsOf(Nat)
    <2> SUFFICES ASSUME NEW n \in S PROVE UpTo(n) \in FiniteSubsetsOf(Nat)
      OBVIOUS
    <2>1. IsFiniteSet(0 .. n)
      BY FS_Interval
    <2> QED BY <2>1, FS_Subset DEF FiniteSubsetsOf
  <1>a. T # {}
    OBVIOUS
  <1>2. PICK X \in T : \A Y \in T : ~ (<<Y, X>> \in StrictSubsetOrdering(Nat))
    BY <1>1, <1>a, FS_StrictSubsetOrderingWellFounded, WFMin
  <1>3. PICK n \in S : X = UpTo(n)
    OBVIOUS
  <1>4. SUFFICES ASSUME NEW m \in S, m < n PROVE FALSE
    OBVIOUS
  <1>5. UpTo(m) \in T /\ UpTo(m) \subseteq UpTo(n) /\ n \in UpTo(n) /\ n \notin UpTo(m)
    BY <1>4
  <1>6. <<UpTo(m), X>> \in StrictSubsetOrdering(Nat)
    BY <1>3, <1>5 DEF StrictSubsetOrdering
  <1> QED BY <1>2, <1>5, <1>6

(* The first newline of s, or what fits into size - 1 bytes. *)
LEMMA LineLenIs ==
  ASSUME NEW S, NEW s \in Seq(S), NEW size \in Int
  PROVE  /\ LineLen(s, size) \in 0 .. Len(s)
         /\ LineEnds(s, size) = {} =>
              /\ LineLen(s, size) = Len(s)
              /\ size - 1 \notin 1 .. Len(s)
              /\ \A k \in 1 .. Len(s) : ~NL(s[k])
         /\ LineEnds(s, size) # {} =>
              /\ LineLen(s, size) \in 1 .. Len(s)
              /\ NL(s[LineLen(s, size)]) \/ LineLen(s, size) = size - 1
              /\ size - 1 \in 1 .. Len(s) => LineLen(s, size) <= size - 1
         /\ \A k \in 1 .. Len(s) : k < LineLen(s, size) => ~NL(s[k])
  <1>1. LineEnds(s, size) = {k \in 1 .. Len(s) : NL(s[k]) \/ k = size - 1}
    BY DEF LineEnds, Newlines, NL
  <1>2. CASE LineEnds(s, size) = {}
    <2>1. LineLen(s, size) = Len(s)
      BY <1>2 DEF LineLen
    <2>2. \A k \in 1 .. Len(s) : ~NL(s[k]) /\ k # size - 1
      BY <1>1, <1>2
    <2> QED BY <1>2, <2>1, <2>2
  <1>3. CASE LineEnds(s, size) # {}
    <2> DEFINE E == LineEnds(s, size)
    <2>1. E \in SUBSET Nat
      BY <1>1
    <2>2. \E n \in E : \A m \in E : n <= m
      BY <1>3, <2>1, Smallest
    <2>3. LineLen(s, size) = CHOOSE n \in E : \A m \in E : n <= m
      BY <1>3 DEF LineLen
    <2>4. LineLen(s, size) \in E /\ \A m \in E : LineLen(s, size) <= m
      BY <2>2, <2>3
    <2> QED BY <1>1, <1>3, <2>4
  <1> QED BY <1>2, <1>3

----------------------------------------------------------------------------
(* What IInv says while the server runs, and of a client whose stream has  *)
(* not ended.                                                              *)

Straight ==
  /\ IsRun(printed, 0) /\ IsRun(recvline, Told)
  /\ IsRun(recvBuf, Stored) /\ IsRun(toClient, Buffered)

LEMMA StreamStraight ==
  ASSUME TypeOK, Back, ~StreamEnded PROVE Straight
  <1>1. PICK k \in 0 .. Told : ToldFrom(k)
    BY DEF Back
  <1>2. CASE k = Told
    BY <1>1, <1>2 DEF ToldFrom, IsRun, Told, Straight
  <1>3. CASE k # Told
    <2>1. k < Told /\ k + Len(Answer) <= Told
      BY <1>1, <1>3, Offsets DEF ToldFrom
    <2>2. recvline \in Seq(Positions) /\ Len(recvline) \in Nat
      BY Buffers
    <2>3. Len(Answer) = Len(recvline) + 1 /\ Answer[Len(Answer)] = 0
      BY <2>2 DEF Answer
    <2>4. printed[Told - Len(Answer) + Len(Answer)] = Answer[Len(Answer)]
      BY <1>1, <2>1, <2>2, <2>3 DEF ToldFrom
    <2>5. Told \in DOMAIN printed /\ printed[Told] = 0
      BY <2>1, <2>2, <2>3, <2>4, Buffers, Offsets DEF Told
    <2> QED BY <2>5 DEF StreamEnded
  <1> QED BY <1>2, <1>3

LEMMA UpStraight ==
  ASSUME TypeOK, Back, server = "up" PROVE Straight
  <1>1. PICK k \in 0 .. Told : ToldFrom(k)
    BY DEF Back
  <1>2. k = Told
    BY <1>1, Offsets DEF ToldFrom
  <1> QED BY <1>1, <1>2 DEF ToldFrom, IsRun, Told, Straight

LEMMA StraightIsBack ==
  ASSUME TypeOK', Straight'
  PROVE  Back'
  <1>1. Len(printed') \in Nat
    BY DEF TypeOK, LinesTypeOK
  <1>2. PICK k \in Nat : k = Told'
    BY <1>1 DEF Told
  <1>3. k \in 0 .. Told' /\ ToldFrom(k)'
    BY <1>2 DEF ToldFrom, IsRun, Told, Straight
  <1> QED BY <1>3 DEF Back

(* Steps that do not touch what has come back. *)
LEMMA BackKeeps ==
  ASSUME Back, server' = server \/ server' # "up",
         UNCHANGED <<version, printed, recvline, recvBuf, toClient>>
  PROVE  Back'
  <1>1. PICK k \in 0 .. Told : ToldFrom(k)
    BY DEF Back
  <1>2. Told' = Told /\ Stored' = Stored /\ Buffered' = Buffered /\ Answer' = Answer
    BY DEF Told, Stored, Buffered, Answer
  <1>3. ToldFrom(k)'
    BY <1>1, <1>2 DEF ToldFrom, IsRun
  <1> QED BY <1>1, <1>2, <1>3 DEF Back

----------------------------------------------------------------------------
(* The steps of the user and the server. *)

LEMMA UserTypesKeeps ==
  ASSUME IInv, UserTypes, UNCHANGED rset PROVE IInv'
  <1> DEFINE B == Bytes(typed + 1, typed')
  <1>1. TypeOK /\ Sizes /\ Back /\ Forth /\ OneLine /\ Finished
    BY DEF IInv
  <1>2. /\ UNCHANGED <<version, input, dialogue, closed, stdio, line, toServer, toClient, server>>
        /\ UNCHANGED <<recvBuf, recvline, printed, pc>>
        /\ pipe' = pipe \o B /\ typed < Len(input)
    BY DEF UserTypes, rigid, netVars
  <1>0. /\ Len(input) \in Nat /\ typed \in Nat /\ typed < Len(input)
        /\ Read \in Nat /\ Filled \in Nat /\ Len(pipe) \in Nat
    BY <1>1, <1>2, InputIs, Buffers, Offsets
  <1>s. pipe \in Seq(Positions)
    BY <1>1, Buffers
  <1>3. typed' \in (typed + 1) .. Len(input)
    <2> DEFINE R == Bytes(typed + 1, Len(input))
    <2>0. typed + 1 \in Nat /\ 0 < typed + 1 /\ typed + 1 <= Len(input) + 1
      BY <1>0
    <2>1. R \in Seq((typed + 1) .. Len(input)) /\ Len(R) = Len(input) - typed
      <3>1. /\ R \in Seq((typed + 1) .. Len(input)) /\ Len(R) = Len(input) - (typed + 1) + 1
        BY <1>0, <2>0, BytesAre
      <3> QED BY <1>0, <3>1
    <2> HIDE DEF R
    <2>2. LineLen(R, Len(input) + 1) \in 1 .. Len(R)
      <3>1. Len(R) \in Nat /\ Len(R) > 0
        BY <1>0, <2>1
      <3>a. Len(input) + 1 \in Int
        BY <1>0
      <3>2. LineLen(R, Len(input) + 1) = Len(R) \/ LineLen(R, Len(input) + 1) \in 1 .. Len(R)
        BY <2>1, <3>a, LineLenIs
      <3> QED BY <3>1, <3>2
    <2>3. CASE dialogue
      <3>1. typed' = typed + LineLen(R, Len(input) + 1)
        BY <2>3 DEF UserTypes, R
      <3> QED BY <1>0, <2>1, <2>2, <3>1
    <2>4. CASE ~dialogue
      BY <2>4 DEF UserTypes
    <2> QED BY <2>3, <2>4
  <1>n. PICK t \in Nat : typed' = t /\ typed < t /\ t <= Len(input)
    BY <1>0, <1>3
  <1>4. /\ B \in Seq((typed + 1) .. t) /\ Len(B) = t - typed /\ Len(B) \in Nat
        /\ IsRun(B, typed)
    <2>1. typed + 1 \in Nat /\ 0 < typed + 1 /\ typed + 1 <= t + 1
      BY <1>0, <1>n
    <2>2. /\ Bytes(typed + 1, t) \in Seq((typed + 1) .. t)
          /\ Len(Bytes(typed + 1, t)) = t - (typed + 1) + 1
          /\ IsRun(Bytes(typed + 1, t), (typed + 1) - 1)
      BY <2>1, BytesAre
    <2>3. B = Bytes(typed + 1, t)
      BY <1>n
    <2>4. t - (typed + 1) + 1 = t - typed /\ (typed + 1) - 1 = typed /\ t - typed \in Nat
      BY <1>0, <1>n
    <2> QED BY <2>2, <2>3, <2>4
  <1> HIDE DEF B
  <1>5. B \in Seq(Positions)
    BY <1>0, <1>n, <1>4 DEF Positions
  <1>6. pipe' \in Seq(Positions) /\ Len(pipe') = Len(pipe) + Len(B)
    BY <1>1, <1>2, <1>5, Buffers
  <1>7. TypeOK'
    BY <1>1, <1>2, <1>0, <1>n, <1>6 DEF TypeOK, LinesTypeOK, Positions
  <1>8. ~closed
    BY <1>1, <1>0 DEF Sizes
  <1>9. Sizes'
    BY <1>1, <1>2, <1>8 DEF Sizes
  <1>10. Back'
    BY <1>1, <1>2, BackKeeps
  <1>11. /\ Told' = Told /\ Stored' = Stored /\ Buffered' = Buffered /\ Echoed' = Echoed
         /\ Sent' = Sent /\ Taken' = Taken /\ Filled' = Filled /\ Read' = Read + Len(B)
    <2>1. Read' = Filled' + Len(pipe')
      BY DEF Read
    <2>2. /\ Told' = Told /\ Stored' = Stored /\ Buffered' = Buffered /\ Echoed' = Echoed
          /\ Sent' = Sent /\ Taken' = Taken /\ Filled' = Filled
      BY <1>2 DEF Told, Stored, Buffered, Echoed, Sent, Taken, Filled
    <2>3. Read = Filled + Len(pipe)
      BY DEF Read
    <2> QED BY <1>0, <1>4, <1>6, <2>1, <2>2, <2>3
  <1>12. Forth'
    <2> SUFFICES ASSUME server = "up" PROVE Forth'
      BY <1>2 DEF Forth
    <2>1. Read = typed
      BY <1>1, <1>8 DEF Forth, Extra
    <2>2. Read' = typed'
      BY <1>0, <1>n, <1>4, <1>11, <2>1
    <2>3. IsRun(pipe', Filled')
      <3>1. IsRun(pipe, Filled) /\ Filled + Len(pipe) = typed
        BY <1>1, <2>1 DEF Forth, Read
      <3>2. IsRun(pipe \o B, Filled)
        BY <1>0, <1>s, <1>4, <1>5, <3>1, CatRun
      <3> QED BY <1>2, <1>11, <3>2
    <2>4. pipe' # <<>>
      <3>1. Len(pipe') > 0
        BY <1>0, <1>n, <1>4, <1>6
      <3> QED BY <3>1
    <2> QED BY <1>1, <1>2, <1>11, <2>2, <2>3, <2>4 DEF Forth, IsRun
  <1>13. OneLine'
    BY <1>1, <1>2, <1>11 DEF OneLine, NL, Limit
  <1>14. Finished'
    BY <1>1, <1>2, <1>8 DEF Finished
  <1> QED BY <1>7, <1>9, <1>10, <1>12, <1>13, <1>14 DEF IInv

LEMMA UserClosesKeeps ==
  ASSUME IInv, UserCloses, UNCHANGED rset PROVE IInv'
  <1>1. TypeOK /\ Sizes /\ Back /\ Forth /\ OneLine /\ Finished
    BY DEF IInv
  <1>2. /\ UNCHANGED <<version, input, dialogue, pipe, typed, stdio, line, toServer, toClient, server>>
        /\ UNCHANGED <<recvBuf, recvline, printed, pc>>
        /\ closed' = TRUE /\ ~closed /\ typed = Len(input)
    BY DEF UserCloses, rigid, netVars
  <1>3. TypeOK'
    BY <1>1, <1>2 DEF TypeOK, LinesTypeOK, Positions
  <1>4. Sizes'
    BY <1>1, <1>2 DEF Sizes
  <1>5. Back'
    BY <1>1, <1>2, BackKeeps
  <1>6. /\ Told' = Told /\ Stored' = Stored /\ Buffered' = Buffered /\ Echoed' = Echoed
        /\ Sent' = Sent /\ Taken' = Taken /\ Filled' = Filled /\ Read' = Read
    BY <1>2 DEF Told, Stored, Buffered, Echoed, Sent, Taken, Filled, Read
  <1>7. Forth'
    BY <1>1, <1>2, <1>6 DEF Forth, Extra, IsRun, Terminated
  <1>8. OneLine'
    BY <1>1, <1>2, <1>6 DEF OneLine, NL, Limit
  <1>9. Finished'
    <2>1. server = "up" /\ dialogue => Told >= typed
      BY DEF UserCloses, Answered, Told
    <2> QED BY <1>1, <1>2, <1>6, <2>1 DEF Finished
  <1> QED BY <1>3, <1>4, <1>5, <1>7, <1>8, <1>9 DEF IInv

LEMMA ServerEchoesKeeps ==
  ASSUME IInv, ServerEchoes, UNCHANGED rset PROVE IInv'
  <1>1. TypeOK /\ Sizes /\ Back /\ Forth /\ OneLine /\ Finished
    BY DEF IInv
  <1>2. /\ UNCHANGED <<version, input, dialogue, pipe, typed, closed, stdio, line, server>>
        /\ UNCHANGED <<recvBuf, recvline, printed, pc>>
        /\ server = "up"
    BY DEF ServerEchoes, userVars, rigid
  <1>3. PICK n \in 1 .. Len(toServer) :
          /\ Len(toClient) + n <= Space
          /\ toClient' = toClient \o SubSeq(toServer, 1, n)
          /\ toServer' = From(toServer, n + 1)
    BY DEF ServerEchoes
  <1>0. /\ Echoed \in Nat /\ Buffered \in Nat /\ Sent \in Nat
        /\ Len(toServer) \in Nat /\ Len(toClient) \in Nat
    BY <1>1, Buffers, Offsets
  <1>s. toServer \in Seq(Positions) /\ toClient \in Seq(Positions)
    BY <1>1, Buffers
  <1> DEFINE E == SubSeq(toServer, 1, n)
  <1>4. /\ E \in Seq(Positions) /\ Len(E) = n
        /\ toServer' \in Seq(Positions) /\ Len(toServer') = Len(toServer) - n
    <2>1. n \in 0 .. Len(toServer)
      BY <1>0
    <2> QED BY <1>s, <1>3, <2>1, Parts
  <1>5. toClient' \in Seq(Positions) /\ Len(toClient') = Len(toClient) + n
    BY <1>s, <1>3, <1>4
  <1> HIDE DEF E
  <1>6. TypeOK'
    <2>0. Len(toServer) <= Space /\ Space \in Nat
      BY <1>1, Buffers, Constants
    <2>1. Len(toServer') <= Space /\ Len(toClient') <= Space
      BY <1>0, <1>3, <1>4, <1>5, <2>0
    <2> QED BY <1>1, <1>2, <1>4, <1>5, <2>1 DEF TypeOK, LinesTypeOK, Positions
  <1>7. /\ Told' = Told /\ Stored' = Stored /\ Buffered' = Buffered /\ Echoed' = Echoed + n
        /\ Sent' = Sent /\ Taken' = Taken /\ Filled' = Filled /\ Read' = Read
    <2>1. Told' = Told /\ Stored' = Stored /\ Buffered' = Buffered
      BY <1>2 DEF Told, Stored, Buffered
    <2>2. Echoed' = Echoed + n
      <3>1. Echoed' = Buffered' + Len(toClient') /\ Echoed = Buffered + Len(toClient)
        BY DEF Echoed
      <3> QED BY <1>0, <1>5, <2>1, <3>1
    <2>3. Sent' = Sent
      <3>1. Sent' = Echoed' + Len(toServer') /\ Sent = Echoed + Len(toServer)
        BY DEF Sent
      <3> QED BY <1>0, <1>4, <2>2, <3>1
    <2> QED BY <1>2, <2>1, <2>2, <2>3 DEF Taken, Filled, Read
  <1>8. Straight
    BY <1>1, <1>2, UpStraight
  <1>9. IsRun(E, Echoed) /\ IsRun(toServer', Echoed')
    <2>1. IsRun(toServer, Echoed) /\ n \in 0 .. Len(toServer)
      BY <1>0, <1>1, <1>2 DEF Forth
    <2>2. IsRun(E, Echoed) /\ IsRun(From(toServer, n + 1), Echoed + n)
      BY <1>0, <1>s, <2>1, PartRun DEF E
    <2> QED BY <1>3, <1>7, <2>2
  <1>10. IsRun(toClient', Buffered')
    <2>1. IsRun(toClient, Buffered) /\ Buffered + Len(toClient) = Echoed
      BY <1>8 DEF Straight, Echoed
    <2>2. IsRun(toClient \o E, Buffered)
      BY <1>0, <1>s, <1>4, <1>9, <2>1, CatRun
    <2> QED BY <1>3, <1>7, <2>2 DEF E
  <1>11. Back'
    BY <1>2, <1>6, <1>7, <1>8, <1>10, StraightIsBack DEF Straight, IsRun
  <1>12. Sizes'
    BY <1>1, <1>2 DEF Sizes
  <1>13. Forth'
    BY <1>1, <1>2, <1>7, <1>9 DEF Forth, Extra, IsRun, Terminated
  <1>14. OneLine'
    BY <1>1, <1>2, <1>7 DEF OneLine, NL, Limit
  <1>15. Finished'
    BY <1>1, <1>2, <1>7 DEF Finished
  <1> QED BY <1>6, <1>11, <1>12, <1>13, <1>14, <1>15 DEF IInv

(* Once the server has ended only the types and what has come back count.  *)
LEMMA ServerGoneKeeps ==
  ASSUME IInv, ServerEnds \/ ResetArrives, UNCHANGED rset PROVE IInv'
  <1>1. TypeOK /\ Sizes /\ Back
    BY DEF IInv
  <1>2. /\ UNCHANGED <<version, input, dialogue, pipe, typed, closed, stdio, line, toClient>>
        /\ UNCHANGED <<recvBuf, recvline, printed, pc>>
        /\ server' \in {"closed", "reset"} /\ toServer' \in {toServer, <<>>}
    BY DEF ServerEnds, ResetArrives, userVars, rigid
  <1>3. TypeOK'
    <2>0. /\ toServer \in Seq(Positions) /\ Len(toServer) <= Space
          /\ <<>> \in Seq(Positions) /\ Len(<<>>) <= Space
      BY <1>1, Buffers, Constants
    <2>1. Len(toServer') <= Space /\ toServer' \in Seq(Positions)
      BY <1>2, <2>0
    <2> QED BY <1>1, <1>2, <2>1 DEF TypeOK, LinesTypeOK, Positions
  <1>4. Sizes' /\ Back'
    BY <1>1, <1>2, BackKeeps DEF Sizes
  <1> QED BY <1>2, <1>3, <1>4 DEF IInv, Forth, OneLine, Finished

----------------------------------------------------------------------------
(* select() and fgets(). *)

LEMMA SelectKeeps ==
  ASSUME IInv, Select PROVE IInv'
  <1>1. TypeOK /\ Sizes /\ Back /\ Forth /\ OneLine /\ Finished
    BY DEF IInv
  <1>2. /\ UNCHANGED <<version, input, dialogue, pipe, typed, closed, stdio, line, toServer, toClient>>
        /\ UNCHANGED <<server, recvBuf, recvline, printed>>
        /\ pc = "select" /\ pc' \in {"recv", "fgets"} /\ rset' \subseteq {"socket", "stdin"}
    BY DEF Select, Readable, userVars, rigid, netVars
  <1>3. version = "select"
    BY <1>1, <1>2 DEF Sizes
  <1>4. TypeOK'
    BY <1>1, <1>2 DEF TypeOK, LinesTypeOK, Positions
  <1>5. Sizes' /\ Back'
    BY <1>1, <1>2, <1>3, BackKeeps DEF Sizes
  <1>6. /\ Told' = Told /\ Stored' = Stored /\ Buffered' = Buffered /\ Echoed' = Echoed
        /\ Sent' = Sent /\ Taken' = Taken /\ Filled' = Filled /\ Read' = Read
    BY <1>2 DEF Told, Stored, Buffered, Echoed, Sent, Taken, Filled, Read
  <1>7. Forth'
    BY <1>1, <1>2, <1>3, <1>6 DEF Forth, Extra, IsRun, Terminated
  <1>8. OneLine' /\ Finished'
    BY <1>1, <1>2, <1>3, <1>6 DEF OneLine, Finished
  <1> QED BY <1>4, <1>5, <1>7, <1>8 DEF IInv

LEMMA FgetsReadsKeeps ==
  ASSUME IInv, FgetsReads, UNCHANGED rset PROVE IInv'
  <1>1. TypeOK /\ Sizes /\ Back /\ Forth /\ OneLine /\ Finished
    BY DEF IInv
  <1>2. /\ UNCHANGED <<version, input, dialogue, typed, closed, line, toServer, toClient, server>>
        /\ UNCHANGED <<recvBuf, recvline, printed, pc>>
        /\ pc = "fgets" /\ pipe # <<>> /\ stdio' = stdio \o pipe /\ pipe' = <<>>
    BY DEF FgetsReads, rigid, netVars
  <1>3. /\ Taken \in Nat /\ Len(stdio) \in Nat /\ Len(pipe) \in Nat
        /\ Filled = Taken + Len(stdio) /\ Read = Filled + Len(pipe)
    BY <1>1, Buffers, Offsets DEF Filled, Read
  <1>4. stdio \in Seq(Positions) /\ pipe \in Seq(Positions)
    BY <1>1, Buffers
  <1>5. /\ stdio' \in Seq(Positions) /\ Len(stdio') = Len(stdio) + Len(pipe)
        /\ pipe' \in Seq(Positions) /\ Len(pipe') = 0
    BY <1>2, <1>4
  <1>6. TypeOK'
    BY <1>1, <1>2, <1>5 DEF TypeOK, LinesTypeOK, Positions
  <1>7. Sizes' /\ Back'
    BY <1>1, <1>2, BackKeeps DEF Sizes
  <1>8. /\ Told' = Told /\ Stored' = Stored /\ Buffered' = Buffered /\ Echoed' = Echoed
        /\ Sent' = Sent /\ Taken' = Taken /\ Read' = Read
    <2>1. /\ Told' = Told /\ Stored' = Stored /\ Buffered' = Buffered /\ Echoed' = Echoed
          /\ Sent' = Sent /\ Taken' = Taken
      BY <1>2 DEF Told, Stored, Buffered, Echoed, Sent, Taken
    <2>2. Read' = (Taken' + Len(stdio')) + Len(pipe')
      BY DEF Read, Filled
    <2> QED BY <1>3, <1>5, <2>1, <2>2
  <1>9. Forth'
    <2> SUFFICES ASSUME server = "up" PROVE Forth'
      BY <1>2 DEF Forth
    <2>1. IsRun(stdio, Taken) /\ IsRun(pipe, Filled)
      BY <1>1 DEF Forth
    <2>2. IsRun(stdio \o pipe, Taken)
      BY <1>3, <1>4, <2>1, CatRun
    <2>3. IsRun(stdio', Taken')
      BY <1>2, <1>8, <2>2
    <2>4. IsRun(pipe', Filled')
      BY <1>5 DEF IsRun
    <2>5. Read = typed
      BY <1>1, <1>2 DEF Forth, Extra
    <2>6. stdio' # <<>>
      <3>1. Len(pipe) > 0
        BY <1>2, <1>4
      <3>2. Len(stdio') > 0
        BY <1>3, <1>5, <3>1
      <3> QED BY <3>2
    <2> QED BY <1>1, <1>2, <1>8, <2>3, <2>4, <2>5, <2>6 DEF Forth, IsRun
  <1>10. OneLine' /\ Finished'
    BY <1>1, <1>2, <1>8 DEF OneLine, NL, Limit, Finished
  <1> QED BY <1>6, <1>7, <1>9, <1>10 DEF IInv

LEMMA FgetsEndsKeeps ==
  ASSUME IInv, FgetsEnds, UNCHANGED rset PROVE IInv'
  <1>1. TypeOK /\ Sizes /\ Back /\ Forth /\ OneLine /\ Finished
    BY DEF IInv
  <1>2. /\ UNCHANGED <<version, input, dialogue, typed, closed, pipe, stdio, line, toServer, toClient>>
        /\ UNCHANGED <<server, recvBuf, recvline, printed>>
        /\ pc = "fgets" /\ pipe = <<>> /\ stdio = <<>> /\ closed /\ pc' = "done"
    BY DEF FgetsEnds, userVars, rigid, netVars
  <1>3. TypeOK'
    BY <1>1, <1>2 DEF TypeOK, LinesTypeOK, Positions, Ended
  <1>4. Sizes' /\ Back'
    BY <1>1, <1>2, BackKeeps DEF Sizes
  <1>5. /\ Told' = Told /\ Stored' = Stored /\ Buffered' = Buffered /\ Echoed' = Echoed
        /\ Sent' = Sent /\ Taken' = Taken /\ Filled' = Filled /\ Read' = Read
    BY <1>2 DEF Told, Stored, Buffered, Echoed, Sent, Taken, Filled, Read
  <1>6. Forth'
    BY <1>1, <1>2, <1>5 DEF Forth, Extra, IsRun, Terminated
  <1>7. Read = Taken
    BY <1>1, <1>2, Offsets DEF Read, Filled
  <1>8. OneLine' /\ Finished'
    BY <1>1, <1>2, <1>5, <1>7 DEF OneLine, Finished
  <1> QED BY <1>3, <1>4, <1>6, <1>8 DEF IInv

(* What fgets() or getline() finds at the start of the buffer of fp: n     *)
(* bytes of it, and the newline A where the sample adds one.               *)
TheLine(n, A) ==
  /\ line' = SubSeq(stdio, 1, n) \o A
  /\ stdio' = From(stdio, n + 1)
  /\ n <= Limit - 1 \/ version = "sample"
  /\ \A k \in 1 .. Len(stdio) : k < n => ~NL(stdio[k])
  /\ \/ A = <<>> /\ (version = "sample" => n > 0 /\ (NL(stdio[n]) \/ n = Limit - 1))
     \/ /\ A = <<Len(input) + 1>> /\ version = "sample" /\ n = Len(stdio) /\ n > 0
        /\ closed /\ pipe = <<>> /\ ~NL(stdio[n])

LEMMA TheLineIs ==
  ASSUME TypeOK, FgetsReturns
  PROVE  /\ \E n \in 0 .. Len(stdio), A \in Seq(Positions) : TheLine(n, A)
         /\ ~(stdio = <<>> /\ pipe = <<>>) \/ ~closed
  <1>1. stdio \in Seq(Positions) /\ Len(stdio) \in Nat /\ Len(input) \in Nat
    BY Buffers, InputIs
  <1>2. Limit \in Int /\ Limit > 1 /\ (version # "sample" => Limit = MAXLINE)
    BY <1>1, Constants DEF Limit
  <1>3. PICK n \in 0 .. Len(stdio) : n = LineLen(stdio, Limit)
    BY <1>1, <1>2, LineLenIs
  <1>4. /\ ~HasLine(stdio) =>
             /\ n = Len(stdio) /\ Limit - 1 \notin 1 .. Len(stdio)
             /\ \A k \in 1 .. Len(stdio) : ~NL(stdio[k])
        /\ HasLine(stdio) =>
             /\ n \in 1 .. Len(stdio) /\ (NL(stdio[n]) \/ n = Limit - 1)
             /\ Limit - 1 \in 1 .. Len(stdio) => n <= Limit - 1
        /\ \A k \in 1 .. Len(stdio) : k < n => ~NL(stdio[k])
    BY <1>1, <1>2, <1>3, LineLenIs DEF HasLine
  <1>5. n <= Limit - 1
    BY <1>1, <1>2, <1>3, <1>4
  <1>6. HasLine(stdio) \/ (pipe = <<>> /\ closed /\ stdio # <<>>)
    BY DEF FgetsReturns
  <1>7. line' = SubSeq(stdio, 1, n) \o Added /\ stdio' = From(stdio, n + 1)
    BY <1>3 DEF FgetsReturns
  <1>8. CASE Added = <<>>
    <2>1. version = "sample" => HasLine(stdio)
      BY <1>8 DEF Added
    <2>2. TheLine(n, <<>>)
      BY <1>4, <1>5, <1>7, <1>8, <2>1 DEF TheLine
    <2>3. <<>> \in Seq(Positions)
      OBVIOUS
    <2>4. HasLine(stdio) => stdio # <<>>
      BY <1>1, <1>4
    <2> QED BY <1>6, <2>2, <2>3, <2>4
  <1>9. CASE Added # <<>>
    <2>1. Added = <<Len(input) + 1>> /\ version = "sample" /\ ~HasLine(stdio)
      BY <1>9 DEF Added
    <2>2. Len(stdio) > 0
      BY <1>1, <1>6, <2>1
    <2>3. TheLine(n, <<Len(input) + 1>>)
      BY <1>1, <1>4, <1>6, <1>7, <2>1, <2>2 DEF TheLine
    <2>4. <<Len(input) + 1>> \in Seq(Positions)
      BY <1>1 DEF Positions
    <2> QED BY <1>6, <2>1, <2>3, <2>4
  <1> QED BY <1>8, <1>9

LEMMA FgetsReturnsKeeps ==
  ASSUME IInv, FgetsReturns, UNCHANGED rset PROVE IInv'
  <1>1. TypeOK /\ Sizes /\ Back /\ Forth /\ OneLine /\ Finished
    BY DEF IInv
  <1>2. /\ UNCHANGED <<version, input, dialogue, typed, closed, pipe, toServer, toClient, server>>
        /\ UNCHANGED <<recvBuf, recvline, printed>>
        /\ pc = "fgets" /\ pc' = "send"
    BY DEF FgetsReturns, userVars, rigid, netVars
  <1>3. PICK n \in 0 .. Len(stdio), A \in Seq(Positions) : TheLine(n, A)
    BY <1>1, TheLineIs
  <1>4. stdio \in Seq(Positions) /\ pipe \in Seq(Positions)
    BY <1>1, Buffers
  <1>5. /\ Told \in Nat /\ Sent \in Nat /\ Len(stdio) \in Nat /\ Len(pipe) \in Nat
        /\ Len(input) \in Nat /\ typed \in Nat /\ typed <= Len(input) /\ Len(line) \in Nat
        /\ Len(A) \in Nat
    BY <1>1, Buffers, Offsets, InputIs
  <1>6. /\ SubSeq(stdio, 1, n) \in Seq(Positions) /\ Len(SubSeq(stdio, 1, n)) = n
        /\ stdio' \in Seq(Positions) /\ Len(stdio') = Len(stdio) - n
    BY <1>3, <1>4, Parts DEF TheLine
  <1>7. line' \in Seq(Positions) /\ Len(line') = n + Len(A)
    BY <1>3, <1>6 DEF TheLine
  <1>8. (A = <<>> /\ Len(A) = 0) \/ (A = <<Len(input) + 1>> /\ Len(A) = 1 /\ version = "sample")
    BY <1>3 DEF TheLine
  <1>9. version # "sample" => Len(line') < MAXLINE
    <2> SUFFICES ASSUME version # "sample" PROVE Len(line') < MAXLINE
      OBVIOUS
    <2>1. n <= MAXLINE - 1
      BY <1>3 DEF TheLine, Limit
    <2> QED BY <1>7, <1>8, <2>1, Constants
  <1>10. TypeOK'
    BY <1>1, <1>2, <1>6, <1>7, <1>9 DEF TypeOK, LinesTypeOK, Positions
  <1>11. Sizes' /\ Back'
    BY <1>1, <1>2, BackKeeps DEF Sizes
  <1>12. ASSUME server = "up" PROVE Forth' /\ OneLine' /\ Finished'
    <2>1. /\ Taken = Sent + Len(line) /\ Filled = Taken + Len(stdio) /\ Read = Filled + Len(pipe)
          /\ line = <<>> /\ Len(line) = 0
      BY <1>1, <1>2, <1>12 DEF Forth, Taken, Filled, Read
    <2>2. Read = typed
      BY <1>1, <1>12, TheLineIs DEF Forth, Extra
    <2>3. /\ Told' = Told /\ Stored' = Stored /\ Buffered' = Buffered /\ Echoed' = Echoed
          /\ Sent' = Sent
      BY <1>2 DEF Told, Stored, Buffered, Echoed, Sent
    <2>4. /\ Taken' = Sent + (n + Len(A)) /\ Filled' = Filled + Len(A) /\ Read' = typed + Len(A)
      <3>1. /\ Taken' = Sent' + Len(line') /\ Filled' = Taken' + Len(stdio')
            /\ Read' = Filled' + Len(pipe')
        BY DEF Taken, Filled, Read
      <3>2. Len(pipe') = Len(pipe)
        BY <1>2
      <3>3. Taken' = Sent + (n + Len(A))
        BY <1>7, <2>3, <3>1
      <3>4. Filled' = Filled + Len(A)
        BY <1>5, <1>6, <2>1, <3>1, <3>3
      <3>5. Read' = typed + Len(A)
        <4>1. Read' = (Filled + Len(A)) + Len(pipe)
          BY <3>1, <3>2, <3>4
        <4>2. Filled \in Nat /\ Filled + Len(pipe) = typed
          BY <1>1, <2>1, <2>2, Offsets
        <4>3. (Filled + Len(A)) + Len(pipe) = typed + Len(A)
          BY <1>5, <4>2
        <4> QED BY <4>1, <4>3
      <3> QED BY <3>3, <3>4, <3>5
    <2>5. IsRun(stdio, Taken) /\ IsRun(pipe, Filled)
      BY <1>1, <1>12 DEF Forth
    <2>6. \A k \in 1 .. Len(stdio) : stdio[k] = Sent + k
      BY <1>5, <2>1, <2>5 DEF IsRun
    (* The newline comes behind the last byte of an input that has none. *)
    <2>7. A # <<>> => Sent + n = Len(input) /\ typed = Len(input) /\ ~Terminated
                      /\ stdio' = <<>> /\ pipe = <<>> /\ closed
      <3> SUFFICES ASSUME A # <<>>
                   PROVE  Sent + n = Len(input) /\ typed = Len(input) /\ ~Terminated
                          /\ stdio' = <<>> /\ pipe = <<>> /\ closed
        OBVIOUS
      <3>1. n = Len(stdio) /\ n > 0 /\ closed /\ pipe = <<>> /\ ~NL(stdio[n])
        BY <1>3 DEF TheLine
      <3>2. typed = Len(input)
        BY <1>1, <3>1 DEF Sizes
      <3>3. Sent + n = Len(input)
        BY <1>5, <2>1, <2>2, <3>1, <3>2
      <3>4. stdio[n] = Len(input) /\ Len(input) > 0
        BY <1>5, <2>6, <3>1, <3>3
      <3>5. Len(stdio') = 0
        BY <1>5, <1>6, <3>1
      <3> QED BY <1>6, <3>1, <3>2, <3>3, <3>4, <3>5 DEF NL, Terminated
    <2>8. IsRun(line', Sent')
      <3>1. IsRun(SubSeq(stdio, 1, n), Sent)
        BY <1>6, <2>6, <1>4, Parts DEF IsRun
      <3>2. IsRun(A, Sent + n)
        BY <1>5, <1>8, <2>7 DEF IsRun
      <3>3. IsRun(SubSeq(stdio, 1, n) \o A, Sent)
        <4>1. IsRun(A, Sent + Len(SubSeq(stdio, 1, n))) /\ Sent \in Int
          BY <1>5, <1>6, <3>2
        <4> QED BY <1>6, <3>1, <4>1, CatRun
      <3> QED BY <1>3, <2>3, <3>3 DEF TheLine
    <2>9. IsRun(stdio', Taken') /\ IsRun(pipe', Filled')
      <3>1. CASE A = <<>>
        <4>1. Taken' = Taken + n /\ Filled' = Filled
          BY <1>5, <1>8, <2>1, <2>4, <3>1
        <4>2. IsRun(From(stdio, n + 1), Taken + n)
          BY <1>4, <1>5, <2>1, <2>5, PartRun
        <4> QED BY <1>2, <1>3, <2>5, <4>1, <4>2 DEF TheLine
      <3>2. CASE A # <<>>
        BY <1>2, <2>7, <3>2 DEF IsRun
      <3> QED BY <3>1, <3>2
    <2>10. Read' = typed' \/ (Read' = typed' + 1 /\ Extra')
      <3>1. CASE A = <<>>
        BY <1>2, <1>5, <1>8, <2>4, <3>1
      <3>2. CASE A # <<>>
        BY <1>2, <1>8, <2>4, <2>7, <3>2 DEF Extra, Terminated
      <3> QED BY <3>1, <3>2
    <2>11. version = "sample" /\ ~Terminated /\ Read' = Len(input) => stdio' # <<>> \/ pipe # <<>>
      <3> SUFFICES ASSUME version = "sample", Read' = Len(input), stdio' = <<>>, pipe = <<>>
                   PROVE  Terminated
        OBVIOUS
      <3>1. A = <<>>
        BY <1>5, <1>8, <2>4, <2>7
      <3>2. n = Len(stdio) /\ Len(pipe) = 0
        BY <1>5, <1>6
      <3>3. Sent + n = Len(input)
        BY <1>5, <1>8, <2>1, <2>2, <2>4, <3>1, <3>2
      <3>4. n > 0 /\ (NL(stdio[n]) \/ n = Limit - 1)
        BY <1>3, <3>1, <1>8 DEF TheLine
      <3>5. NL(Len(input))
        BY <1>5, <2>6, <3>2, <3>3, <3>4 DEF Limit
      <3> QED BY <1>5, <3>5 DEF NL, Terminated
    <2>12. Forth'
      <3>1. IsRun(toServer, Echoed) /\ recvline = <<>>
        BY <1>1, <1>2, <1>12 DEF Forth
      <3>2. IsRun(toServer', Echoed')
        BY <1>2, <2>3, <3>1
      <3>3. version' = "sample" /\ ~Terminated' /\ Read' = Len(input') => stdio' # <<>> \/ pipe' # <<>>
        BY <1>2, <2>11 DEF Terminated
      <3>4. recvline' = <<>>
        BY <1>2, <3>1
      <3> QED BY <1>2, <2>8, <2>9, <2>10, <3>2, <3>3, <3>4 DEF Forth
    <2>13. OneLine'
      <3> SUFFICES ASSUME version # "select"
                   PROVE  /\ \A q \in (Told + 1) .. (Taken' - 1) : ~NL(q)
                          /\ Taken' - Told <= Limit - 1
        BY <1>2, <2>3 DEF OneLine, NL, Limit
      <3>1. Told = Sent /\ Taken' = Told + (n + Len(A))
        BY <1>1, <1>2, <1>5, <1>12, <2>1, <2>4 DEF OneLine
      <3>2. ASSUME NEW q \in (Told + 1) .. (Taken' - 1) PROVE ~NL(q)
        <4>1. PICK k \in Nat : q = Told + k /\ k > 0 /\ k <= n + Len(A) - 1
          <5>1. q - Told \in Nat /\ q - Told > 0 /\ q - Told <= n + Len(A) - 1
            BY <1>5, <3>1
          <5> QED BY <1>5, <5>1
        <4>2. k \in 1 .. Len(stdio) /\ (k < n \/ (k = n /\ A # <<>>))
          <5>1. Len(A) = 0 \/ (Len(A) = 1 /\ A # <<>>)
            BY <1>8
          <5>2. CASE Len(A) = 0
            BY <1>5, <4>1, <5>2
          <5>3. CASE Len(A) = 1 /\ A # <<>>
            BY <1>5, <4>1, <5>3
          <5> QED BY <5>1, <5>2, <5>3
        <4>3. stdio[k] = q
          BY <2>6, <3>1, <4>1, <4>2
        <4> QED BY <1>3, <4>2, <4>3 DEF TheLine
      <3>3. Taken' - Told <= Limit - 1
        <4>1. CASE version = "sample"
          <5>1. n + Len(A) <= Len(input) + 1
            <6>1. CASE A = <<>>
              BY <1>5, <1>8, <2>1, <2>2, <6>1
            <6>2. CASE A # <<>>
              <7>1. Sent + n = Len(input) /\ Len(A) = 1
                BY <1>8, <2>7, <6>2
              <7> QED BY <1>5, <7>1
            <6> QED BY <6>1, <6>2
          <5> QED BY <1>5, <3>1, <4>1, <5>1 DEF Limit
        <4>2. CASE version # "sample"
          <5>1. Len(A) = 0 /\ n <= Limit - 1
            BY <1>3, <1>8, <4>2 DEF TheLine
          <5> QED BY <1>5, <3>1, <4>2, <5>1
        <4> QED BY <4>1, <4>2
      <3> QED BY <3>2, <3>3
    <2>14. Finished'
      BY <1>1, <1>2, <2>3 DEF Finished
    <2> QED BY <2>12, <2>13, <2>14
  <1>13. ASSUME server # "up" PROVE Forth' /\ OneLine' /\ Finished'
    BY <1>2, <1>13 DEF Forth, OneLine, Finished
  <1> QED BY <1>10, <1>11, <1>12, <1>13 DEF IInv

----------------------------------------------------------------------------
(* send_all(). *)

LEMMA SendKeeps ==
  ASSUME IInv, Send(AfterSend), UNCHANGED rset PROVE IInv'
  <1>1. TypeOK /\ Sizes /\ Back /\ Forth /\ OneLine /\ Finished
    BY DEF IInv
  <1>2. /\ UNCHANGED <<version, input, dialogue, typed, closed, pipe, stdio, toClient>>
        /\ UNCHANGED <<recvBuf, recvline, printed>>
        /\ pc = "send" /\ pc' = IF line' = <<>> THEN AfterSend ELSE "send"
    BY DEF Send, userVars, rigid
  <1>3. PICK n \in 1 .. Len(line) :
          /\ IF server = "up"
             THEN /\ Len(toServer) + n <= Space
                  /\ toServer' = toServer \o SubSeq(line, 1, n)
                  /\ UNCHANGED server
             ELSE server' = "refusing" /\ UNCHANGED toServer
          /\ line' = From(line, n + 1)
    BY DEF Send
  <1>4. /\ Echoed \in Nat /\ Sent \in Nat /\ Len(line) \in Nat /\ Len(toServer) \in Nat
    BY <1>1, Buffers, Offsets
  <1>5. line \in Seq(Positions) /\ toServer \in Seq(Positions) /\ n \in 0 .. Len(line)
    BY <1>1, <1>3, Buffers
  <1>a. PICK E \in Seq(Positions) : E = SubSeq(line, 1, n) /\ Len(E) = n
    BY <1>5, Parts
  <1>6. /\ line' \in Seq(Positions) /\ Len(line') = Len(line) - n
    BY <1>3, <1>5, Parts
  <1>7. toServer' \in Seq(Positions) /\ Len(toServer') <= Space
    <2>1. CASE server = "up"
      <3>1. toServer' = toServer \o E /\ Len(toServer) + n <= Space
        BY <1>3, <1>a, <2>1
      <3>2. toServer' \in Seq(Positions) /\ Len(toServer') = Len(toServer) + n
        BY <1>5, <1>a, <3>1, Cat
      <3> QED BY <3>1, <3>2
    <2>2. CASE server # "up"
      BY <1>1, <1>3, <2>2, Buffers
    <2> QED BY <2>1, <2>2
  <1>8. version # "sample" => Len(line') < MAXLINE
    <2>1. version # "sample" => Len(line) < MAXLINE
      BY <1>1 DEF TypeOK, LinesTypeOK
    <2> QED BY <1>3, <1>4, <1>6, <2>1, Constants
  <1>9. /\ pc' \in {"send", "select", "recv"} /\ (pc' # "send" => line' = <<>>)
        /\ (pc' = "select" => version = "select") /\ (version = "select" => pc' # "recv")
    BY <1>2 DEF AfterSend
  <1>10. server' \in {"up", "closed", "refusing", "reset"} /\ (server' = server \/ server' # "up")
    BY <1>1, <1>3 DEF TypeOK, LinesTypeOK
  <1>11. TypeOK'
    BY <1>1, <1>2, <1>6, <1>7, <1>8, <1>9, <1>10 DEF TypeOK, LinesTypeOK, Positions
  <1>12. Sizes' /\ Back'
    BY <1>1, <1>2, <1>9, <1>10, BackKeeps DEF Sizes
  <1>13. ASSUME server = "up" PROVE Forth' /\ OneLine' /\ Finished'
    <2>1. toServer' = toServer \o E /\ server' = "up"
      BY <1>3, <1>a, <1>13
    <2>2. Len(toServer') = Len(toServer) + n
      BY <1>5, <1>a, <2>1, Cat
    <2>3. Told' = Told /\ Stored' = Stored /\ Buffered' = Buffered /\ Echoed' = Echoed
      BY <1>2 DEF Told, Stored, Buffered, Echoed
    <2>4. Sent' = Sent + n
      <3>1. Sent' = Echoed' + Len(toServer') /\ Sent = Echoed + Len(toServer)
        BY DEF Sent
      <3> QED BY <1>4, <2>2, <2>3, <3>1
    <2>5. Taken' = Taken
      <3>1. Taken' = Sent' + Len(line') /\ Taken = Sent + Len(line)
        BY DEF Taken
      <3> QED BY <1>4, <1>6, <2>4, <3>1
    <2>6. Filled' = Filled /\ Read' = Read
      BY <1>2, <2>5 DEF Filled, Read
    <2>7. IsRun(toServer, Echoed) /\ Sent = Echoed + Len(toServer) /\ IsRun(line, Sent)
      BY <1>1, <1>13 DEF Forth, Sent
    <2>8. IsRun(E, Sent) /\ IsRun(line', Sent')
      <3>1. IsRun(SubSeq(line, 1, n), Sent) /\ IsRun(From(line, n + 1), Sent + n)
        BY <1>4, <1>5, <2>7, PartRun
      <3> QED BY <1>3, <1>a, <2>4, <3>1
    <2>9. IsRun(toServer', Echoed')
      <3>1. IsRun(toServer \o E, Echoed)
        BY <1>4, <1>5, <1>6, <2>7, <2>8, CatRun
      <3> QED BY <2>1, <2>3, <3>1
    <2>10. recvline' = <<>>
      BY <1>1, <1>2, <1>13 DEF Forth
    <2>11. Forth'
      <3>1. IsRun(stdio', Taken') /\ IsRun(pipe', Filled')
        BY <1>1, <1>2, <1>13, <2>5, <2>6 DEF Forth
      <3>2. Read' = typed' \/ (Read' = typed' + 1 /\ Extra')
        BY <1>1, <1>2, <1>13, <2>6 DEF Forth, Extra, Terminated
      <3>3. version' = "sample" /\ ~Terminated' /\ Read' = Len(input') => stdio' # <<>> \/ pipe' # <<>>
        BY <1>1, <1>2, <1>13, <2>6 DEF Forth, Terminated
      <3> QED BY <1>9, <2>8, <2>9, <2>10, <3>1, <3>2, <3>3 DEF Forth
    <2>12. OneLine'
      <3> SUFFICES ASSUME version # "select"
                   PROVE  /\ \A q \in (Told + 1) .. (Taken - 1) : ~NL(q)
                          /\ Taken - Told <= Limit - 1
        BY <1>2, <1>9, <2>3, <2>5 DEF OneLine, NL, Limit
      <3> QED BY <1>1, <1>2, <1>13 DEF OneLine
    <2>13. Finished'
      BY <1>1, <1>2, <1>9, <1>13, <2>3 DEF Finished
    <2> QED BY <2>11, <2>12, <2>13
  <1>14. ASSUME server # "up" PROVE Forth' /\ OneLine' /\ Finished'
    BY <1>10, <1>14 DEF Forth, OneLine, Finished
  <1> QED BY <1>11, <1>12, <1>13, <1>14 DEF IInv

(* The calls that fail. *)
LEMMA FailuresKeep ==
  ASSUME IInv, SendFails \/ RecvFails \/ RecvTimesOut, UNCHANGED rset PROVE IInv'
  <1>1. TypeOK /\ Sizes /\ Back /\ Forth /\ OneLine /\ Finished
    BY DEF IInv
  <1>2. /\ UNCHANGED <<version, input, dialogue, typed, closed, pipe, stdio, line>>
        /\ UNCHANGED <<toServer, toClient, server, recvBuf, recvline, printed>>
        /\ pc' \in {"quit", "killed"} /\ (pc = "recv" \/ server # "up")
    BY DEF SendFails, RecvFails, RecvTimesOut, userVars, rigid, netVars
  <1>3. TypeOK'
    BY <1>1, <1>2 DEF TypeOK, LinesTypeOK, Positions, Ended
  <1>4. Sizes' /\ Back'
    BY <1>1, <1>2, BackKeeps DEF Sizes
  <1>5. /\ Told' = Told /\ Stored' = Stored /\ Buffered' = Buffered /\ Echoed' = Echoed
        /\ Sent' = Sent /\ Taken' = Taken /\ Filled' = Filled /\ Read' = Read
    BY <1>2 DEF Told, Stored, Buffered, Echoed, Sent, Taken, Filled, Read
  <1>6. Forth'
    BY <1>1, <1>2, <1>5 DEF Forth, Extra, IsRun, Terminated
  <1>7. OneLine' /\ Finished'
    BY <1>1, <1>2, <1>5 DEF OneLine, Finished
  <1> QED BY <1>3, <1>4, <1>6, <1>7 DEF IInv

----------------------------------------------------------------------------
(* recv_until() and getline(). *)

(* The stream or the connection has ended. *)
LEMMA RecvEndsKeeps ==
  ASSUME IInv, RecvEnds(AfterRecv), UNCHANGED rset PROVE IInv'
  <1>1. TypeOK /\ Sizes /\ Back
    BY DEF IInv
  <1>2. /\ UNCHANGED <<version, input, dialogue, typed, closed, pipe, stdio, line>>
        /\ UNCHANGED <<toServer, toClient, server, recvBuf>>
        /\ version # "sample" /\ recvBuf = <<>> /\ toClient = <<>> /\ server # "up"
        /\ printed' = printed \o recvline /\ recvline' = <<>>
        /\ pc' \in {"quit", "fgets", "select"} /\ (pc' = "select" => version = "select")
    BY DEF RecvEnds, AtEnd, AfterRecv, userVars, rigid, netVars
  <1>3. /\ printed \in Seq(Positions \cup {0}) /\ recvline \in Seq(Positions)
        /\ Len(printed) \in Nat /\ Len(recvline) \in Nat
    BY <1>1, Buffers
  <1>4. recvline \in Seq(Positions \cup {0})
    BY <1>3
  <1>5. printed' \in Seq(Positions \cup {0}) /\ Len(printed') = Len(printed) + Len(recvline)
    BY <1>2, <1>3, <1>4
  <1>6. recvline' \in Seq(Positions) /\ Len(recvline') = 0
    BY <1>2
  <1>7. TypeOK'
    BY <1>1, <1>2, <1>5, <1>6, Constants DEF TypeOK, LinesTypeOK, Positions, Ended
  <1>8. IsRun(printed, 0) /\ IsRun(recvline, Told)
    <2>1. PICK k \in 0 .. Told : ToldFrom(k)
      BY <1>1 DEF Back
    <2>2. k = Told
      BY <1>1, <1>2, <2>1, Offsets DEF ToldFrom
    <2> QED BY <2>1, <2>2 DEF ToldFrom, IsRun, Told
  <1>9. IsRun(printed', 0)
    <2>1. IsRun(recvline, 0 + Len(printed))
      BY <1>3, <1>8 DEF Told
    <2> QED BY <1>2, <1>3, <1>4, <1>8, <2>1, CatRun
  <1>10. Straight'
    BY <1>2, <1>6, <1>9 DEF Straight, IsRun
  <1>11. Sizes'
    BY <1>1, <1>2, <1>6, Constants DEF Sizes
  <1> QED BY <1>2, <1>7, <1>10, <1>11, StraightIsBack DEF IInv, Forth, OneLine, Finished

LEMMA StreamEndsKeeps ==
  ASSUME IInv, StreamEnds(AfterRecv), UNCHANGED rset PROVE IInv'
  <1>1. TypeOK /\ Sizes /\ Back
    BY DEF IInv
  <1>2. /\ UNCHANGED <<version, input, dialogue, typed, closed, pipe, stdio, line>>
        /\ UNCHANGED <<toServer, toClient, server, recvBuf, recvline>>
        /\ version = "sample" /\ printed' = printed \o recvline \o <<0>> /\ pc' = "fgets"
    BY DEF StreamEnds, AfterRecv, userVars, rigid, netVars
  <1>3. server # "up"
    <2> SUFFICES ASSUME server = "up" PROVE FALSE
      OBVIOUS
    <2>1. StreamEnded
      BY DEF StreamEnds, AtEnd
    <2>2. IsRun(printed, 0)
      BY <1>1, UpStraight DEF Straight
    <2>3. DOMAIN printed = 1 .. Len(printed)
      BY <1>1, Buffers
    <2> QED BY <2>1, <2>2, <2>3 DEF StreamEnded, IsRun
  <1>4. /\ printed \in Seq(Positions \cup {0}) /\ recvline \in Seq(Positions)
        /\ Len(printed) \in Nat /\ Len(recvline) \in Nat
    BY <1>1, Buffers
  <1>5. recvline \in Seq(Positions \cup {0}) /\ <<0>> \in Seq(Positions \cup {0})
    BY <1>4
  <1>6. Answer \in Seq(Positions \cup {0}) /\ Len(Answer) = Len(recvline) + 1
    BY <1>4, <1>5 DEF Answer
  <1>7. printed' = printed \o Answer
    BY <1>2, <1>4, <1>5 DEF Answer
  <1> HIDE DEF Answer
  <1>8. /\ printed' \in Seq(Positions \cup {0}) /\ Len(printed') = Len(printed) + Len(Answer)
        /\ \A j \in 1 .. Len(printed) : printed'[j] = printed[j]
        /\ \A i \in 1 .. Len(Answer) : printed'[Len(printed) + i] = Answer[i]
    BY <1>4, <1>6, <1>7, Cat
  <1>9. TypeOK'
    BY <1>1, <1>2, <1>8 DEF TypeOK, LinesTypeOK, Positions
  <1>10. Sizes'
    BY <1>1, <1>2 DEF Sizes
  <1>11. PICK k \in 0 .. Told : ToldFrom(k)
    BY <1>1 DEF Back
  <1>12. PICK L \in Nat : L = Len(Answer) /\ L > 0
    BY <1>4, <1>6
  <1>13. PICK T \in Nat : T = Told /\ Told = Len(printed)
    BY <1>4 DEF Told
  <1>14. Told' = T + L /\ Answer' = Answer
    BY <1>2, <1>8, <1>12, <1>13 DEF Told, Answer
  <1>15. k + L <= T + L /\ k < T + L /\ k \in 0 .. Told'
    BY <1>11, <1>12, <1>13, <1>14
  <1>16. \A j \in 1 .. k : printed'[j] = j
    BY <1>8, <1>11, <1>13 DEF ToldFrom
  <1>17. \A j \in (k + 1) .. (T + L) :
           printed'[j] = IF j <= k + L THEN Answer[j - k] ELSE printed'[j - L]
    <2> SUFFICES ASSUME NEW j \in (k + 1) .. (T + L)
                 PROVE  printed'[j] = IF j <= k + L THEN Answer[j - k] ELSE printed'[j - L]
      OBVIOUS
    <2>1. CASE j <= T
      <3>1. k < T /\ j \in (k + 1) .. T /\ k # T
        BY <1>11, <1>13, <2>1
      <3>2. printed[j] = IF j <= k + L THEN Answer[j - k] ELSE printed[j - L]
        BY <1>11, <1>12, <1>13, <3>1 DEF ToldFrom
      <3>3. printed'[j] = printed[j] /\ (j > k + L => printed'[j - L] = printed[j - L])
        BY <1>8, <1>11, <1>12, <1>13, <2>1
      <3> QED BY <1>11, <1>12, <1>13, <2>1, <3>2, <3>3
    <2>2. CASE j > T
      <3>1. PICK i \in 1 .. L : j = T + i
        <4>1. j - T \in 1 .. L /\ j = T + (j - T)
          BY <1>11, <1>12, <1>13, <2>2
        <4> QED BY <4>1
      <3>2. printed'[j] = Answer[i]
        BY <1>8, <1>12, <1>13, <3>1
      <3>3. CASE k = T
        BY <1>11, <1>12, <1>13, <3>1, <3>2, <3>3
      <3>4. CASE k < T
        <4>1. k + L <= T /\ printed[T - L + i] = Answer[i]
          BY <1>11, <1>12, <1>13, <3>1, <3>4 DEF ToldFrom
        <4>2. j > k + L /\ j - L = T - L + i /\ j - L \in 1 .. T
          BY <1>11, <1>12, <1>13, <3>1, <4>1
        <4>3. printed'[j - L] = printed[j - L]
          BY <1>8, <1>13, <4>2
        <4> QED BY <1>11, <1>12, <1>13, <2>2, <3>2, <4>1, <4>2, <4>3
      <3> QED BY <1>11, <1>13, <3>3, <3>4
    <2> QED BY <1>11, <1>12, <1>13, <2>1, <2>2
  <1>18. \A i \in 1 .. L : printed'[(T + L) - L + i] = Answer[i]
    BY <1>8, <1>12, <1>13
  <1>19. IsRun(recvline, k)
    BY <1>11 DEF ToldFrom
  <1>20. ToldFrom(k)'
    <2>1. k < T + L /\ k # Told' /\ version' = "sample" /\ server' # "up" /\ k + L <= Told'
      BY <1>2, <1>3, <1>11, <1>12, <1>14, <1>15
    <2>2. IsRun(recvline', k)
      BY <1>2, <1>19
    <2>3. Len(Answer') = L
      BY <1>12, <1>14
    <2> QED BY <1>14, <1>16, <1>17, <1>18, <2>1, <2>2, <2>3 DEF ToldFrom
  <1>21. Back'
    BY <1>15, <1>20 DEF Back
  <1> QED BY <1>2, <1>3, <1>9, <1>10, <1>21 DEF IInv, Forth, OneLine, Finished

(* What recv() or the buffer offers, and how much of it is taken; ends is  *)
(* whether the answer ends there.                                          *)
Arrives(avail, rest, n, ends) ==
  /\ recvBuf' = From(avail, n + 1)
  /\ toClient' = rest
  /\ IF ends
     THEN printed' = printed \o recvline \o SubSeq(avail, 1, n) /\ recvline' = <<>> /\ pc' = AfterRecv
     ELSE recvline' = recvline \o SubSeq(avail, 1, n) /\ UNCHANGED <<printed, pc>>
  /\ ends =>
       /\ n > 0
       /\ NL(avail[n]) \/ n = Room - 1
  /\ ~ends =>
       /\ n = Len(avail)
       /\ Room - 1 \notin 1 .. Len(avail)

LEMMA ArrivesIs ==
  ASSUME TypeOK, Sizes, Straight, Recv(AfterRecv)
  PROVE  \E avail \in Seq(Positions), rest \in Seq(Positions) :
           /\ IsRun(avail, Stored) /\ IsRun(rest, Stored + Len(avail))
           /\ Len(avail) <= MAXLINE /\ Len(rest) <= Space
           /\ Stored + Len(avail) + Len(rest) = Echoed
           /\ \E n \in 0 .. Len(avail), ends \in BOOLEAN : Arrives(avail, rest, n, ends)
  <1>1. /\ recvBuf \in Seq(Positions) /\ toClient \in Seq(Positions)
        /\ Len(recvBuf) \in Nat /\ Len(toClient) \in Nat /\ Len(recvline) \in Nat /\ Len(input) \in Nat
        /\ Len(recvBuf) <= MAXLINE /\ Len(toClient) <= Space /\ MAXLINE \in Nat /\ Space \in Nat
    BY Buffers, InputIs, Constants
  <1>2. Stored \in Nat /\ Buffered = Stored + Len(recvBuf) /\ Echoed = Buffered + Len(toClient)
    BY Offsets DEF Buffered, Echoed
  <1>3. IsRun(recvBuf, Stored) /\ IsRun(toClient, Buffered)
    BY DEF Straight
  <1> DEFINE avail0 == IF recvBuf # <<>> THEN recvBuf ELSE Chunk
             rest0 == IF recvBuf # <<>> THEN toClient ELSE From(toClient, Len(Chunk) + 1)
  <1>4. PICK avail \in Seq(Positions), rest \in Seq(Positions) :
          /\ avail = avail0 /\ rest = rest0
          /\ IsRun(avail, Stored) /\ IsRun(rest, Stored + Len(avail))
          /\ Len(avail) <= MAXLINE /\ Len(rest) <= Space
          /\ Stored + Len(avail) + Len(rest) = Echoed
    <2>1. CASE recvBuf # <<>>
      BY <1>1, <1>2, <1>3, <2>1
    <2>2. CASE recvBuf = <<>>
      <3>1. PICK c \in 0 .. Len(toClient) :
              Chunk = SubSeq(toClient, 1, c) /\ c <= MAXLINE
        BY <1>1 DEF Chunk
      <3>2. /\ Chunk \in Seq(Positions) /\ Len(Chunk) = c
            /\ From(toClient, c + 1) \in Seq(Positions) /\ Len(From(toClient, c + 1)) = Len(toClient) - c
        BY <1>1, <3>1, Parts
      <3>3. Buffered = Stored
        BY <1>1, <1>2, <2>2
      <3>4. IsRun(Chunk, Stored) /\ IsRun(From(toClient, c + 1), Stored + c)
        <4>1. IsRun(toClient, Stored) /\ toClient \in Seq(Positions) /\ Stored \in Int
          BY <1>1, <1>2, <1>3, <3>3
        <4> QED BY <3>1, <4>1, PartRun
      <3>5. avail0 = Chunk /\ rest0 = From(toClient, c + 1)
        BY <2>2, <3>2
      <3>6. Len(toClient) - c <= Space /\ Stored + c + (Len(toClient) - c) = Echoed
        BY <1>1, <1>2, <3>1, <3>3
      <3> HIDE DEF avail0, rest0
      <3> QED BY <3>1, <3>2, <3>4, <3>5, <3>6
    <2> QED BY <2>1, <2>2
  <1>5. Room \in Int
    BY <1>1 DEF Room, Limit
  <1>6. PICK n \in 0 .. Len(avail) : n = LineLen(avail, Room)
    BY <1>5, LineLenIs
  <1>7. SubSeq(avail, 1, n) \in Seq(Positions) /\ Len(SubSeq(avail, 1, n)) = n
    BY <1>6, Parts
  <1>8. PICK ends \in BOOLEAN : ends = (LineEnds(avail, Room) # {})
    OBVIOUS
  <1>9. Arrives(avail, rest, n, ends)
    <2>1. /\ recvBuf' = From(avail, n + 1) /\ toClient' = rest
          /\ IF ends
             THEN printed' = printed \o recvline \o SubSeq(avail, 1, n) /\ recvline' = <<>> /\ pc' = AfterRecv
             ELSE recvline' = recvline \o SubSeq(avail, 1, n) /\ UNCHANGED <<printed, pc>>
      BY <1>4, <1>6, <1>7, <1>8 DEF Recv
    <2>2. /\ ends => n > 0 /\ (NL(avail[n]) \/ n = Room - 1)
          /\ ~ends => n = Len(avail) /\ Room - 1 \notin 1 .. Len(avail)
      <3>1. /\ LineEnds(avail, Room) = {} =>
                  LineLen(avail, Room) = Len(avail) /\ Room - 1 \notin 1 .. Len(avail)
            /\ LineEnds(avail, Room) # {} =>
                  /\ LineLen(avail, Room) \in 1 .. Len(avail)
                  /\ NL(avail[LineLen(avail, Room)]) \/ LineLen(avail, Room) = Room - 1
        BY <1>5, LineLenIs
      <3>2. ends => n \in 1 .. Len(avail) /\ (NL(avail[n]) \/ n = Room - 1)
        BY <1>6, <1>8, <3>1
      <3>3. ~ends => n = Len(avail) /\ Room - 1 \notin 1 .. Len(avail)
        BY <1>6, <1>8, <3>1
      <3>4. \A m \in 1 .. Len(avail) : m > 0
        OBVIOUS
      <3> QED BY <3>2, <3>3, <3>4
    <2> QED BY <2>1, <2>2 DEF Arrives
  <1> QED BY <1>4, <1>6, <1>9

LEMMA RecvKeeps ==
  ASSUME IInv, Recv(AfterRecv), UNCHANGED rset PROVE IInv'
  <1>1. TypeOK /\ Sizes /\ Back /\ Forth /\ OneLine /\ Finished
    BY DEF IInv
  <1>2. /\ UNCHANGED <<version, input, dialogue, typed, closed, pipe, stdio, line, toServer, server>>
        /\ pc = "recv" /\ ~StreamEnded
    BY DEF Recv, userVars, rigid
  <1>3. Straight
    BY <1>1, <1>2, StreamStraight
  <1>4. PICK avail \in Seq(Positions), rest \in Seq(Positions) :
          /\ IsRun(avail, Stored) /\ IsRun(rest, Stored + Len(avail))
          /\ Len(avail) <= MAXLINE /\ Len(rest) <= Space
          /\ Stored + Len(avail) + Len(rest) = Echoed
          /\ \E n \in 0 .. Len(avail), ends \in BOOLEAN : Arrives(avail, rest, n, ends)
    BY <1>1, <1>3, ArrivesIs
  <1>5. PICK n \in 0 .. Len(avail), ends \in BOOLEAN : Arrives(avail, rest, n, ends)
    BY <1>4
  <1>6. /\ printed \in Seq(Positions \cup {0}) /\ recvline \in Seq(Positions)
        /\ recvline \in Seq(Positions \cup {0})
    BY <1>1, Buffers
  <1>7. /\ Told \in Nat /\ Stored \in Nat /\ Len(recvline) \in Nat /\ Len(avail) \in Nat
        /\ Len(rest) \in Nat /\ MAXLINE \in Nat /\ MAXLINE > 1
        /\ Told = Len(printed) /\ Stored = Told + Len(recvline)
    <2>1. Told \in Nat /\ Stored \in Nat
      BY <1>1, Offsets
    <2>2. Len(recvline) \in Nat
      BY <1>6
    <2>3. Told = Len(printed) /\ Stored = Told + Len(recvline)
      BY DEF Told, Stored
    <2>4. Len(avail) \in Nat /\ Len(rest) \in Nat
      BY <1>4
    <2> QED BY <2>1, <2>2, <2>3, <2>4, Constants
  <1>a. /\ SubSeq(avail, 1, n) \in Seq(Positions) /\ Len(SubSeq(avail, 1, n)) = n
        /\ From(avail, n + 1) \in Seq(Positions) /\ Len(From(avail, n + 1)) = Len(avail) - n
    BY <1>5, Parts
  <1>b. IsRun(SubSeq(avail, 1, n), Stored) /\ IsRun(From(avail, n + 1), Stored + n)
    <2>1. Stored \in Int /\ IsRun(avail, Stored)
      BY <1>4, <1>7
    <2> QED BY <1>5, <2>1, PartRun
  <1>8. PICK got \in Seq(Positions) : got = SubSeq(avail, 1, n) /\ Len(got) = n /\ IsRun(got, Stored)
    BY <1>a, <1>b
  <1>9. PICK left \in Seq(Positions) :
          left = From(avail, n + 1) /\ Len(left) = Len(avail) - n /\ IsRun(left, Stored + n)
    BY <1>a, <1>b
  <1>10. /\ recvBuf' = left /\ toClient' = rest
         /\ ends => printed' = printed \o recvline \o got /\ recvline' = <<>> /\ pc' = AfterRecv
         /\ ~ends => recvline' = recvline \o got /\ UNCHANGED <<printed, pc>>
    BY <1>5, <1>8, <1>9 DEF Arrives
  <1>11. got \in Seq(Positions \cup {0})
    BY <1>8
  <1>12. IsRun(printed, 0) /\ IsRun(recvline, Told)
    BY <1>3 DEF Straight
  (* What has been printed and stored, whether the answer ends or not. *)
  <1>13. PICK p \in Seq(Positions \cup {0}), r \in Seq(Positions) :
           /\ printed' = p /\ recvline' = r
           /\ IsRun(p, 0) /\ IsRun(r, Len(p))
           /\ Len(p) \in Nat /\ Len(r) \in Nat /\ Len(p) + Len(r) = Stored + n
           /\ IF ends THEN Len(p) = Stored + n /\ r = <<>> /\ Len(r) = 0
              ELSE Len(p) = Told /\ Len(r) = Len(recvline) + n
    <2>1. CASE ends
      <3>1. PICK q \in Seq(Positions \cup {0}) :
              q = printed \o recvline /\ Len(q) = Stored /\ IsRun(q, 0)
        <4>1. IsRun(recvline, 0 + Len(printed))
          BY <1>7, <1>12
        <4>2. /\ IsRun(printed \o recvline, 0) /\ printed \o recvline \in Seq(Positions \cup {0})
              /\ Len(printed \o recvline) = Len(printed) + Len(recvline)
          BY <1>6, <1>12, <4>1, CatRun
        <4> QED BY <1>7, <4>2
      <3>2. PICK p \in Seq(Positions \cup {0}) :
              p = q \o got /\ Len(p) = Stored + n /\ IsRun(p, 0)
        <4>1. IsRun(got, 0 + Len(q))
          BY <1>7, <1>8, <3>1
        <4>2. /\ IsRun(q \o got, 0) /\ q \o got \in Seq(Positions \cup {0})
              /\ Len(q \o got) = Len(q) + Len(got)
          <5>1. IsRun(q, 0)
            BY <3>1
          <5> QED BY <1>11, <4>1, <5>1, CatRun
        <4> QED BY <1>8, <3>1, <4>2
      <3>3. printed' = p /\ recvline' = <<>>
        BY <1>10, <2>1, <3>1, <3>2
      <3>4. <<>> \in Seq(Positions) /\ Len(<<>>) = 0 /\ IsRun(<<>>, Len(p))
        BY DEF IsRun
      <3>5. Stored + n \in Nat /\ (Stored + n) + 0 = Stored + n
        BY <1>7
      <3> QED BY <2>1, <3>2, <3>3, <3>4, <3>5
    <2>2. CASE ~ends
      <3>1. PICK r \in Seq(Positions) :
              r = recvline \o got /\ Len(r) = Len(recvline) + n /\ IsRun(r, Told)
        <4>1. IsRun(got, Told + Len(recvline))
          BY <1>7, <1>8
        <4>2. Told \in Int
          BY <1>7
        <4>3. /\ IsRun(recvline \o got, Told) /\ recvline \o got \in Seq(Positions)
              /\ Len(recvline \o got) = Len(recvline) + Len(got)
          BY <1>6, <1>12, <4>1, <4>2, CatRun
        <4> QED BY <1>8, <4>3
      <3>2. printed' = printed /\ recvline' = r
        BY <1>10, <2>2, <3>1
      <3>3. Len(recvline) + n \in Nat /\ Told + (Len(recvline) + n) = Stored + n
        BY <1>7
      <3> QED BY <1>6, <1>7, <1>12, <2>2, <3>1, <3>2, <3>3
    <2> QED BY <2>1, <2>2
  <1>14. ~ends => n = Len(avail) /\ Room - 1 \notin 1 .. Len(avail)
    BY <1>5 DEF Arrives
  <1>15. version # "sample" => Len(r) <= MAXLINE - 2
    <2> SUFFICES ASSUME version # "sample" PROVE Len(r) <= MAXLINE - 2
      OBVIOUS
    <2>1. Len(recvline) <= MAXLINE - 2 /\ Room = MAXLINE - Len(recvline)
      BY <1>1 DEF Sizes, Room, Limit
    <2>2. CASE ends
      BY <1>7, <1>13, <2>2
    <2>3. CASE ~ends
      <3>1. Len(avail) < Room - 1
        BY <1>7, <1>14, <2>1, <2>3
      <3> QED BY <1>7, <1>13, <1>14, <2>1, <2>3, <3>1
    <2> QED BY <2>2, <2>3
  <1>16. /\ pc' \in {"recv", "fgets", "select"} /\ (pc' = "select" => version = "select")
         /\ (pc' # "recv" => ends) /\ (version # "select" /\ ends => pc' = "fgets") /\ (~ends => pc' = "recv")
    BY <1>2, <1>10 DEF AfterRecv
  <1>17. TypeOK'
    <2>1. Len(left) <= MAXLINE
      BY <1>4, <1>7, <1>9
    <2>2. version # "sample" => Len(r) < MAXLINE
      BY <1>7, <1>13, <1>15
    <2> QED BY <1>1, <1>2, <1>4, <1>10, <1>13, <1>16, <2>1, <2>2 DEF TypeOK, LinesTypeOK, Positions
  <1>18. Sizes'
    BY <1>1, <1>2, <1>13, <1>15, <1>16 DEF Sizes
  <1>19. /\ Told' = Len(p) /\ Stored' = Stored + n /\ Buffered' = Stored + Len(avail) /\ Echoed' = Echoed
    <2>1. Told' = Len(p) /\ Stored' = Len(p) + Len(r)
      BY <1>13 DEF Told, Stored
    <2>2. Buffered' = Stored' + Len(left) /\ Echoed' = Buffered' + Len(rest)
      BY <1>10 DEF Buffered, Echoed
    <2>3. Stored' = Stored + n
      BY <1>13, <2>1
    <2>4. Buffered' = Stored + Len(avail)
      BY <1>7, <1>9, <2>2, <2>3
    <2>5. Echoed' = Echoed
      BY <1>4, <2>2, <2>4
    <2> QED BY <2>1, <2>3, <2>4, <2>5
  <1>20. Back'
    BY <1>4, <1>9, <1>10, <1>13, <1>17, <1>19, StraightIsBack DEF Straight
  <1>21. Sent' = Sent /\ Taken' = Taken /\ Filled' = Filled /\ Read' = Read
    BY <1>2, <1>19 DEF Sent, Taken, Filled, Read
  <1>22. ASSUME server = "up" PROVE Forth' /\ OneLine' /\ Finished'
    <2>1. Forth'
      <3>1. /\ IsRun(toServer', Echoed') /\ IsRun(line', Sent') /\ IsRun(stdio', Taken')
            /\ IsRun(pipe', Filled')
        BY <1>1, <1>2, <1>19, <1>21, <1>22 DEF Forth
      <3>2. Read' = typed' \/ (Read' = typed' + 1 /\ Extra')
        BY <1>1, <1>2, <1>21, <1>22 DEF Forth, Extra, Terminated
      <3>3. version' = "sample" /\ ~Terminated' /\ Read' = Len(input') => stdio' # <<>> \/ pipe' # <<>>
        BY <1>1, <1>2, <1>21, <1>22 DEF Forth, Terminated
      <3>4. (pc' # "recv" => recvline' = <<>>) /\ line' = <<>>
        BY <1>1, <1>2, <1>13, <1>16, <1>22 DEF Forth
      <3> QED BY <1>16, <3>1, <3>2, <3>3, <3>4 DEF Forth
    <2>2. OneLine'
      <3> SUFFICES ASSUME version # "select" PROVE OneLine'
        BY <1>2 DEF OneLine
      <3>1. Taken - Told <= Limit - 1 /\ \A q \in (Told + 1) .. (Taken - 1) : ~NL(q)
        BY <1>1, <1>2, <1>22 DEF OneLine
      <3>2. CASE ~ends
        <4>1. Told' = Told /\ Taken' = Taken /\ pc' = "recv"
          BY <1>13, <1>16, <1>19, <1>21, <3>2
        <4> QED BY <1>2, <3>1, <4>1 DEF OneLine, NL, Limit
      <3>3. CASE ends
        <4>1. pc' = "fgets" /\ n > 0 /\ (NL(avail[n]) \/ n = Room - 1)
          BY <1>5, <1>16, <3>3 DEF Arrives
        <4>2. PICK t \in Nat : t = Stored + n /\ Told' = t /\ t > Told
          BY <1>7, <1>13, <1>19, <3>3, <4>1
        <4>3. Taken \in Nat /\ t <= Taken
          <5>1. Taken \in Nat /\ Echoed <= Taken /\ Echoed \in Nat
            BY <1>1, Offsets
          <5>2. t <= Echoed
            BY <1>4, <1>7, <4>2
          <5> QED BY <5>1, <5>2
        <4>4. t = Taken
          <5>1. CASE NL(avail[n])
            <6>1. avail[n] = t
              BY <1>4, <1>7, <4>1, <4>2 DEF IsRun
            <6> QED BY <1>7, <3>1, <4>2, <4>3, <5>1, <6>1
          <5>2. CASE n = Room - 1
            <6>1. t = Told + (Limit - 1)
              <7>1. Limit \in Int
                BY <1>1, InputIs, Constants DEF Limit
              <7> QED BY <1>7, <4>2, <5>2, <7>1 DEF Room
            <6>2. Limit \in Int
              BY <1>1, InputIs, Constants DEF Limit
            <6> QED BY <1>7, <3>1, <4>3, <6>1, <6>2
          <5> QED BY <4>1, <5>1, <5>2
        <4> QED BY <1>2, <1>21, <4>1, <4>2, <4>4 DEF OneLine
      <3> QED BY <3>2, <3>3
    <2>3. Finished'
      <3>1. pc' # "done"
        BY <1>16
      <3>2. dialogue /\ closed => Told >= typed
        BY <1>1, <1>22 DEF Finished
      <3>3. PICK t \in Nat : Told' = t /\ t >= Told
        BY <1>7, <1>13, <1>19
      <3>4. typed \in Nat
        BY <1>1, InputIs
      <3>5. dialogue /\ closed => t >= typed
        BY <1>7, <3>2, <3>3, <3>4
      <3> QED BY <1>2, <3>1, <3>3, <3>5 DEF Finished
    <2> QED BY <2>1, <2>2, <2>3
  <1>23. ASSUME server # "up" PROVE Forth' /\ OneLine' /\ Finished'
    BY <1>2, <1>23 DEF Forth, OneLine, Finished
  <1> QED BY <1>17, <1>18, <1>20, <1>22, <1>23 DEF IInv

----------------------------------------------------------------------------
(* The invariant, and what the runs check. *)

LEMMA InitHas == Init => IInv
  <1> SUFFICES ASSUME Init PROVE IInv
    OBVIOUS
  <1>1. /\ version \in Versions /\ input \in Inputs /\ dialogue \in BOOLEAN
        /\ pipe = <<>> /\ typed = 0 /\ closed = FALSE /\ stdio = <<>> /\ line = <<>>
        /\ toServer = <<>> /\ toClient = <<>> /\ server = "up"
        /\ recvBuf = <<>> /\ recvline = <<>> /\ printed = <<>> /\ rset = {}
        /\ pc = IF version = "select" THEN "select" ELSE "fgets"
    BY DEF Init, LinesInit
  <1>2. Len(input) \in Nat
    BY <1>1, LineAssumption
  <1>3. TypeOK
    <2>1. typed \in 0 .. Len(input)
      BY <1>1, <1>2
    <2>2. \A s \in {pipe, stdio, line, toServer, toClient, recvBuf, recvline} :
            s \in Seq(Positions) /\ Len(s) = 0
      <3>1. <<>> \in Seq(Positions) /\ Len(<<>>) = 0
        OBVIOUS
      <3> QED BY <1>1, <3>1
    <2>3. printed \in Seq(Positions \cup {0})
      BY <1>1
    <2>4. /\ Len(toServer) <= Space /\ Len(toClient) <= Space /\ Len(recvBuf) <= MAXLINE
          /\ \A s \in {line, recvline} : Len(s) < MAXLINE
      BY <2>2, Constants
    <2>5. pc \in {"select", "fgets", "send", "recv"} \cup Ended
      BY <1>1
    <2> QED BY <1>1, <2>1, <2>2, <2>3, <2>4, <2>5 DEF TypeOK, LinesTypeOK
  <1>4. Sizes
    BY <1>1, Constants DEF Sizes
  <1>5. /\ Told = 0 /\ Stored = 0 /\ Buffered = 0 /\ Echoed = 0
        /\ Sent = 0 /\ Taken = 0 /\ Filled = 0 /\ Read = 0
    BY <1>1 DEF Told, Stored, Buffered, Echoed, Sent, Taken, Filled, Read
  <1>6. Back
    <2>1. 0 \in 0 .. Told /\ ToldFrom(0)
      BY <1>1, <1>5 DEF ToldFrom, IsRun
    <2> QED BY <2>1 DEF Back
  <1>7. Forth
    BY <1>1, <1>2, <1>5 DEF Forth, IsRun, Terminated
  <1>8. OneLine /\ Finished
    BY <1>1, <1>5 DEF OneLine, Finished
  <1> QED BY <1>3, <1>4, <1>6, <1>7, <1>8 DEF IInv

LEMMA NextKeeps == IInv /\ [Next]_vars => IInv'
  <1> SUFFICES ASSUME IInv, [Next]_vars PROVE IInv'
    OBVIOUS
  <1>1. CASE Select
    BY <1>1, SelectKeeps
  <1>2. CASE Calls /\ UNCHANGED rset
    BY <1>2, FgetsReadsKeeps, FgetsReturnsKeeps, FgetsEndsKeeps, SendKeeps, FailuresKeep,
       RecvKeeps, RecvEndsKeeps, StreamEndsKeeps DEF Calls
  <1>3. CASE Environment /\ UNCHANGED rset
    BY <1>3, UserTypesKeeps, UserClosesKeeps, ServerEchoesKeeps, ServerGoneKeeps DEF Environment
  <1>4. CASE UNCHANGED vars
    <2>1. TypeOK /\ Sizes /\ Back /\ Forth /\ OneLine /\ Finished
      BY DEF IInv
    <2>2. /\ UNCHANGED <<version, input, dialogue, pipe, typed, closed, stdio, line, toServer, toClient>>
          /\ UNCHANGED <<server, recvBuf, recvline, printed, pc, rset>>
      BY <1>4 DEF vars, lineVars, userVars, netVars, rigid
    <2>3. TypeOK' /\ Sizes' /\ Back'
      BY <2>1, <2>2, BackKeeps DEF TypeOK, LinesTypeOK, Positions, Sizes
    <2>4. /\ Told' = Told /\ Stored' = Stored /\ Buffered' = Buffered /\ Echoed' = Echoed
          /\ Sent' = Sent /\ Taken' = Taken /\ Filled' = Filled /\ Read' = Read
      BY <2>2 DEF Told, Stored, Buffered, Echoed, Sent, Taken, Filled, Read
    <2>5. Forth'
      BY <2>1, <2>2, <2>4 DEF Forth, Extra, IsRun, Terminated
    <2>6. OneLine' /\ Finished'
      BY <2>1, <2>2, <2>4 DEF OneLine, NL, Limit, Finished
    <2> QED BY <2>3, <2>5, <2>6 DEF IInv
  <1> QED BY <1>1, <1>2, <1>3, <1>4 DEF Next, Client, Around

THEOREM Invariant == Spec => []IInv
  BY InitHas, NextKeeps, PTL DEF Spec

(* Every buffer on the way holds bytes of the input, no more than it has   *)
(* room for: no line is longer than sendline, no answer than recvline, and *)
(* recv_buf holds MAXLINE bytes at most.                                   *)
THEOREM TypeCorrect == Spec => []TypeOK
  <1>1. IInv => TypeOK
    BY DEF IInv
  <1> QED BY <1>1, Invariant, PTL

LEMMA WholeWay ==
  ASSUME IInv, server = "up"
  PROVE  printed \o recvline \o recvBuf \o toClient \o toServer \o line \o stdio \o pipe = Bytes(1, Read)
  <1>1. TypeOK /\ Straight
    BY UpStraight DEF IInv
  <1>2. IsRun(toServer, Echoed) /\ IsRun(line, Sent) /\ IsRun(stdio, Taken) /\ IsRun(pipe, Filled)
    BY DEF IInv, Forth
  <1> DEFINE P == Positions \cup {0}
             s1 == printed \o recvline
             s2 == s1 \o recvBuf
             s3 == s2 \o toClient
             s4 == s3 \o toServer
             s5 == s4 \o line
             s6 == s5 \o stdio
             s7 == s6 \o pipe
  <1>3. /\ pipe \in Seq(P) /\ stdio \in Seq(P) /\ line \in Seq(P) /\ toServer \in Seq(P)
        /\ toClient \in Seq(P) /\ recvBuf \in Seq(P) /\ recvline \in Seq(P) /\ printed \in Seq(P)
    BY <1>1, Buffers
  <1>4. /\ Told \in Int /\ Stored \in Int /\ Buffered \in Int /\ Echoed \in Int
        /\ Sent \in Int /\ Taken \in Int /\ Filled \in Int
    BY <1>1, Offsets
  <1> HIDE DEF P
  <1>5. s1 \in Seq(P) /\ IsRun(s1, 0) /\ Len(s1) = Stored
    <2>1. IsRun(printed, 0) /\ IsRun(recvline, Told) /\ Len(printed) = Told
      BY <1>1 DEF Straight, Told
    <2>2. Stored = Told + Len(recvline)
      BY DEF Stored
    <2> QED BY <1>3, <1>4, <2>1, <2>2, Grow
  <1> HIDE DEF s1
  <1>6. s2 \in Seq(P) /\ IsRun(s2, 0) /\ Len(s2) = Buffered
    <2>1. IsRun(recvBuf, Stored)
      BY <1>1 DEF Straight
    <2>2. Buffered = Stored + Len(recvBuf)
      BY DEF Buffered
    <2> QED BY <1>3, <1>4, <1>5, <2>1, <2>2, Grow
  <1> HIDE DEF s2
  <1>7. s3 \in Seq(P) /\ IsRun(s3, 0) /\ Len(s3) = Echoed
    <2>1. IsRun(toClient, Buffered)
      BY <1>1 DEF Straight
    <2>2. Echoed = Buffered + Len(toClient)
      BY DEF Echoed
    <2> QED BY <1>3, <1>4, <1>6, <2>1, <2>2, Grow
  <1> HIDE DEF s3
  <1>8. s4 \in Seq(P) /\ IsRun(s4, 0) /\ Len(s4) = Sent
    <2>1. IsRun(toServer, Echoed)
      BY <1>2
    <2>2. Sent = Echoed + Len(toServer)
      BY DEF Sent
    <2> QED BY <1>3, <1>4, <1>7, <2>1, <2>2, Grow
  <1> HIDE DEF s4
  <1>9. s5 \in Seq(P) /\ IsRun(s5, 0) /\ Len(s5) = Taken
    <2>1. IsRun(line, Sent)
      BY <1>2
    <2>2. Taken = Sent + Len(line)
      BY DEF Taken
    <2> QED BY <1>3, <1>4, <1>8, <2>1, <2>2, Grow
  <1> HIDE DEF s5
  <1>10. s6 \in Seq(P) /\ IsRun(s6, 0) /\ Len(s6) = Filled
    <2>1. IsRun(stdio, Taken)
      BY <1>2
    <2>2. Filled = Taken + Len(stdio)
      BY DEF Filled
    <2> QED BY <1>3, <1>4, <1>9, <2>1, <2>2, Grow
  <1> HIDE DEF s6
  <1>11. s7 \in Seq(P) /\ IsRun(s7, 0) /\ Len(s7) = Read
    <2>1. IsRun(pipe, Filled)
      BY <1>2
    <2>2. Read = Filled + Len(pipe)
      BY DEF Read
    <2> QED BY <1>3, <1>4, <1>10, <2>1, <2>2, Grow
  <1>12. s7 = Bytes(1, Read)
    <2> HIDE DEF s7
    <2> QED BY <1>11, RunIsBytes
  <1> QED BY <1>12 DEF s1, s2, s3, s4, s5, s6

(* Nothing is lost, repeated or reordered between standard input, the      *)
(* server and standard output, whatever the interleaving of fgets(),       *)
(* send(), recv() and the echo, and what has been printed when the server  *)
(* has gone is still the start of the input.                               *)
THEOREM ArrivesInOrder == Spec => []InOrder
  <1>1. IInv => InOrder
    <2> SUFFICES ASSUME IInv PROVE InOrder
      OBVIOUS
    <2>1. TypeOK /\ Sizes /\ Back /\ Forth
      BY DEF IInv
    <2>2. server = "up" => Bytes(1, Read) \in {Bytes(1, typed), Whole(typed)}
      <3> SUFFICES ASSUME server = "up" PROVE Bytes(1, Read) \in {Bytes(1, typed), Whole(typed)}
        OBVIOUS
      <3>1. CASE Read = typed
        BY <3>1
      <3>2. CASE Read = typed + 1 /\ Extra
        BY <2>1, <3>2 DEF Extra, Whole, Sizes
      <3> QED BY <2>1, <3>1, <3>2 DEF Forth
    <2>3. PICK k \in 0 .. Told : ToldFrom(k)
      BY <2>1 DEF Back
    <2>4. /\ printed \in Seq(Positions \cup {0}) /\ Told = Len(printed) /\ Told \in Nat
          /\ recvline \in Seq(Positions) /\ Len(recvline) \in Nat
      BY <2>1, Buffers DEF Told
    <2>5. SubSeq(printed, 1, k) = Bytes(1, k)
      <3>1. PICK q \in Seq(Positions \cup {0}) :
              q = SubSeq(printed, 1, k) /\ Len(q) = k /\ \A j \in 1 .. k : q[j] = printed[j]
        <4>1. k \in 0 .. Len(printed)
          BY <2>4
        <4>2. /\ SubSeq(printed, 1, k) \in Seq(Positions \cup {0}) /\ Len(SubSeq(printed, 1, k)) = k
              /\ \A j \in 1 .. k : SubSeq(printed, 1, k)[j] = printed[j]
          BY <2>4, <4>1, Parts
        <4> QED BY <4>2
      <3>2. IsRun(q, 0)
        BY <2>3, <3>1 DEF IsRun, ToldFrom
      <3> QED BY <3>1, <3>2, RunIsBytes
    <2>6. Answer[1] \in {0, k + 1}
      <3>1. CASE Len(recvline) = 0
        BY <2>4, <3>1 DEF Answer
      <3>2. CASE Len(recvline) > 0
        BY <2>3, <2>4, <3>2 DEF Answer, ToldFrom, IsRun
      <3> QED BY <2>4, <3>1, <3>2
    <2>7. k < Told => version = "sample" /\ server # "up"
      BY <2>3 DEF ToldFrom
    <2>8. \A j \in (k + 1) .. Told :
            printed[j] = IF j <= k + Len(Answer) THEN Answer[j - k] ELSE printed[j - Len(Answer)]
      <3>1. CASE k = Told
        BY <2>4, <3>1
      <3>2. CASE k < Told
        BY <2>3, <3>2 DEF ToldFrom
      <3> QED BY <2>3, <2>4, <3>1, <3>2
    <2> QED BY <2>2, <2>4, <2>5, <2>6, <2>7, <2>8, WholeWay DEF InOrder, Answer
  <1> QED BY <1>1, Invariant, PTL

(* fgets() is called only when every byte sent has come back and has been  *)
(* printed, as long as the server runs: recv_until() has not stopped short *)
(* of the end of the line that fgets() returned, nor gone beyond it.       *)
THEOREM WaitsForEach == Spec => []StopAndWait
  <1>1. IInv => StopAndWait
    <2> SUFFICES ASSUME IInv, version # "select", pc = "fgets", server = "up"
                 PROVE  recvBuf \o toClient \o toServer \o line = <<>>
      BY DEF StopAndWait
    <2>1. TypeOK /\ Taken = Told
      BY DEF IInv, OneLine
    <2>2. /\ Len(recvBuf) = 0 /\ Len(toClient) = 0 /\ Len(toServer) = 0 /\ Len(line) = 0
      <3>1. /\ Len(recvline) \in Nat /\ Len(recvBuf) \in Nat /\ Len(toClient) \in Nat
            /\ Len(toServer) \in Nat /\ Len(line) \in Nat /\ Told \in Nat
        BY <2>1, Buffers, Offsets
      <3> QED BY <2>1, <3>1 DEF Stored, Buffered, Echoed, Sent, Taken
    <2>3. recvBuf = <<>> /\ toClient = <<>> /\ toServer = <<>> /\ line = <<>>
      BY <2>1, <2>2, Buffers
    <2> QED BY <2>3
  <1> QED BY <1>1, Invariant, PTL

(* A client whose input has ended and whose server still runs has printed  *)
(* the whole input when str_cli() returns, with the newline that the       *)
(* sample has added; the select() version only for a user who waits for    *)
(* his answers.                                                            *)
THEOREM EveryLineAnswered == Spec => []AllDone
  <1>1. IInv => AllDone
    <2> SUFFICES ASSUME IInv, pc = "done", server = "up", version # "select" \/ dialogue
                 PROVE  printed = Whole(Len(input))
      BY DEF AllDone
    <2>1. TypeOK /\ Sizes /\ Forth /\ Finished
      BY DEF IInv
    <2>2. closed /\ Read = Taken /\ typed = Len(input)
      BY <2>1 DEF Finished, Sizes
    <2>3. /\ Told \in Nat /\ Taken \in Nat /\ Filled \in Nat /\ Told <= Taken /\ Len(input) \in Nat
          /\ Len(stdio) \in Nat /\ Len(pipe) \in Nat
      BY <2>1, Offsets, Buffers, InputIs
    <2>4. Len(stdio) = 0 /\ Len(pipe) = 0
      BY <2>2, <2>3 DEF Read, Filled
    <2>5. stdio = <<>> /\ pipe = <<>>
      BY <2>1, <2>4, Buffers
    <2>6. Read = typed \/ (Read = typed + 1 /\ version = "sample" /\ ~Terminated)
      BY <2>1 DEF Forth, Extra
    <2>7. Told = Read
      <3>1. CASE version # "select"
        BY <2>1, <2>2, <3>1 DEF Finished
      <3>2. CASE version = "select"
        <4>1. Told >= typed
          BY <2>1, <2>2, <3>2 DEF Finished
        <4> QED BY <2>2, <2>3, <2>6, <3>2, <4>1
      <3> QED BY <3>1, <3>2
    <2>8. printed = Bytes(1, Told)
      <3>1. IsRun(printed, 0) /\ printed \in Seq(Positions \cup {0})
        BY <2>1, UpStraight, Buffers DEF IInv, Straight
      <3> QED BY <3>1, RunIsBytes DEF Told
    <2>9. CASE version = "sample" /\ ~Terminated
      <3>1. Read # Len(input)
        BY <2>1, <2>5, <2>9 DEF Forth
      <3> QED BY <2>2, <2>6, <2>7, <2>8, <2>9, <3>1 DEF Whole
    <2>10. CASE ~(version = "sample" /\ ~Terminated)
      BY <2>2, <2>6, <2>7, <2>8, <2>10 DEF Whole
    <2> QED BY <2>9, <2>10
  <1> QED BY <1>1, Invariant, PTL

=============================================================================
