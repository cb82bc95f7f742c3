--------------------------- MODULE SocketStream ---------------------------
(***************************************************************************)
(* The iostream of a TCPSocket: getStream() puts a SocketStreamBuffer with *)
(* a put area and a get area of a fixed size on top of sendAll() and       *)
(* recv(), which the user of the socket may also call directly.  One       *)
(* thread uses the socket, and may close it and connect it again: the      *)
(* stream and its buffers stay.  Bytes are numbers: the k-th byte somebody *)
(* offers is k.                                                            *)
(***************************************************************************)
EXTENDS Integers, Sequences, FiniteSets

CONSTANTS
  BufSize,    \* sizeof(outBuffer_) and sizeof(inBuffer_)
  SendSpace,  \* bytes the kernel takes while the peer does not read
  MaxPut,     \* bound on the bytes the user puts into the stream
  MaxDirect,  \* bound on the bytes of all direct sendAll() calls
  MaxPeer,    \* bound on the bytes the peer sends
  MaxClear,   \* bound on the calls of clear()
  MaxReopen   \* bound on the connections after the first

ASSUME StreamAssumption ==
  /\ BufSize \in Nat \ {0}
  /\ SendSpace \in Nat \ {0}
  /\ MaxPut \in Nat
  /\ MaxDirect \in Nat
  /\ MaxPeer \in Nat
  /\ MaxClear \in Nat
  /\ MaxReopen \in Nat

VARIABLES
  outBuf,   \* outBuffer_ up to pptr()
  inBuf,    \* inBuffer_ from gptr() to egptr()
  rdstate,  \* error bits of the iostream, common to input and output
  nclear,   \* calls of clear()
  call,     \* the call the user is in, "none", or "killed" by SIGPIPE
  ch,       \* the byte overflow() was called with
  ptr,      \* bytes of outBuf that the last sendAll() of it has sent
  nleft,    \* nleft of a direct sendAll()
  nput,     \* bytes offered to the stream
  written,  \* those of them it has taken, in order
  streamed, \* bytes the stream has put on the connection
  direct,   \* bytes direct calls have put on the connection
  resent,   \* a sync() has started over on a put area that was sent in part
  nsent,    \* bytes the peer has sent
  inq,      \* those the process has not received
  got,      \* bytes taken from the stream
  taken,    \* bytes direct recv() calls have returned
  unread,   \* bytes on the connection that the peer has not read
  nreopen,  \* connections after the first
  dropped,  \* bytes of the peer that close() has thrown away
  fin, dead, err  \* the peer's stream has ended; the connection is gone; pending
                  \* error, EBADF of all calls after close()

outVars == <<outBuf, ptr, ch, nleft, nput, written, streamed, direct, resent>>
inVars == <<inBuf, got, taken>>
netVars == <<nsent, inq, dropped, nreopen, fin, dead, err>>
iosVars == <<rdstate, nclear>>
streamVars == <<outVars, inVars, netVars, iosVars, call, unread>>

Calls == {"none", "flush", "put", "sendAll", "get", "recv", "killed"}
Bits == {"bad", "eof", "fail"}
Errors == {"none", "ECONNRESET", "EPIPE", "EBADF"}

StreamTypeOK ==
  /\ outBuf \in Seq(1 .. MaxPut) /\ Len(outBuf) <= BufSize
  /\ inBuf \in Seq(1 .. MaxPeer) /\ Len(inBuf) <= BufSize
  /\ rdstate \subseteq Bits
  /\ nclear \in 0 .. MaxClear
  /\ call \in Calls
  /\ ch \in 0 .. MaxPut
  /\ ptr \in 0 .. Len(outBuf)
  /\ nleft \in 0 .. MaxDirect
  /\ nput \in 0 .. MaxPut
  /\ written \in Seq(1 .. MaxPut)
  /\ streamed \in Seq(1 .. MaxPut)
  /\ direct \in 0 .. MaxDirect
  /\ resent \in BOOLEAN
  /\ nsent \in 0 .. MaxPeer
  /\ inq \in Seq(1 .. MaxPeer)
  /\ got \in Seq(1 .. MaxPeer)
  /\ taken \in Seq(1 .. MaxPeer)
  /\ unread \in 0 .. SendSpace
  /\ nreopen \in 0 .. MaxReopen
  /\ dropped \subseteq 1 .. MaxPeer
  /\ fin \in BOOLEAN /\ dead \in BOOLEAN
  /\ err \in Errors

StreamInit ==
  /\ outBuf = <<>> /\ inBuf = <<>>
  /\ rdstate = {} /\ nclear = 0
  /\ call = "none"
  /\ ch = 0 /\ ptr = 0 /\ nleft = 0 /\ nput = 0
  /\ written = <<>> /\ streamed = <<>> /\ direct = 0
  /\ resent = FALSE
  /\ nsent = 0 /\ inq = <<>> /\ got = <<>> /\ taken = <<>>
  /\ unread = 0
  /\ nreopen = 0 /\ dropped = {}
  /\ fin = FALSE /\ dead = FALSE /\ err = "none"

----------------------------------------------------------------------------
(* Output through the stream. *)

Rest == SubSeq(outBuf, ptr + 1, Len(outBuf))

\* sync() starts: sendAll(outBuffer_, pptr() - outBuffer_).
SyncStarts ==
  /\ ptr' = 0
  /\ resent' = (resent \/ ptr > 0)

\* ostream::put(), operator<<: the sentry refuses on any error bit; sputc()
\* stores the byte or calls overflow().
Put ==
  /\ call = "none"
  /\ nput < MaxPut
  /\ nput' = nput + 1
  /\ IF rdstate # {}
     THEN /\ rdstate' = rdstate \cup {"fail"}
          /\ UNCHANGED <<outBuf, ptr, resent, written, ch, call>>
     ELSE IF Len(outBuf) < BufSize
     THEN /\ outBuf' = Append(outBuf, nput + 1)
          /\ written' = Append(written, nput + 1)
          /\ UNCHANGED <<ptr, resent, rdstate, ch, call>>
     ELSE /\ call' = "put"
          /\ ch' = nput + 1
          /\ SyncStarts
          /\ UNCHANGED <<outBuf, written, rdstate>>
  /\ UNCHANGED <<nclear, nleft, streamed, direct, inVars, netVars, unread>>

\* ostream::flush(), an output function with a sentry since C++11.
Flush ==
  /\ call = "none"
  /\ IF rdstate # {}
     THEN rdstate' = rdstate \cup {"fail"} /\ UNCHANGED <<ptr, resent, call>>
     ELSE call' = "flush" /\ SyncStarts /\ UNCHANGED rdstate
  /\ UNCHANGED <<nclear, outBuf, ch, nleft, nput, written, streamed, direct, inVars, netVars, unread>>

\* Defect: a short write counts as a whole one.
SyncSends_whole ==
  /\ call \in {"flush", "put"}
  /\ ~dead
  /\ \E n \in 1 .. Len(Rest) :
       /\ unread + n <= SendSpace
       /\ streamed' = streamed \o SubSeq(Rest, 1, n)
       /\ unread' = unread + n
  /\ ptr' = Len(outBuf)
  /\ UNCHANGED <<outBuf, ch, nleft, nput, written, direct, resent, inVars, netVars, iosVars, call>>

\* One send() of sendAll(), which may take less than it is given.
SyncSends ==
  /\ call \in {"flush", "put"}
  /\ ~dead
  /\ \E n \in 1 .. Len(Rest) :
       /\ unread + n <= SendSpace
       /\ streamed' = streamed \o SubSeq(Rest, 1, n)
       /\ unread' = unread + n
       /\ ptr' = ptr + n
  /\ UNCHANGED <<outBuf, ch, nleft, nput, written, direct, resent, inVars, netVars, iosVars, call>>

\* Defect: overflow() does not reset the put area.
SyncReturns_full ==
  /\ call \in {"flush", "put"}
  /\ Rest = <<>>
  /\ ptr' = 0
  /\ IF call = "put"
     THEN outBuf' = Append(outBuf, ch) /\ written' = Append(written, ch)
     ELSE outBuf' = <<>> /\ UNCHANGED written
  /\ call' = "none"
  /\ ch' = 0
  /\ UNCHANGED <<nleft, nput, streamed, direct, resent, inVars, netVars, iosVars, unread>>

\* sendAll() returns: setp(), and overflow() stores its byte.
SyncReturns ==
  /\ call \in {"flush", "put"}
  /\ Rest = <<>>
  /\ ptr' = 0
  /\ IF call = "put"
     THEN outBuf' = <<ch>> /\ written' = Append(written, ch)
     ELSE outBuf' = <<>> /\ UNCHANGED written
  /\ call' = "none"
  /\ ch' = 0
  /\ UNCHANGED <<nleft, nput, streamed, direct, resent, inVars, netVars, iosVars, unread>>

----------------------------------------------------------------------------
(* Input through the stream. *)

Chunk(n) == SubSeq(inq, 1, IF Len(inq) < n THEN Len(inq) ELSE n)
After(n) == SubSeq(inq, Len(Chunk(n)) + 1, Len(inq))

\* istream::get(): a byte of the get area, or underflow().
Get ==
  /\ call = "none"
  /\ IF rdstate # {}
     THEN rdstate' = rdstate \cup {"fail"} /\ UNCHANGED <<inBuf, got, call>>
     ELSE IF inBuf # <<>>
     THEN got' = Append(got, Head(inBuf)) /\ inBuf' = Tail(inBuf) /\ UNCHANGED <<rdstate, call>>
     ELSE call' = "get" /\ UNCHANGED <<inBuf, got, rdstate>>
  /\ UNCHANGED <<nclear, outVars, taken, netVars, unread>>

\* Defect: the byte returned stays in the get area.
UnderflowFills_kept ==
  /\ call = "get"
  /\ inq # <<>>
  /\ inBuf' = Chunk(BufSize)
  /\ got' = Append(got, Head(inq))
  /\ inq' = After(BufSize)
  /\ call' = "none"
  /\ UNCHANGED <<outVars, taken, iosVars, nsent, dropped, nreopen, fin, dead, err, unread>>

\* recv() returns bytes: setg(), and the first one goes to the user.
UnderflowFills ==
  /\ call = "get"
  /\ inq # <<>>
  /\ inBuf' = Tail(Chunk(BufSize))
  /\ got' = Append(got, Head(inq))
  /\ inq' = After(BufSize)
  /\ call' = "none"
  /\ UNCHANGED <<outVars, taken, iosVars, nsent, dropped, nreopen, fin, dead, err, unread>>

\* recv() returns 0: eof().
UnderflowEnds ==
  /\ call = "get"
  /\ inq = <<>>
  /\ fin \/ (dead /\ err = "none")
  /\ rdstate' = rdstate \cup {"eof", "fail"}
  /\ call' = "none"
  /\ UNCHANGED <<nclear, outVars, inVars, netVars, unread>>

\* ios::clear().
Clear ==
  /\ call = "none"
  /\ rdstate # {}
  /\ nclear < MaxClear
  /\ nclear' = nclear + 1
  /\ rdstate' = {}
  /\ UNCHANGED <<outVars, inVars, netVars, call, unread>>

----------------------------------------------------------------------------
(* Direct calls. *)

SendAll ==
  /\ call = "none"
  /\ \E n \in 1 .. (MaxDirect - direct) : nleft' = n
  /\ call' = "sendAll"
  /\ UNCHANGED <<outBuf, ptr, ch, nput, written, streamed, direct, resent,
                 inVars, netVars, iosVars, unread>>

\* Defect: while (nleft >= 0).
SendAllSends_again ==
  /\ call = "sendAll"
  /\ ~dead
  /\ \E n \in 1 .. nleft :
       /\ unread + n <= SendSpace
       /\ nleft' = nleft - n
       /\ direct' = direct + n
       /\ unread' = unread + n
  /\ UNCHANGED <<outBuf, ptr, ch, nput, written, streamed, resent, inVars, netVars, iosVars, call>>

SendAllSends ==
  /\ call = "sendAll"
  /\ ~dead
  /\ \E n \in 1 .. nleft :
       /\ unread + n <= SendSpace
       /\ nleft' = nleft - n
       /\ direct' = direct + n
       /\ unread' = unread + n
  /\ call' = IF nleft' = 0 THEN "none" ELSE "sendAll"
  /\ UNCHANGED <<outBuf, ptr, ch, nput, written, streamed, resent, inVars, netVars, iosVars>>

Recv ==
  /\ call = "none"
  /\ call' = "recv"
  /\ UNCHANGED <<outVars, inVars, netVars, iosVars, unread>>

RecvReturns ==
  /\ call = "recv"
  /\ \/ /\ inq # <<>>
        /\ \E n \in 1 .. Len(inq) : taken' = taken \o Chunk(n) /\ inq' = After(n)
     \/ /\ inq = <<>>
        /\ fin \/ (dead /\ err = "none")
        /\ UNCHANGED <<taken, inq>>
  /\ call' = "none"
  /\ UNCHANGED <<outVars, inBuf, got, nsent, dropped, nreopen, fin, dead, err, iosVars, unread>>

----------------------------------------------------------------------------
(* Failures. *)

Sending == (call \in {"flush", "put"} /\ Rest # <<>>) \/ call = "sendAll"
Receiving == call \in {"get", "recv"} /\ inq = <<>> /\ ~fin

\* Defect: badbit is not set.
Throw_swallowed ==
  /\ call' = "none"
  /\ ch' = 0
  /\ nleft' = 0
  /\ UNCHANGED <<outBuf, ptr, nput, written, streamed, direct, resent, inVars,
                 iosVars, nsent, inq, dropped, nreopen, fin, dead, unread>>

\* sys_error() throws.  The exception leaves sync() before setp(); the
\* iostream catches it and sets badbit, a direct call passes it on.
Throw ==
  /\ rdstate' = IF call \in {"flush", "put", "get"} THEN rdstate \cup {"bad"} ELSE rdstate
  /\ call' = "none"
  /\ ch' = 0
  /\ nleft' = 0
  /\ UNCHANGED <<outBuf, ptr, nput, written, streamed, direct, resent, inVars,
                 nclear, nsent, inq, dropped, nreopen, fin, dead, unread>>

\* send() or recv() reports the pending error of the connection.
CallFails ==
  /\ dead
  /\ \/ Sending /\ err \in {"ECONNRESET", "EBADF"}
     \/ Receiving /\ err # "none"
  /\ err' = IF err = "EBADF" THEN "EBADF" ELSE "none"
  /\ Throw

\* EINTR: a signal handler runs while the call waits.
CallInterrupted ==
  /\ ~dead
  /\ (Sending /\ unread = SendSpace) \/ Receiving
  /\ Throw
  /\ UNCHANGED err

\* send() on a connection that is known to be gone raises SIGPIPE.
SendKills ==
  /\ Sending
  /\ dead /\ err \notin {"ECONNRESET", "EBADF"}
  /\ call' = "killed"
  /\ UNCHANGED <<outVars, inVars, netVars, iosVars, unread>>

----------------------------------------------------------------------------
(* close() and open() with connect().  Neither touches the stream, its      *)
(* buffers or its error bits.                                               *)

CloseSocket ==
  /\ call = "none"
  /\ err # "EBADF"
  /\ dead' = TRUE /\ err' = "EBADF" /\ fin' = FALSE
  /\ dropped' = dropped \cup {inq[k] : k \in 1 .. Len(inq)}
  /\ inq' = <<>>
  /\ unread' = 0
  /\ UNCHANGED <<outVars, inVars, iosVars, call, nsent, nreopen>>

Reopen ==
  /\ call = "none"
  /\ err = "EBADF"
  /\ nreopen < MaxReopen
  /\ nreopen' = nreopen + 1
  /\ dead' = FALSE /\ err' = "none"
  /\ UNCHANGED <<outVars, inVars, iosVars, call, nsent, inq, dropped, fin, unread>>

----------------------------------------------------------------------------
(* The peer. *)

PeerSends ==
  /\ nsent < MaxPeer /\ ~fin /\ ~dead
  /\ nsent' = nsent + 1
  /\ inq' = Append(inq, nsent + 1)
  /\ UNCHANGED <<outVars, inVars, iosVars, call, unread, dropped, nreopen, fin, dead, err>>

PeerReads ==
  /\ unread > 0 /\ ~dead
  /\ unread' = unread - 1
  /\ UNCHANGED <<outVars, inVars, netVars, iosVars, call>>

PeerEnds ==
  /\ ~fin /\ ~dead
  /\ fin' = TRUE
  /\ UNCHANGED <<outVars, inVars, iosVars, call, unread, nsent, inq, dropped, nreopen, dead, err>>

PeerResets ==
  /\ ~dead
  /\ dead' = TRUE
  /\ err' = IF fin THEN "EPIPE" ELSE "ECONNRESET"
  /\ UNCHANGED <<outVars, inVars, iosVars, call, unread, nsent, inq, dropped, nreopen, fin>>

----------------------------------------------------------------------------
System ==
  \/ SyncSends \/ SyncReturns
  \/ UnderflowFills \/ UnderflowEnds
  \/ SendAllSends \/ RecvReturns
  \/ CallFails \/ SendKills

User == Put \/ Flush \/ Get \/ Clear \/ SendAll \/ Recv \/ CloseSocket \/ Reopen

Peer == PeerSends \/ PeerReads \/ PeerEnds \/ PeerResets

StreamNext == System \/ CallInterrupted \/ User \/ Peer

StreamSpec == StreamInit /\ [][StreamNext]_streamVars

(* A call that can go on does, and the peer reads what it is sent. *)
FairSpec == StreamSpec /\ WF_streamVars(System) /\ WF_streamVars(PeerReads)

----------------------------------------------------------------------------
(* What must hold. *)

\* What the stream has put on its connections, followed by the rest of the put
\* area, is what the user has written, through all short writes, overflows and
\* failures, unless a sync() has started over on a put area sent in part.
\* What has not been flushed before close() goes out on the next connection.
OutputIntact == ~resent => streamed \o Rest = written

\* Even then bytes are only repeated: none reaches the peer before all those
\* written before it have.
NoByteSkipped ==
  \A k \in 1 .. Len(streamed) : \A b \in 1 .. (streamed[k] - 1) :
    (\E j \in 1 .. Len(written) : written[j] = b) => \E j \in 1 .. (k - 1) : streamed[j] = b

\* A flush() that leaves the stream good has brought everything written to the
\* kernel.
FlushDelivers ==
  [][call = "flush" /\ call' = "none" /\ rdstate' = {}
       => \A j \in 1 .. Len(written) : \E k \in 1 .. Len(streamed) : streamed[k] = written[j]]_streamVars

\* Each byte of a peer is delivered once, by the stream or by a direct recv(),
\* or close() has dropped it; and each of the two delivers in order, although
\* the get area may hold bytes older than those recv() returns, those of the
\* last connection among them.
InputIntact ==
  /\ \A s \in {got \o inBuf, taken} : \A j, k \in 1 .. Len(s) : j < k => s[j] < s[k]
  /\ \A b \in 1 .. nsent :
       Cardinality({<<1, k>> : k \in {j \in 1 .. Len(got) : got[j] = b}}
         \cup {<<2, k>> : k \in {j \in 1 .. Len(inBuf) : inBuf[j] = b}}
         \cup {<<3, k>> : k \in {j \in 1 .. Len(taken) : taken[j] = b}}
         \cup {<<4, k>> : k \in {j \in 1 .. Len(inq) : inq[j] = b}}
         \cup {<<5, 1>> : k \in dropped \cap {b}}) = 1

\* A call that sends returns, throws or ends the process, provided that the
\* peer reads.
SendingEnds == call \in {"flush", "put", "sendAll"} ~> call \in {"none", "killed"}
============================================================================
