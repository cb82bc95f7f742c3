----------------------------- MODULE LineClient -----------------------------
(***************************************************************************)
(* What the versions of the echo client's str_cli() are made of: fgets()   *)
(* on a buffered FILE, send_all(), and recv_until() with its static        *)
(* buffer, or getline() and sendAll() of the sample program, between a     *)
(* user who types into standard input and an echo server at the other end  *)
(* of a connection.                                                        *)
(*                                                                         *)
(* Byte k is the k-th byte of the input; input[k] says whether it is a     *)
(* newline.  Byte Len(input) + 1 is the newline that the sample sends      *)
(* after a last line that has none.                                        *)
(***************************************************************************)
EXTENDS Integers, Sequences, FiniteSets

CONSTANTS
  Inputs,      \* what the user may type: sequences over {"x", "nl"}
  MAXLINE,     \* size of sendline, recvline, recv_buf and inBuffer_
  Space        \* bytes a direction of the connection holds

ASSUME LineAssumption ==
  /\ \A in \in Inputs : in \in Seq({"x", "nl"})
  /\ MAXLINE \in Nat /\ MAXLINE > 1
  /\ Space \in Nat /\ Space >= MAXLINE

VARIABLES
  version,  \* "plain", "timed" (plain, with SO_RCVTIMEO), "select" or "sample"
  input,    \* what the user types in this run
  dialogue, \* whether he types a line only when the last one has been answered
  pipe,     \* bytes in standard input that have not been read
  typed,    \* how many bytes the user has typed
  closed,   \* the user has closed standard input
  stdio,    \* the buffer of fp
  line,     \* what is left of sendline to be sent
  toServer, toClient,  \* the two directions of the connection
  server,   \* "up", "closed", "refusing" (a reset is on its way) or "reset"
  recvBuf,  \* recv_buf from recv_ptr, recv_cnt bytes, or what is left in inBuffer_
  recvline, \* what recv_until() or getline() has stored
  printed,  \* what has been written; 0 is a newline after an answer cut short
  pc        \* the blocking call the client is in, or how it ended

rigid == <<version, input, dialogue>>
userVars == <<rigid, pipe, typed, closed>>
netVars == <<toServer, toClient, server>>
lineVars == <<userVars, stdio, line, netVars, recvBuf, recvline, printed, pc>>

Positions == 1 .. Len(input) + 1
Versions == {"plain", "timed", "select", "sample"}
Ended == {"done", "quit", "killed"}

LinesTypeOK ==
  /\ version \in Versions
  /\ input \in Inputs
  /\ dialogue \in BOOLEAN
  /\ typed \in 0 .. Len(input)
  /\ closed \in BOOLEAN
  /\ \A s \in {pipe, stdio, line, toServer, toClient, recvBuf, recvline} : s \in Seq(Positions)
  /\ printed \in Seq(Positions \cup {0})
  /\ \A s \in {line, recvline} : version # "sample" => Len(s) < MAXLINE
  /\ Len(toServer) <= Space /\ Len(toClient) <= Space /\ Len(recvBuf) <= MAXLINE
  /\ server \in {"up", "closed", "refusing", "reset"}
  /\ pc \in {"select", "fgets", "send", "recv"} \cup Ended

LinesInit ==
  /\ version \in Versions
  /\ input \in Inputs
  /\ dialogue \in BOOLEAN
  /\ pipe = <<>> /\ typed = 0 /\ closed = FALSE
  /\ stdio = <<>> /\ line = <<>>
  /\ toServer = <<>> /\ toClient = <<>> /\ server = "up"
  /\ recvBuf = <<>> /\ recvline = <<>> /\ printed = <<>>

\* Bytes from .. to of the input.
Bytes(from, to) == [k \in 1 .. (to - from + 1) |-> from + k - 1]

\* What fgets() and recv_until() may store, null included; a string grows.
Limit == IF version = "sample" THEN Len(input) + 3 ELSE MAXLINE

\* How much of s is a line, or as much of one as fits into size - 1 bytes.
Newlines(s) == {k \in 1 .. Len(s) : s[k] > Len(input) \/ input[s[k]] = "nl"}
LineEnds(s, size) == (Newlines(s) \cup {size - 1}) \cap 1 .. Len(s)
LineLen(s, size) ==
  IF LineEnds(s, size) = {} THEN Len(s)
  ELSE CHOOSE k \in LineEnds(s, size) : \A m \in LineEnds(s, size) : k <= m
From(s, k) == SubSeq(s, k, Len(s))

----------------------------------------------------------------------------
(* The user and the server. *)

\* What the user waits for in a dialogue.
Answered == Len(printed) >= typed \/ server # "up"

\* A terminal passes on whole lines; a file or another program any bytes.
UserTypes ==
  /\ typed < Len(input)
  /\ IF dialogue
     THEN /\ Answered
          /\ typed' = typed + LineLen(Bytes(typed + 1, Len(input)), Len(input) + 1)
     ELSE typed' \in (typed + 1) .. Len(input)
  /\ pipe' = pipe \o Bytes(typed + 1, typed')
  /\ UNCHANGED <<rigid, closed, stdio, line, netVars, recvBuf, recvline, printed, pc>>

UserCloses ==
  /\ typed = Len(input) /\ ~closed
  /\ dialogue => Answered
  /\ closed' = TRUE
  /\ UNCHANGED <<rigid, pipe, typed, stdio, line, netVars, recvBuf, recvline, printed, pc>>

ServerEchoes ==
  /\ server = "up"
  /\ \E n \in 1 .. Len(toServer) :
       /\ Len(toClient) + n <= Space
       /\ toClient' = toClient \o SubSeq(toServer, 1, n)
       /\ toServer' = From(toServer, n + 1)
  /\ UNCHANGED <<userVars, stdio, line, server, recvBuf, recvline, printed, pc>>

\* The server process ends, perhaps with bytes it has received and not echoed,
\* or with bytes it has not received, which brings a reset.
ServerEnds ==
  /\ server = "up"
  /\ server' \in {"closed"} \cup IF toServer = <<>> THEN {} ELSE {"reset"}
  /\ toServer' = <<>>
  /\ UNCHANGED <<userVars, stdio, line, toClient, recvBuf, recvline, printed, pc>>

ResetArrives ==
  /\ server = "refusing"
  /\ server' = "reset"
  /\ UNCHANGED <<userVars, stdio, line, toServer, toClient, recvBuf, recvline, printed, pc>>

Environment == UserTypes \/ UserCloses \/ ServerEchoes \/ ServerEnds \/ ResetArrives

----------------------------------------------------------------------------
(* fgets(sendline, MAXLINE, fp), or getline(in, sendline) *)

HasLine(s) == LineEnds(s, Limit) # {}

\* The newline after a last line that has none: sendline += '\\n'.
Added == IF version = "sample" /\ ~HasLine(stdio) THEN <<Len(input) + 1>> ELSE <<>>

\* fgets(sendline, MAXLINE + 1, fp).
FgetsReturns_long ==
  /\ pc = "fgets"
  /\ HasLine(stdio) \/ (pipe = <<>> /\ closed /\ stdio # <<>>)
  /\ line' = SubSeq(stdio, 1, LineLen(stdio, MAXLINE + 1))
  /\ stdio' = From(stdio, LineLen(stdio, MAXLINE + 1) + 1)
  /\ pc' = "send"
  /\ UNCHANGED <<userVars, netVars, recvBuf, recvline, printed>>

\* A last line without a newline is dropped.
FgetsEnds_early ==
  /\ pc = "fgets"
  /\ ~HasLine(stdio) /\ pipe = <<>> /\ closed
  /\ pc' = "done"
  /\ UNCHANGED <<userVars, stdio, line, netVars, recvBuf, recvline, printed>>

\* read(2) fills the buffer of fp.
FgetsReads ==
  /\ pc = "fgets"
  /\ ~HasLine(stdio)
  /\ pipe # <<>>
  /\ stdio' = stdio \o pipe
  /\ pipe' = <<>>
  /\ UNCHANGED <<rigid, typed, closed, line, netVars, recvBuf, recvline, printed, pc>>

FgetsReturns ==
  /\ pc = "fgets"
  /\ HasLine(stdio) \/ (pipe = <<>> /\ closed /\ stdio # <<>>)
  /\ line' = SubSeq(stdio, 1, LineLen(stdio, Limit)) \o Added
  /\ stdio' = From(stdio, LineLen(stdio, Limit) + 1)
  /\ pc' = "send"
  /\ UNCHANGED <<userVars, netVars, recvBuf, recvline, printed>>

\* End of file: str_cli() returns, and the process exits.
FgetsEnds ==
  /\ pc = "fgets"
  /\ stdio = <<>> /\ pipe = <<>> /\ closed
  /\ pc' = "done"
  /\ UNCHANGED <<userVars, stdio, line, netVars, recvBuf, recvline, printed>>

----------------------------------------------------------------------------
(* send_all(sockfd, sendline, strlen(sendline)), or sendAll() *)

\* send() instead of send_all().
Send_once(next) ==
  /\ pc = "send"
  /\ server = "up"
  /\ \E n \in 1 .. Len(line) :
       /\ Len(toServer) + n <= Space
       /\ toServer' = toServer \o SubSeq(line, 1, n)
  /\ line' = <<>>
  /\ pc' = next
  /\ UNCHANGED <<userVars, server, stdio, toClient, recvBuf, recvline, printed>>

\* One send(); bytes for a server that has gone bring a reset.
Send(next) ==
  /\ pc = "send"
  /\ server # "reset"
  /\ \E n \in 1 .. Len(line) :
       /\ IF server = "up"
          THEN /\ Len(toServer) + n <= Space
               /\ toServer' = toServer \o SubSeq(line, 1, n)
               /\ UNCHANGED server
          ELSE server' = "refusing" /\ UNCHANGED toServer
       /\ line' = From(line, n + 1)
  /\ pc' = IF line' = <<>> THEN next ELSE "send"
  /\ UNCHANGED <<userVars, stdio, toClient, recvBuf, recvline, printed>>

\* err_quit("send_all error"), an exception that nothing catches, or SIGPIPE.
SendFails ==
  /\ pc = "send"
  /\ server = "reset"
  /\ pc' \in {"quit", "killed"}
  /\ UNCHANGED <<userVars, stdio, line, netVars, recvBuf, recvline, printed>>

----------------------------------------------------------------------------
(* recv_until(sockfd, recvline, MAXLINE, '\n') and fputs(recvline, stdout), *)
(* or getline(sockStream, recvline) and cout << recvline << endl           *)

Chunk == SubSeq(toClient, 1, IF Len(toClient) < MAXLINE THEN Len(toClient) ELSE MAXLINE)

\* Space in recvline, its closing null included; and n <= maxlen, n < maxlen - 1.
Room_more == Limit - Len(recvline) + 1
Room_less == Limit - Len(recvline) - 1
Room == Limit - Len(recvline)

\* The sample's stream has ended: its eofbit or badbit is set.
StreamEnded == \E k \in DOMAIN printed : printed[k] = 0

\* my_recv() takes bytes from recv_buf, which recv() fills when it is empty, and
\* getline() from inBuffer_, which underflow() fills.
Recv(next) ==
  /\ pc = "recv" /\ ~StreamEnded
  /\ recvBuf # <<>> \/ toClient # <<>>
  /\ LET avail == IF recvBuf # <<>> THEN recvBuf ELSE Chunk
         taken == SubSeq(avail, 1, LineLen(avail, Room))
     IN  /\ recvBuf' = From(avail, Len(taken) + 1)
         /\ toClient' = IF recvBuf # <<>> THEN toClient ELSE From(toClient, Len(Chunk) + 1)
         /\ IF LineEnds(avail, Room) # {}
            THEN printed' = printed \o recvline \o taken /\ recvline' = <<>> /\ pc' = next
            ELSE recvline' = recvline \o taken /\ UNCHANGED <<printed, pc>>
  /\ UNCHANGED <<userVars, stdio, line, toServer, server>>

AtEnd == recvBuf = <<>> /\ toClient = <<>> /\ server \in {"closed", "refusing"}

\* recv() returns 0: what has been stored is printed, nothing stored is an error.
RecvEnds(next) ==
  /\ version # "sample"
  /\ pc = "recv"
  /\ AtEnd
  /\ pc' = IF recvline = <<>> THEN "quit" ELSE next
  /\ printed' = printed \o recvline
  /\ recvline' = <<>>
  /\ UNCHANGED <<userVars, stdio, line, netVars, recvBuf>>

\* A reset also discards what was on its way to the client.
RecvFails ==
  /\ version # "sample"
  /\ pc = "recv"
  /\ recvBuf = <<>> /\ server = "reset"
  /\ pc' = "quit"
  /\ UNCHANGED <<userVars, stdio, line, netVars, recvBuf, recvline, printed>>

\* Nobody looks at the state of the sample's stream, and the stream swallows
\* the exception of recv(): what there is of the answer is printed, and the
\* same again for every later line, for which getline() does nothing.
StreamEnds(next) ==
  /\ version = "sample"
  /\ pc = "recv"
  /\ StreamEnded \/ AtEnd \/ (recvBuf = <<>> /\ server = "reset")
  /\ printed' = printed \o recvline \o <<0>>
  /\ pc' = next
  /\ UNCHANGED <<userVars, stdio, line, netVars, recvBuf, recvline>>

----------------------------------------------------------------------------
(* Nothing is lost on the way. *)

Terminated == Len(input) > 0 => input[Len(input)] = "nl"

\* What the user has typed, and the newline the sample adds.
Whole(n) == Bytes(1, IF version = "sample" /\ ~Terminated /\ n = Len(input) THEN n + 1 ELSE n)

\* While the server runs nothing is lost, repeated or reordered on the way
\* through the buffers of standard input, the connection, recv_until() or the
\* stream, and standard output.  Whatever happens to the server, what has been
\* printed is the start of the input; only the sample follows it with one
\* answer cut short, over and over.
InOrder ==
  /\ server = "up" =>
       printed \o recvline \o recvBuf \o toClient \o toServer \o line \o stdio \o pipe
         \in {Bytes(1, typed), Whole(typed)}
  /\ \E k \in 0 .. Len(printed) :
       LET cut == recvline \o <<0>>
       IN  /\ SubSeq(printed, 1, k) = Bytes(1, k)
           /\ k < Len(printed) => version = "sample" /\ server # "up" /\ cut[1] \in {0, k + 1}
           /\ \A j \in (k + 1) .. Len(printed) :
                printed[j] = IF j <= k + Len(cut) THEN cut[j - k] ELSE printed[j - Len(cut)]

=============================================================================
