------------------------------- MODULE StrCli -------------------------------
(***************************************************************************)
(* The versions of str_cli().  The plain one reads a line, sends it, waits *)
(* for its echo and prints it; tcpcli_rcv_timeo runs it on a socket with a *)
(* time limit for recv(), and the sample program does the same with        *)
(* streams and strings.  The other one sends lines and prints answers as   *)
(* select() finds standard input and the socket readable, where select()   *)
(* sees what the kernel holds, and neither the buffer of fp nor recv_buf.  *)
(***************************************************************************)
EXTENDS LineClient

VARIABLE rset  \* the descriptors select() has reported

vars == <<lineVars, rset>>

TypeOK == LinesTypeOK /\ rset \subseteq {"socket", "stdin"}

Init ==
  /\ LinesInit
  /\ pc = IF version = "select" THEN "select" ELSE "fgets"
  /\ rset = {}

Readable ==
  {d \in {"socket", "stdin"} :
     IF d = "socket" THEN toClient # <<>> \/ server # "up" ELSE pipe # <<>> \/ closed}

Select ==
  /\ pc = "select"
  /\ Readable # {}
  /\ rset' = Readable
  /\ pc' = IF "socket" \in Readable THEN "recv" ELSE "fgets"
  /\ UNCHANGED <<userVars, stdio, line, netVars, recvBuf, recvline, printed>>

\* Where the loop goes when a line has been sent, or an answer printed.
AfterSend == IF version = "select" THEN "select" ELSE "recv"
AfterRecv == IF version # "select" \/ "stdin" \in rset THEN "fgets" ELSE "select"

\* Nothing has arrived for as long as the limit: recv() fails with EAGAIN, which
\* recv_until() and str_cli() take for an error.
RecvTimesOut ==
  /\ version = "timed"
  /\ pc = "recv"
  /\ recvBuf = <<>> /\ toClient = <<>> /\ server = "up"
  /\ pc' = "quit"
  /\ UNCHANGED <<userVars, stdio, line, netVars, recvBuf, recvline, printed>>

Calls ==
  \/ FgetsReads \/ FgetsReturns \/ FgetsEnds
  \/ Send(AfterSend) \/ SendFails
  \/ Recv(AfterRecv) \/ RecvEnds(AfterRecv) \/ RecvFails \/ RecvTimesOut
  \/ StreamEnds(AfterRecv)

Client == Select \/ (Calls /\ UNCHANGED rset)

Around(Move) == Move /\ UNCHANGED rset

Next == Client \/ Around(Environment)

Spec == Init /\ [][Next]_vars

(* The client and the server run when they can, and the user goes on. *)
FairSpec ==
  /\ Spec
  /\ WF_vars(Client)
  /\ WF_vars(Around(ServerEchoes))
  /\ WF_vars(Around(UserTypes \/ UserCloses))

----------------------------------------------------------------------------
(* What must hold. *)

\* Stop and wait: a client without select() reads a line only when all that it
\* has sent has been answered, so recv_until() and fgets() agree on where a line
\* ends, also when it is longer than MAXLINE, and getline() with itself.
StopAndWait ==
  version # "select" /\ pc = "fgets" /\ server = "up" =>
    recvBuf \o toClient \o toServer \o line = <<>>

\* When str_cli() returns because the input has ended, every line has been
\* answered, if the server still runs and the client waits for each answer or
\* its user has waited for them.
AllDone ==
  pc = "done" /\ server = "up" /\ (version # "select" \/ dialogue) =>
    printed = Whole(Len(input))

\* No line is longer than sendline and recvline.
LinesFit ==
  \A k \in 1 .. (Len(input) - MAXLINE + 2) : \E m \in k .. (k + MAXLINE - 2) : input[m] = "nl"

\* The client ends: it returns, or gives up because the server has ended or the
\* time is up.  The last line must have its newline, unless a file is sent with
\* a time limit or by the sample.  The select() version ends, in spite of the
\* two buffers select() does not see, in a dialogue of lines that fit, and with
\* input from a file that both directions of the connection together can hold,
\* and so does the sample, whose lines have any length; with more than that
\* both sides may block in send().
Ends ==
  /\ Terminated \/ (version \in {"timed", "sample"} /\ ~dialogue)
  /\ version = "select" /\ dialogue => LinesFit
  /\ version = "sample" \/ (version = "select" /\ ~dialogue) => Len(input) <= 2 * Space
  ~> pc \in Ended
=============================================================================
