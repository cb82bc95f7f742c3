---------------------------- MODULE EchoService ----------------------------
(***************************************************************************)
(* The echo service as its clients see it, without descriptors, sets of    *)
(* descriptors, threads or buffers.  The servers of benchmark/linux/       *)
(* tcpcliserv and samples/tcpcliserv implement it.                         *)
(***************************************************************************)
EXTENDS Sequences, Naturals

CONSTANTS Peers, Bytes

VARIABLES
  link,    \* "none", "up" or "ended": the connection as the server keeps it
  side,    \* what the client did to its side: "open", "half" or "gone"
  sent,    \* the bytes each client has sent
  back,    \* the bytes the server has sent back to it
  serving  \* FALSE when the process that accepts has ended

vars == <<link, side, sent, back, serving>>

Init ==
  /\ link = [p \in Peers |-> "none"]
  /\ side = [p \in Peers |-> "open"]
  /\ sent = [p \in Peers |-> <<>>]
  /\ back = [p \in Peers |-> <<>>]
  /\ serving = TRUE

\* The client's part: it connects, sends, closes one or both directions.
Client(p) ==
  /\ \/ /\ side[p] # "gone"
        /\ side' \in {[side EXCEPT ![p] = s] : s \in {"half", "gone"}}
        /\ UNCHANGED sent
     \/ /\ side[p] = "open"
        /\ \E b \in Bytes : sent' = [sent EXCEPT ![p] = Append(@, b)]
        /\ UNCHANGED side
  /\ UNCHANGED <<link, back, serving>>

Accept(p) ==
  /\ serving
  /\ link[p] = "none"
  /\ link' = [link EXCEPT ![p] = "up"]
  /\ UNCHANGED <<side, sent, back, serving>>

\* The server sends back more of what that client sent, in order, and no
\* byte of another client.
Echo(p) ==
  /\ link[p] = "up"
  /\ \E n \in Len(back[p]) + 1 .. Len(sent[p]) :
       back' = [back EXCEPT ![p] = SubSeq(sent[p], 1, n)]
  /\ UNCHANGED <<link, side, sent, serving>>

\* The server ends a connection only after its client did, and one that can
\* still read has got every byte back by then.
End(p) ==
  /\ link[p] = "up"
  /\ side[p] # "open"
  /\ side[p] = "half" => back[p] = sent[p]
  /\ link' = [link EXCEPT ![p] = "ended"]
  /\ UNCHANGED <<side, sent, back, serving>>

\* The end of that process takes the connections along that it has open.
Stop ==
  /\ serving
  /\ serving' = FALSE
  /\ \E gone \in SUBSET {p \in Peers : link[p] = "up"} :
       link' = [p \in Peers |-> IF p \in gone THEN "ended" ELSE link[p]]
  /\ UNCHANGED <<side, sent, back>>

Next == Stop \/ \E p \in Peers : Client(p) \/ Accept(p) \/ Echo(p) \/ End(p)

Spec == Init /\ [][Next]_vars

----------------------------------------------------------------------------
\* What a client may conclude at any time: whatever has come back is the start
\* of what it has sent, also when its connection is gone, and if it has only
\* closed its sending side and sees the connection end while the process that
\* accepts runs, it has got every byte.
Promise ==
  \A p \in Peers :
    /\ \E n \in 0 .. Len(sent[p]) : back[p] = SubSeq(sent[p], 1, n)
    /\ serving /\ link[p] = "ended" /\ side[p] = "half" => back[p] = sent[p]
============================================================================
