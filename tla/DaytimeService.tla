--------------------------- MODULE DaytimeService ---------------------------
(***************************************************************************)
(* What a daytime server owes its clients, without connections, datagrams  *)
(* or buffers: one line each, whole, with a time that is not older than    *)
(* the request.  The programs of samples/daytimetcp, samples/daytimeudp    *)
(* and of their twins under benchmark implement it (Daytime).              *)
(***************************************************************************)
EXTENDS Naturals, Sequences

CONSTANTS Clients, LineLen

VARIABLES
  now,      \* the clock
  asked,    \* when each client has asked, 0 before it has
  told,     \* what it has printed
  fate,     \* "here", "ended" (it has returned or quit) or "killed"
  stopped   \* the server has ended

vars == <<now, asked, told, fate, stopped>>

\* A line is one reading of the clock, cut into pieces.
Line(t) == [k \in 1 .. LineLen |-> <<t, k>>]

Init ==
  /\ now = 1
  /\ asked = [c \in Clients |-> 0]
  /\ told = [c \in Clients |-> <<>>]
  /\ fate = [c \in Clients |-> "here"]
  /\ stopped = FALSE

Tick == now' = now + 1 /\ UNCHANGED <<asked, told, fate, stopped>>

Ask(c) ==
  /\ fate[c] = "here"
  /\ asked[c] = 0
  /\ asked' = [asked EXCEPT ![c] = now]
  /\ UNCHANGED <<now, told, fate, stopped>>

\* More of the one line, which tells a time since the request.
Tell(c) ==
  /\ fate[c] = "here"
  /\ asked[c] # 0
  /\ \E t \in asked[c] .. now, n \in Len(told[c]) + 1 .. LineLen :
       /\ told[c] = SubSeq(Line(t), 1, Len(told[c]))
       /\ told' = [told EXCEPT ![c] = SubSeq(Line(t), 1, n)]
  /\ UNCHANGED <<now, asked, fate, stopped>>

\* A client ends with a whole line, or with none when the server has ended.
End(c) ==
  /\ fate[c] = "here"
  /\ \/ Len(told[c]) = LineLen
     \/ stopped /\ told[c] = <<>>
  /\ fate' = [fate EXCEPT ![c] = "ended"]
  /\ UNCHANGED <<now, asked, told, stopped>>

Kill(c) ==
  /\ fate[c] = "here"
  /\ fate' = [fate EXCEPT ![c] = "killed"]
  /\ UNCHANGED <<now, asked, told, stopped>>

Stop == ~stopped /\ stopped' = TRUE /\ UNCHANGED <<now, asked, told, fate>>

Next == Tick \/ Stop \/ \E c \in Clients : Ask(c) \/ Tell(c) \/ End(c) \/ Kill(c)

Spec == Init /\ [][Next]_vars

----------------------------------------------------------------------------
\* What a client may conclude at any time: whatever it has been told is the
\* start of one line, the time in it is one since its request, and a client
\* that has ended by itself has the whole line, or nothing because the server
\* has ended.
Promise ==
  \A c \in Clients :
    /\ told[c] # <<>> =>
         /\ asked[c] # 0
         /\ \E t \in asked[c] .. now, n \in 1 .. LineLen : told[c] = SubSeq(Line(t), 1, n)
    /\ fate[c] = "ended" => Len(told[c]) = LineLen \/ (stopped /\ told[c] = <<>>)
============================================================================
