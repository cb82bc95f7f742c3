-------------------------- MODULE Datagrams_proofs --------------------------
(***************************************************************************)
(* The UDP echo programs, proved for every number of clients, lines,       *)
(* duplicates and datagrams of other programs: types, and how far answers  *)
(* can fall out of step with the lines.                                    *)
(*                                                                         *)
(* The argument is an account of each line.  Of a line that has been sent  *)
(* there is one copy, in the network, in the server's buffer or printed,   *)
(* and one more for each time that the network has duplicated a datagram   *)
(* with it.  So the answers a client prints twice are no more than the     *)
(* datagrams that have been duplicated.                                    *)
(***************************************************************************)
EXTENDS Datagrams, FiniteSetTheorems, TLAPS

----------------------------------------------------------------------------
(* The inductive invariant. *)

\* The datagrams that carry a line, to the server and back to its client.
Req(l) == [to |-> Server, from |-> l[1], data |-> l]
Ans(l) == [to |-> l[1], from |-> Server, data |-> l]

Held(s, m, l) == IF s = "sendto" /\ m = l THEN 1 ELSE 0

Hit(x, l) == IF x = l THEN 1 ELSE 0

\* Copies of a line that are on their way or in the server's buffer.
Flight(N, s, m, l) == N[Req(l)] + N[Ans(l)] + Held(s, m, l)

\* Where a line has been printed, and which duplications were of it.
Occ(P, l) == {k \in 1 .. Len(P[l[1]]) : P[l[1]][k] = l}
Dup(D, l) == {i \in DOMAIN D : D[i] = l}

Types ==
  /\ kind \in [Clients -> {"plain", "connected"}]
  /\ lossy \in BOOLEAN
  /\ net \in [Packets -> Nat]
  /\ dups \in 0 .. MaxDups /\ strange \in 0 .. MaxStrange
  /\ refused \subseteq {c \in Clients : kind[c] = "connected"}
  /\ asked \in [Clients -> 0 .. MaxLines]
  /\ printed \in [Clients -> Seq(Lines \cup {Noise})]
  /\ at \in [Clients -> {"fgets", "recvfrom", "done", "quit"}]
  /\ mesg \in Lines \cup {Noise} /\ cliaddr \in Clients \cup {Stranger}
  /\ server \in {"recvfrom", "sendto", "quit"}

Turns ==
  \A c \in Clients :
    /\ at[c] \in {"fgets", "done"} => Len(printed[c]) = asked[c]
    /\ at[c] = "recvfrom" => Len(printed[c]) = asked[c] - 1

\* An answer goes to the client whose line it is.
Owned(p) == p.from = Server => p.data[1] = p.to
OwnNet == \A p \in Packets : net[p] > 0 => Owned(p)
OwnAddr == server = "sendto" => cliaddr = mesg[1]

NoiseOK == \A p \in Packets : p.data = Noise => net[p] <= dups + strange

\* What a client has printed: its own lines, none before it was sent, and
\* on a plain socket what other programs send.
OwnLines ==
  \A c \in Clients : \A k \in 1 .. Len(printed[c]) :
    \/ printed[c][k] = Noise /\ kind[c] = "plain"
    \/ printed[c][k] \in {c} \X (1 .. k)

Unsent ==
  \A l \in Lines : l[2] > asked[l[1]] =>
    Flight(net, server, mesg, l) = 0 /\ Occ(printed, l) = {}

\* The account of each line: D lists what has been duplicated.
Accounts(N, s, m, P, D) ==
  \A l \in Lines :
    Flight(N, s, m, l) + Cardinality(Occ(P, l)) <= 1 + Cardinality(Dup(D, l))
Balanced ==
  \E D \in [1 .. dups -> Lines \cup {Noise}] : Accounts(net, server, mesg, printed, D)

IInv ==
  /\ Types /\ Turns
  /\ OwnNet /\ OwnAddr /\ NoiseOK
  /\ OwnLines /\ Unsent /\ Balanced

----------------------------------------------------------------------------
(* Datagrams. *)

LEMMA NoiseApart ==
  /\ Noise \notin Lines /\ Noise[1] = Stranger
  /\ Server \notin Clients /\ Stranger \notin Clients /\ Server # Stranger
BY DatagramAssumption DEF Noise, Lines

LEMMA LineParts ==
  ASSUME NEW l \in Lines
  PROVE  l[1] \in Clients /\ l[2] \in 1 .. MaxLines /\ l = <<l[1], l[2]>>
BY DEF Lines

LEMMA ReqAns ==
  ASSUME NEW l \in Lines
  PROVE  /\ Req(l) \in Packets /\ Ans(l) \in Packets /\ Req(l) # Ans(l)
         /\ Req(l).data = l /\ Ans(l).data = l
         /\ Req(l).to = Server /\ Ans(l).to = l[1]
         /\ Req(l).from = l[1] /\ Ans(l).from = Server
<1>1. /\ Req(l).data = l /\ Ans(l).data = l
      /\ Req(l).to = Server /\ Ans(l).to = l[1]
      /\ Req(l).from = l[1] /\ Ans(l).from = Server
  BY DEF Req, Ans
<1>2. Req(l) # Ans(l)
  BY <1>1, LineParts, NoiseApart
<1>3. Req(l) \in Packets
  BY DEF Req, Packets
<1>4. Ans(l) \in Packets
  BY LineParts DEF Ans, Packets
<1> QED BY <1>1, <1>2, <1>3, <1>4

\* The three kinds of datagrams.
LEMMA Kinds ==
  ASSUME NEW p \in Packets
  PROVE  /\ p.data \in Lines \cup {Noise}
         /\ p.to = Server \/ p.to \in Clients
         /\ p.to = Server => p = Req(p.data) /\ p.from = p.data[1]
         /\ p.to # Server => p.from \in {Server, Stranger}
         /\ p.from = Server => p.to \in Clients /\ p.data \in Lines
         /\ p.from = Server /\ p.data[1] = p.to => p = Ans(p.data)
         /\ p.from = Stranger <=> p.data = Noise
<1>1. CASE p \in {[to |-> Server, from |-> l[1], data |-> l] : l \in Lines \cup {Noise}}
  <2>1. PICK l \in Lines \cup {Noise} : p = [to |-> Server, from |-> l[1], data |-> l]
    BY <1>1
  <2>2. p.to = Server /\ p.from = l[1] /\ p.data = l
    BY <2>1
  <2>3. p = Req(p.data)
    BY <2>1, <2>2 DEF Req
  <2>4. l \in Lines => l[1] \in Clients
    BY LineParts
  <2> QED BY <2>2, <2>3, <2>4, NoiseApart
<1>2. CASE p \in [to : Clients, from : {Server}, data : Lines]
  <2>1. p.to \in Clients /\ p.from = Server /\ p.data \in Lines
    BY <1>2
  <2>2. p = [to |-> p.to, from |-> p.from, data |-> p.data]
    BY <1>2
  <2>3. p.data[1] = p.to => p = Ans(p.data)
    BY <2>1, <2>2 DEF Ans
  <2> QED BY <2>1, <2>3, NoiseApart
<1>3. CASE p \in [to : Clients, from : {Stranger}, data : {Noise}]
  <2>1. p.to \in Clients /\ p.from = Stranger /\ p.data = Noise
    BY <1>3
  <2> QED BY <2>1, NoiseApart
<1> QED BY <1>1, <1>2, <1>3 DEF Packets

\* A datagram in its owner's hands counts for the line that it carries.
LEMMA Carries ==
  ASSUME NEW p \in Packets, Owned(p), NEW l \in Lines
  PROVE  (p = Req(l) \/ p = Ans(l)) <=> p.data = l
<1>1. p = Req(l) \/ p = Ans(l) => p.data = l
  BY ReqAns
<1>2. ASSUME p.data = l PROVE p = Req(l) \/ p = Ans(l)
  <2>1. CASE p.to = Server
    BY <2>1, <1>2, Kinds
  <2>2. CASE p.to # Server
    <3>1. p.from = Server
      BY <2>2, <1>2, Kinds, NoiseApart
    <3> QED BY <3>1, <1>2, Kinds DEF Owned
  <2> QED BY <2>1, <2>2
<1> QED BY <1>1, <1>2

LEMMA NoiseOwned ==
  ASSUME NEW p \in Packets, p.to = Server \/ p.from = Stranger
  PROVE  Owned(p)
BY Kinds, NoiseApart DEF Owned

----------------------------------------------------------------------------
(* Counting copies. *)

LEMMA FlightNat ==
  ASSUME NEW N \in [Packets -> Nat], NEW s, NEW m, NEW l \in Lines
  PROVE  /\ N[Req(l)] \in Nat /\ N[Ans(l)] \in Nat
         /\ Held(s, m, l) \in {0, 1}
         /\ Flight(N, s, m, l) \in Nat
<1>1. N[Req(l)] \in Nat /\ N[Ans(l)] \in Nat
  BY ReqAns
<1>2. Held(s, m, l) \in {0, 1}
  BY DEF Held
<1> QED BY <1>1, <1>2 DEF Flight

LEMMA AddedType ==
  ASSUME NEW N \in [Packets -> Nat], NEW p \in Packets
  PROVE  /\ [N EXCEPT ![p] = @ + 1] \in [Packets -> Nat]
         /\ \A q \in Packets : [N EXCEPT ![p] = @ + 1][q] = IF q = p THEN N[p] + 1 ELSE N[q]
OBVIOUS

LEMMA TakenType ==
  ASSUME NEW N \in [Packets -> Nat], NEW p \in Packets, N[p] > 0
  PROVE  /\ [N EXCEPT ![p] = @ - 1] \in [Packets -> Nat]
         /\ \A q \in Packets : [N EXCEPT ![p] = @ - 1][q] = IF q = p THEN N[p] - 1 ELSE N[q]
OBVIOUS

\* M is N with one datagram p more, or less.
OneMore(N, M, p) == \A q \in Packets : M[q] = IF q = p THEN N[p] + 1 ELSE N[q]
OneLess(N, M, p) == \A q \in Packets : M[q] = IF q = p THEN N[p] - 1 ELSE N[q]

LEMMA FlightAdded ==
  ASSUME NEW N \in [Packets -> Nat], NEW M, NEW p \in Packets, Owned(p),
         OneMore(N, M, p),
         NEW s, NEW m, NEW l \in Lines
  PROVE  Flight(M, s, m, l) = Flight(N, s, m, l) + Hit(p.data, l)
<1>1. M[Req(l)] = IF Req(l) = p THEN N[Req(l)] + 1 ELSE N[Req(l)]
  BY ReqAns DEF OneMore
<1>2. M[Ans(l)] = IF Ans(l) = p THEN N[Ans(l)] + 1 ELSE N[Ans(l)]
  BY ReqAns DEF OneMore
<1>3. (p = Req(l) \/ p = Ans(l)) <=> p.data = l
  BY Carries
<1>4. Req(l) # Ans(l) /\ N[Req(l)] \in Nat /\ N[Ans(l)] \in Nat /\ Held(s, m, l) \in {0, 1}
  BY ReqAns, FlightNat
<1> QED BY <1>1, <1>2, <1>3, <1>4 DEF Flight, Hit

LEMMA FlightTaken ==
  ASSUME NEW N \in [Packets -> Nat], NEW M, NEW p \in Packets, Owned(p),
         OneLess(N, M, p),
         NEW s, NEW m, NEW l \in Lines
  PROVE  Flight(M, s, m, l) = Flight(N, s, m, l) - Hit(p.data, l)
<1>1. M[Req(l)] = IF Req(l) = p THEN N[Req(l)] - 1 ELSE N[Req(l)]
  BY ReqAns DEF OneLess
<1>2. M[Ans(l)] = IF Ans(l) = p THEN N[Ans(l)] - 1 ELSE N[Ans(l)]
  BY ReqAns DEF OneLess
<1>3. (p = Req(l) \/ p = Ans(l)) <=> p.data = l
  BY Carries
<1>4. Req(l) # Ans(l) /\ N[Req(l)] \in Nat /\ N[Ans(l)] \in Nat /\ Held(s, m, l) \in {0, 1}
  BY ReqAns, FlightNat
<1> QED BY <1>1, <1>2, <1>3, <1>4 DEF Flight, Hit

LEMMA FlightLess ==
  ASSUME NEW N \in [Packets -> Nat], NEW M \in [Packets -> Nat],
         \A p \in Packets : M[p] <= N[p],
         NEW s, NEW t, NEW m, NEW o, t = "sendto" => s = "sendto" /\ o = m, NEW l \in Lines
  PROVE  Flight(M, t, o, l) <= Flight(N, s, m, l)
<1>1. M[Req(l)] <= N[Req(l)] /\ M[Ans(l)] <= N[Ans(l)]
  BY ReqAns
<1>2. Held(t, o, l) <= Held(s, m, l) /\ Held(t, o, l) \in {0, 1} /\ Held(s, m, l) \in {0, 1}
  BY DEF Held
<1>3. /\ N[Req(l)] \in Nat /\ N[Ans(l)] \in Nat
      /\ M[Req(l)] \in Nat /\ M[Ans(l)] \in Nat
  BY ReqAns
<1> QED BY <1>1, <1>2, <1>3 DEF Flight

----------------------------------------------------------------------------
(* Counting answers and duplications. *)

LEMMA OccFinite ==
  ASSUME NEW P \in [Clients -> Seq(Lines \cup {Noise})], NEW l \in Lines
  PROVE  IsFiniteSet(Occ(P, l)) /\ Cardinality(Occ(P, l)) \in Nat
<1>1. l[1] \in Clients
  BY LineParts
<1>2. Len(P[l[1]]) \in Nat
  BY <1>1
<1>3. IsFiniteSet(1 .. Len(P[l[1]]))
  BY <1>2, FS_Interval
<1>4. Occ(P, l) \subseteq 1 .. Len(P[l[1]])
  BY DEF Occ
<1>5. IsFiniteSet(Occ(P, l))
  BY <1>3, <1>4, FS_Subset
<1> QED BY <1>5, FS_CardinalityType

LEMMA DupFinite ==
  ASSUME NEW n \in Nat, NEW D \in [1 .. n -> Lines \cup {Noise}], NEW l \in Lines
  PROVE  /\ IsFiniteSet(Dup(D, l)) /\ Cardinality(Dup(D, l)) \in Nat
         /\ Cardinality(Dup(D, l)) <= n
<1>1. IsFiniteSet(1 .. n) /\ Cardinality(1 .. n) = n
  BY FS_Interval
<1>2. Dup(D, l) \subseteq 1 .. n
  BY DEF Dup
<1>3. IsFiniteSet(Dup(D, l)) /\ Cardinality(Dup(D, l)) <= Cardinality(1 .. n)
  BY <1>1, <1>2, FS_Subset
<1> QED BY <1>1, <1>3, FS_CardinalityType

\* Client c prints x.
Appended(P, Q, c, x) == Q = [P EXCEPT ![c] = Append(@, x)]

LEMMA OccAppended ==
  ASSUME NEW P \in [Clients -> Seq(Lines \cup {Noise})], NEW Q, NEW c \in Clients,
         NEW x \in Lines \cup {Noise}, NEW l \in Lines, x \in Lines => x[1] = c,
         Appended(P, Q, c, x)
  PROVE  Cardinality(Occ(Q, l)) = Cardinality(Occ(P, l)) + Hit(x, l)
<1>1. l[1] \in Clients
  BY LineParts
<1>2. CASE l[1] # c
  <2>1. Q[l[1]] = P[l[1]]
    BY <1>2, <1>1 DEF Appended
  <2>2. Occ(Q, l) = Occ(P, l)
    BY <2>1 DEF Occ
  <2>3. x # l
    BY <1>2
  <2> QED BY <2>2, <2>3, OccFinite DEF Hit
<1>3. CASE l[1] = c
  <2>1. Q[c] = Append(P[c], x)
    BY DEF Appended
  <2> DEFINE n == Len(P[c])
  <2>2. n \in Nat /\ Len(Q[c]) = n + 1 /\ Q[c][n + 1] = x
    BY <2>1
  <2>3. \A k \in 1 .. n : Q[c][k] = P[c][k]
    BY <2>1
  <2>4. Occ(P, l) = {k \in 1 .. n : P[c][k] = l}
    BY <1>3 DEF Occ
  <2>5. Occ(Q, l) = {k \in 1 .. (n + 1) : Q[c][k] = l}
    BY <1>3, <2>2 DEF Occ
  <2> HIDE DEF n
  <2>6. Occ(Q, l) = IF x = l THEN Occ(P, l) \cup {n + 1} ELSE Occ(P, l)
    BY <2>2, <2>3, <2>4, <2>5
  <2>7. n + 1 \notin Occ(P, l)
    BY <2>2, <2>4
  <2>8. IsFiniteSet(Occ(P, l)) /\ Cardinality(Occ(P, l)) \in Nat
    BY OccFinite
  <2>9. Cardinality(Occ(P, l) \cup {n + 1}) = Cardinality(Occ(P, l)) + 1
    BY <2>7, <2>8, FS_AddElement
  <2> QED BY <2>6, <2>8, <2>9 DEF Hit
<1> QED BY <1>2, <1>3

Longer(D, n, x) == [i \in 1 .. (n + 1) |-> IF i = n + 1 THEN x ELSE D[i]]

LEMMA LongerType ==
  ASSUME NEW n \in Nat, NEW D \in [1 .. n -> Lines \cup {Noise}], NEW x \in Lines \cup {Noise}
  PROVE  Longer(D, n, x) \in [1 .. (n + 1) -> Lines \cup {Noise}]
BY DEF Longer

LEMMA DupAppended ==
  ASSUME NEW n \in Nat, NEW D \in [1 .. n -> Lines \cup {Noise}],
         NEW x \in Lines \cup {Noise}, NEW l \in Lines
  PROVE  Cardinality(Dup(Longer(D, n, x), l))
           = Cardinality(Dup(D, l)) + Hit(x, l)
<1>2. Dup(D, l) = {i \in 1 .. n : D[i] = l}
  BY DEF Dup
<1>3. Dup(Longer(D, n, x), l) = {i \in 1 .. (n + 1) : (IF i = n + 1 THEN x ELSE D[i]) = l}
  BY DEF Dup, Longer
<1>4. Dup(Longer(D, n, x), l) = IF x = l THEN Dup(D, l) \cup {n + 1} ELSE Dup(D, l)
  BY <1>2, <1>3
<1>5. n + 1 \notin Dup(D, l)
  BY <1>2
<1>6. IsFiniteSet(Dup(D, l)) /\ Cardinality(Dup(D, l)) \in Nat
  BY DupFinite
<1>7. Cardinality(Dup(D, l) \cup {n + 1}) = Cardinality(Dup(D, l)) + 1
  BY <1>5, <1>6, FS_AddElement
<1> QED BY <1>4, <1>6, <1>7 DEF Hit

\* There is room for one finite set in another that is at least as large.
LEMMA SmallerInjects ==
  ASSUME NEW S, IsFiniteSet(S), NEW T, IsFiniteSet(T), Cardinality(S) <= Cardinality(T)
  PROVE  \E f \in [S -> T] : \A x, y \in S : f[x] = f[y] => x = y
<1> DEFINE m == Cardinality(S)
           n == Cardinality(T)
<1>1. m \in Nat /\ n \in Nat /\ ExistsBijection(1 .. m, S) /\ ExistsBijection(1 .. n, T)
  BY FS_CardinalityType
<1>2. PICK a \in Bijection(1 .. m, S) : TRUE
  BY <1>1 DEF ExistsBijection
<1>3. PICK b \in Bijection(1 .. n, T) : TRUE
  BY <1>1 DEF ExistsBijection
<1> HIDE DEF m, n
<1>4. \A x \in S : \E i \in 1 .. m : a[i] = x
  BY <1>2 DEF Bijection, Surjection
<1>5. b \in [1 .. n -> T] /\ \A i, j \in 1 .. n : b[i] = b[j] => i = j
  BY <1>3 DEF Bijection, Injection, IsInjective
<1> DEFINE at0(x) == CHOOSE i \in 1 .. m : a[i] = x
           f == [x \in S |-> b[at0(x)]]
<1>6. \A x \in S : at0(x) \in 1 .. m /\ a[at0(x)] = x
  BY <1>4
<1>7. m <= n
  BY DEF m, n
<1>8. \A x \in S : at0(x) \in 1 .. n
  BY <1>1, <1>6, <1>7
<1>9. f \in [S -> T]
  BY <1>5, <1>8
<1>10. ASSUME NEW x \in S, NEW y \in S, f[x] = f[y]
       PROVE  x = y
  <2>1. b[at0(x)] = b[at0(y)]
    BY <1>10
  <2>2. at0(x) = at0(y)
    BY <2>1, <1>5, <1>8
  <2> QED BY <2>2, <1>6
<1> QED BY <1>9, <1>10

\* If each line is printed at most once and once more for each duplication of
\* it, then as many places as there are lines, and as there are duplications,
\* are enough for all that is printed.
LEMMA PrintedTwice ==
  ASSUME NEW n \in Nat, NEW D \in [1 .. n -> Lines \cup {Noise}],
         NEW own, IsFiniteSet(own), NEW s, \A k \in own : s[k] \in Lines,
         \A l \in Lines :
           Cardinality({k \in own : s[k] = l}) <= 1 + Cardinality(Dup(D, l))
  PROVE  Cardinality({s[k] : k \in own}) + n >= Cardinality(own)
<1> DEFINE V == {s[k] : k \in own}
           once == V \X {0}
           again == {<<D[i], i>> : i \in 1 .. n}
<1>1. \A l \in V : l \in Lines
  OBVIOUS
<1>2. \A l \in V : \E g \in [{k \in own : s[k] = l} -> Dup(D, l) \cup {0}] :
                     \A x, y \in {k \in own : s[k] = l} : g[x] = g[y] => x = y
  <2> SUFFICES ASSUME NEW l \in Lines
               PROVE  \E g \in [{k \in own : s[k] = l} -> Dup(D, l) \cup {0}] :
                        \A x, y \in {k \in own : s[k] = l} : g[x] = g[y] => x = y
    BY <1>1
  <2>1. IsFiniteSet(Dup(D, l)) /\ Cardinality(Dup(D, l)) \in Nat
    BY DupFinite
  <2>2. 0 \notin Dup(D, l)
    BY DEF Dup
  <2>3. /\ IsFiniteSet(Dup(D, l) \cup {0})
        /\ Cardinality(Dup(D, l) \cup {0}) = Cardinality(Dup(D, l)) + 1
    BY <2>1, <2>2, FS_AddElement
  <2>4. IsFiniteSet({k \in own : s[k] = l})
    BY FS_Subset
  <2>5. Cardinality({k \in own : s[k] = l}) <= Cardinality(Dup(D, l) \cup {0})
    BY <2>1, <2>3
  <2> HIDE DEF V, once, again
  <2> QED BY <2>3, <2>4, <2>5, SmallerInjects
<1> DEFINE In(l) == CHOOSE g \in [{k \in own : s[k] = l} -> Dup(D, l) \cup {0}] :
                      \A x, y \in {k \in own : s[k] = l} : g[x] = g[y] => x = y
           f == [k \in own |-> <<s[k], In(s[k])[k]>>]
<1>3. \A l \in V : /\ In(l) \in [{k \in own : s[k] = l} -> Dup(D, l) \cup {0}]
                   /\ \A x, y \in {k \in own : s[k] = l} : In(l)[x] = In(l)[y] => x = y
  BY <1>2
<1> HIDE DEF In
<1>4. \A k \in own : f[k] \in once \cup again
  <2> SUFFICES ASSUME NEW k \in own PROVE <<s[k], In(s[k])[k]>> \in once \cup again
    OBVIOUS
  <2>1. s[k] \in V /\ k \in {j \in own : s[j] = s[k]}
    OBVIOUS
  <2>2. In(s[k])[k] \in Dup(D, s[k]) \cup {0}
    <3>1. PICK l \in V : l = s[k]
      BY <2>1
    <3> DEFINE K == {j \in own : s[j] = l}
    <3>2. In(l) \in [K -> Dup(D, l) \cup {0}]
      BY <1>3
    <3>3. k \in K
      BY <3>1
    <3> HIDE DEF K
    <3>4. In(l)[k] \in Dup(D, l) \cup {0}
      BY <3>2, <3>3
    <3> QED BY <3>1, <3>4
  <2>3. CASE In(s[k])[k] = 0
    BY <2>1, <2>3
  <2>4. CASE In(s[k])[k] \in Dup(D, s[k])
    <3>1. In(s[k])[k] \in 1 .. n /\ D[In(s[k])[k]] = s[k]
      BY <2>4 DEF Dup
    <3> QED BY <3>1
  <2> QED BY <2>2, <2>3, <2>4
<1>5. f \in Injection(own, once \cup again)
  <2>1. ASSUME NEW x \in own, NEW y \in own, f[x] = f[y]
        PROVE  x = y
    <3>1. s[x] = s[y] /\ In(s[x])[x] = In(s[y])[y]
      BY <2>1
    <3>2. s[x] \in V /\ x \in {k \in own : s[k] = s[x]} /\ y \in {k \in own : s[k] = s[x]}
      BY <3>1
    <3> QED BY <3>1, <3>2, <1>3
  <2>2. f \in [own -> once \cup again]
    BY <1>4
  <2> QED BY <2>1, <2>2 DEF Injection, IsInjective
<1>6. IsFiniteSet(V) /\ Cardinality(V) \in Nat
  <2>1. [k \in own |-> s[k]] \in Surjection(own, V)
    BY DEF Surjection
  <2>2. IsFiniteSet(V)
    BY <2>1, FS_Surjection
  <2> QED BY <2>2, FS_CardinalityType
<1>7. IsFiniteSet(once) /\ Cardinality(once) = Cardinality(V)
  <2> HIDE DEF V
  <2> DEFINE g == [v \in V |-> <<v, 0>>]
  <2>1. g \in [V -> once]
    OBVIOUS
  <2>2. \A v, w \in V : g[v] = g[w] => v = w
    OBVIOUS
  <2>3. \A o \in once : \E v \in V : g[v] = o
    OBVIOUS
  <2> HIDE DEF g, once
  <2>4. g \in Bijection(V, once)
    BY <2>1, <2>2, <2>3 DEF Bijection, Injection, Surjection, IsInjective
  <2>5. ExistsBijection(V, once)
    BY <2>4 DEF ExistsBijection
  <2> QED BY <2>5, <1>6, FS_Bijection
<1>8. IsFiniteSet(again) /\ Cardinality(again) <= n
  <2>1. [i \in 1 .. n |-> <<D[i], i>>] \in Surjection(1 .. n, again)
    BY DEF Surjection
  <2>2. IsFiniteSet(1 .. n) /\ Cardinality(1 .. n) = n
    BY FS_Interval
  <2> QED BY <2>1, <2>2, FS_Surjection
<1> HIDE DEF V, once, again, f
<1>9. /\ IsFiniteSet(once \cup again)
      /\ Cardinality(once \cup again)
           = Cardinality(once) + Cardinality(again) - Cardinality(once \cap again)
  BY <1>7, <1>8, FS_Union
<1>10. Cardinality(once \cap again) \in Nat /\ Cardinality(again) \in Nat
  BY <1>7, <1>8, FS_Intersection, FS_CardinalityType
<1>11. Cardinality(own) <= Cardinality(once \cup again)
  BY <1>5, <1>9, FS_Injection
<1>12. Cardinality(own) \in Nat
  BY FS_CardinalityType
<1>13. Cardinality(V) + n >= Cardinality(own)
  BY <1>6, <1>7, <1>8, <1>9, <1>10, <1>11, <1>12
<1> QED BY <1>13 DEF V

----------------------------------------------------------------------------
(* What the invariant implies. *)

LEMMA InvTypeOK == IInv => TypeOK
<1> SUFFICES ASSUME IInv PROVE TypeOK
  OBVIOUS
<1>1. PICK D \in [1 .. dups -> Lines \cup {Noise}] : Accounts(net, server, mesg, printed, D)
  BY DEF IInv, Balanced
<1>2. /\ MaxDups \in Nat /\ MaxStrange \in Nat
      /\ dups \in 0 .. MaxDups /\ strange \in 0 .. MaxStrange
      /\ net \in [Packets -> Nat]
  BY DatagramAssumption DEF IInv, Types
<1>3. dups \in Nat /\ strange \in Nat /\ dups + strange <= MaxDups + MaxStrange
  BY <1>2
<1>4. ASSUME NEW p \in Packets
      PROVE  net[p] \in 0 .. 1 + MaxDups + MaxStrange
  <2>1. net[p] \in Nat
    BY <1>2
  <2>2. CASE p.data = Noise
    <3>1. net[p] <= dups + strange
      BY <2>2 DEF IInv, NoiseOK
    <3> QED BY <2>1, <3>1, <1>2, <1>3
  <2>3. CASE p.data # Noise /\ net[p] > 0
    <3>1. PICK l \in Lines : p.data = l
      BY <2>3, Kinds
    <3>2. Owned(p)
      BY <2>3 DEF IInv, OwnNet
    <3>3. p = Req(l) \/ p = Ans(l)
      BY <3>1, <3>2, Carries
    <3>4. /\ net[Req(l)] \in Nat /\ net[Ans(l)] \in Nat
          /\ Held(server, mesg, l) \in {0, 1}
      BY <1>2, FlightNat
    <3>5. net[p] <= Flight(net, server, mesg, l)
      BY <3>3, <3>4 DEF Flight
    <3>6. Flight(net, server, mesg, l) + Cardinality(Occ(printed, l)) <= 1 + Cardinality(Dup(D, l))
      BY <1>1 DEF Accounts
    <3>7. Cardinality(Occ(printed, l)) \in Nat
      BY OccFinite DEF IInv, Types
    <3>8. Cardinality(Dup(D, l)) \in Nat /\ Cardinality(Dup(D, l)) <= dups
      BY <1>1, <1>3, DupFinite
    <3>9. Flight(net, server, mesg, l) \in Nat
      BY <1>2, FlightNat
    <3>10. net[p] <= 1 + dups
      BY <2>1, <3>5, <3>6, <3>7, <3>8, <3>9, <1>3
    <3> QED BY <2>1, <3>10, <1>2
  <2>4. CASE net[p] = 0
    BY <2>4, <1>2
  <2> QED BY <2>1, <2>2, <2>3, <2>4
<1>5. net \in [Packets -> 0 .. 1 + MaxDups + MaxStrange]
  BY <1>2, <1>4
<1> QED BY <1>5 DEF IInv, Types, Turns, TypeOK

LEMMA InvInStep == IInv => InStep
<1> SUFFICES ASSUME IInv, NEW c \in Clients
             PROVE  LET own == {k \in DOMAIN printed[c] : printed[c][k] # Noise}
                    IN  /\ \A k \in own : printed[c][k] \in {c} \X (1 .. k)
                        /\ Cardinality({printed[c][k] : k \in own}) + dups >= Cardinality(own)
                        /\ kind[c] = "connected" => own = DOMAIN printed[c]
  BY DEF InStep
<1> DEFINE own == {k \in DOMAIN printed[c] : printed[c][k] # Noise}
<1>1. printed[c] \in Seq(Lines \cup {Noise})
  BY DEF IInv, Types
<1>2. DOMAIN printed[c] = 1 .. Len(printed[c]) /\ Len(printed[c]) \in Nat
  BY <1>1
<1>3. \A k \in DOMAIN printed[c] :
        \/ printed[c][k] = Noise /\ kind[c] = "plain"
        \/ printed[c][k] \in {c} \X (1 .. k)
  BY <1>2 DEF IInv, OwnLines
<1>4. \A k \in own : printed[c][k] \in {c} \X (1 .. k)
  BY <1>3
<1>5. kind[c] = "connected" => own = DOMAIN printed[c]
  <2>1. ASSUME NEW k \in DOMAIN printed[c], kind[c] = "connected"
        PROVE  printed[c][k] # Noise
    <3>1. printed[c][k] \in {c} \X (1 .. k)
      BY <2>1, <1>3
    <3>2. printed[c][k][1] = c
      BY <3>1
    <3> QED BY <3>2, NoiseApart
  <2> QED BY <2>1
<1>6. PICK D \in [1 .. dups -> Lines \cup {Noise}] : Accounts(net, server, mesg, printed, D)
  BY DEF IInv, Balanced
<1>7. dups \in Nat
  BY DatagramAssumption DEF IInv, Types
<1>8. IsFiniteSet(own)
  <2>1. own \subseteq 1 .. Len(printed[c])
    BY <1>2
  <2>2. IsFiniteSet(1 .. Len(printed[c]))
    BY <1>2, FS_Interval
  <2> HIDE DEF own
  <2> QED BY <2>1, <2>2, FS_Subset
<1>9. \A k \in own : printed[c][k] \in Lines
  <2>1. \A k \in DOMAIN printed[c] : printed[c][k] \in Lines \cup {Noise}
    BY <1>1
  <2> QED BY <2>1
<1>10. ASSUME NEW l \in Lines
       PROVE  Cardinality({k \in own : printed[c][k] = l}) <= 1 + Cardinality(Dup(D, l))
  <2>1. Cardinality(Dup(D, l)) \in Nat
    BY <1>6, <1>7, DupFinite
  <2>2. CASE l[1] = c
    <3>1. {k \in own : printed[c][k] = l} = Occ(printed, l)
      BY <2>2, <1>2, NoiseApart DEF Occ
    <3>2. Flight(net, server, mesg, l) + Cardinality(Occ(printed, l)) <= 1 + Cardinality(Dup(D, l))
      BY <1>6 DEF Accounts
    <3>3. Flight(net, server, mesg, l) \in Nat
      BY FlightNat DEF IInv, Types
    <3>4. Cardinality(Occ(printed, l)) \in Nat
      BY OccFinite DEF IInv, Types
    <3>5. Cardinality(Occ(printed, l)) <= 1 + Cardinality(Dup(D, l))
      BY <2>1, <3>2, <3>3, <3>4
    <3> HIDE DEF own
    <3> QED BY <3>1, <3>5
  <2>3. CASE l[1] # c
    <3>1. {k \in own : printed[c][k] = l} = {}
      <4>1. ASSUME NEW k \in own, printed[c][k] = l PROVE FALSE
        <5>1. l \in {c} \X (1 .. k)
          BY <4>1, <1>4
        <5> QED BY <5>1, <2>3
      <4> QED BY <4>1
    <3>2. Cardinality({k \in own : printed[c][k] = l}) = 0
      BY <3>1, FS_EmptySet
    <3> QED BY <2>1, <3>2
  <2> QED BY <2>2, <2>3
<1> DEFINE s == printed[c]
<1>11. Cardinality({printed[c][k] : k \in own}) + dups >= Cardinality(own)
  <2> HIDE DEF own
  <2> QED BY <1>6, <1>7, <1>8, <1>9, <1>10, PrintedTwice
<1> QED BY <1>4, <1>5, <1>11

----------------------------------------------------------------------------
(* The initial states. *)

LEMMA InitIInv == Init => IInv
<1> SUFFICES ASSUME Init PROVE IInv
  OBVIOUS
<1>1. Types
  BY DatagramAssumption DEF Init, Types
<1>2. Turns
  BY DEF Init, Turns
<1>3. \A p \in Packets : net[p] = 0
  BY DEF Init
<1>4. OwnNet /\ OwnAddr
  BY <1>3 DEF Init, OwnNet, OwnAddr
<1>5. NoiseOK
  BY <1>3 DEF Init, NoiseOK
<1>6. \A c \in Clients : Len(printed[c]) = 0
  BY DEF Init
<1>7. OwnLines
  BY <1>6 DEF OwnLines
<1>8. ASSUME NEW l \in Lines
      PROVE  Flight(net, server, mesg, l) = 0 /\ Occ(printed, l) = {}
  <2>1. net[Req(l)] = 0 /\ net[Ans(l)] = 0
    BY <1>3, ReqAns
  <2>2. Held(server, mesg, l) = 0
    BY DEF Init, Held
  <2>3. Occ(printed, l) = {}
    BY <1>6, LineParts DEF Occ
  <2> QED BY <2>1, <2>2, <2>3 DEF Flight
<1>9. Unsent
  BY <1>8 DEF Unsent
<1>10. Balanced
  <2>1. PICK D \in [1 .. 0 -> Lines \cup {Noise}] : TRUE
    <3>1. [i \in 1 .. 0 |-> Noise] \in [1 .. 0 -> Lines \cup {Noise}]
      OBVIOUS
    <3> QED BY <3>1
  <2>2. ASSUME NEW l \in Lines
        PROVE  Flight(net, server, mesg, l) + Cardinality(Occ(printed, l)) <= 1 + Cardinality(Dup(D, l))
    <3>1. Cardinality(Occ(printed, l)) = 0
      BY <1>8, FS_EmptySet
    <3>2. Cardinality(Dup(D, l)) \in Nat
      BY <2>1, DupFinite
    <3> QED BY <1>8, <3>1, <3>2
  <2>3. Accounts(net, server, mesg, printed, D)
    BY <2>2 DEF Accounts
  <2> QED BY <2>1, <2>3 DEF Init, Balanced
<1> QED BY <1>1, <1>2, <1>4, <1>5, <1>7, <1>9, <1>10 DEF IInv

----------------------------------------------------------------------------
(* Steps in which datagrams only get fewer, and nothing is printed. *)

LEMMA Fewer ==
  ASSUME IInv, Types', Turns',
         UNCHANGED <<kind, dups, strange, asked, printed>>,
         \A p \in Packets : net'[p] <= net[p],
         server' = "sendto" => server = "sendto" /\ UNCHANGED <<mesg, cliaddr>>
  PROVE  IInv'
<1>1. net \in [Packets -> Nat] /\ net' \in [Packets -> Nat] /\ dups \in Nat /\ strange \in Nat
  BY DatagramAssumption DEF IInv, Types
<1>2. \A p \in Packets : net[p] \in Nat /\ net'[p] \in Nat
  BY <1>1
<1>3. OwnNet'
  <2>1. \A p \in Packets : net'[p] > 0 => net[p] > 0
    BY <1>2
  <2> QED BY <2>1 DEF IInv, OwnNet
<1>4. OwnAddr'
  BY DEF IInv, OwnAddr
<1>5. NoiseOK'
  BY <1>1, <1>2 DEF IInv, NoiseOK
<1>6. OwnLines'
  BY DEF IInv, OwnLines
<1>7. \A l \in Lines :
        /\ Flight(net', server', mesg', l) <= Flight(net, server, mesg, l)
        /\ Flight(net', server', mesg', l) \in Nat
        /\ Flight(net, server, mesg, l) \in Nat
  BY <1>1, FlightLess, FlightNat
<1>8. Unsent'
  <2>1. ASSUME NEW l \in Lines, l[2] > asked[l[1]]
        PROVE  Flight(net', server', mesg', l) = 0 /\ Occ(printed, l) = {}
    <3>1. Flight(net, server, mesg, l) = 0 /\ Occ(printed, l) = {}
      BY <2>1 DEF IInv, Unsent
    <3> QED BY <3>1, <1>7
  <2> QED BY <2>1 DEF Unsent
<1>9. Balanced'
  <2>1. PICK D \in [1 .. dups -> Lines \cup {Noise}] : Accounts(net, server, mesg, printed, D)
    BY DEF IInv, Balanced
  <2>2. ASSUME NEW l \in Lines
        PROVE  Flight(net', server', mesg', l) + Cardinality(Occ(printed, l))
                 <= 1 + Cardinality(Dup(D, l))
    <3>1. Flight(net, server, mesg, l) + Cardinality(Occ(printed, l)) <= 1 + Cardinality(Dup(D, l))
      BY <2>1 DEF Accounts
    <3>2. Cardinality(Occ(printed, l)) \in Nat
      BY OccFinite DEF IInv, Types
    <3>3. Cardinality(Dup(D, l)) \in Nat
      BY <1>1, DupFinite
    <3> QED BY <3>1, <3>2, <3>3, <1>7
  <2>3. Accounts(net', server', mesg', printed', D)
    BY <2>2 DEF Accounts
  <2> QED BY <2>1, <2>3 DEF Balanced
<1> QED BY <1>3, <1>4, <1>5, <1>6, <1>8, <1>9 DEF IInv

LEMMA StutterStep == IInv /\ UNCHANGED vars => IInv'
<1> SUFFICES ASSUME IInv, UNCHANGED vars PROVE IInv'
  OBVIOUS
<1> USE DEF vars, netVars, rigid, counts, clientVars, serverVars
<1>1. Types' /\ Turns'
  BY DEF IInv, Types, Turns
<1>2. \A p \in Packets : net'[p] <= net[p]
  BY DEF IInv, Types
<1> QED BY <1>1, <1>2, Fewer

LEMMA CloseLess ==
  ASSUME net \in [Packets -> Nat], NEW c \in Clients, CloseSocket(c)
  PROVE  /\ refused' \subseteq refused /\ net' \in [Packets -> Nat]
         /\ \A p \in Packets : net'[p] <= net[p]
BY DEF CloseSocket

LEMMA ClientEndsStep ==
  ASSUME IInv, NEW c \in Clients, ClientEnds(c) \/ ClientFails(c)
  PROVE  IInv'
<1> USE DEF netVars, rigid, counts, serverVars
<1>1. PICK e \in {"quit", "done"} :
        at' = [at EXCEPT ![c] = e] /\ (e = "done" => at[c] = "fgets")
  BY DEF ClientEnds, ClientFails
<1>2. /\ at[c] \in {"fgets", "recvfrom"} /\ CloseSocket(c)
      /\ UNCHANGED <<rigid, counts, asked, printed, serverVars>>
  BY DEF ClientEnds, ClientFails
<1>3. refused' \subseteq refused /\ net' \in [Packets -> Nat] /\ \A p \in Packets : net'[p] <= net[p]
  BY <1>2, CloseLess DEF IInv, Types
<1>4. Types'
  BY <1>1, <1>2, <1>3 DEF IInv, Types
<1>5. Turns'
  BY <1>1, <1>2 DEF IInv, Types, Turns
<1> QED BY <1>2, <1>3, <1>4, <1>5, Fewer

LEMMA ClientRefusedStep ==
  ASSUME IInv, NEW c \in Clients, ClientRefused(c)
  PROVE  IInv'
<1> USE DEF rigid, counts, serverVars
<1>1. /\ at' = [at EXCEPT ![c] = "quit"] /\ CloseSocket(c)
      /\ UNCHANGED <<rigid, counts, asked, printed, serverVars>>
  BY DEF ClientRefused
<1>2. refused' \subseteq refused /\ net' \in [Packets -> Nat] /\ \A p \in Packets : net'[p] <= net[p]
  BY <1>1, CloseLess DEF IInv, Types
<1>3. Types'
  BY <1>1, <1>2 DEF IInv, Types
<1>4. Turns'
  BY <1>1 DEF IInv, Types, Turns
<1> QED BY <1>1, <1>2, <1>3, <1>4, Fewer

LEMMA ServerQuitsStep ==
  ASSUME IInv, ServerQuits
  PROVE  IInv'
<1> USE DEF rigid, counts, clientVars
<1>1. PICK W \in SUBSET Packets : net' = [p \in Packets |-> IF p \in W THEN 0 ELSE net[p]]
  BY DEF ServerQuits
<1>2. /\ server' = "quit"
      /\ mesg' = Noise /\ cliaddr' = Stranger
      /\ UNCHANGED <<rigid, counts, refused, clientVars>>
  BY DEF ServerQuits
<1>3. net' \in [Packets -> Nat] /\ \A p \in Packets : net'[p] <= net[p]
  BY <1>1 DEF IInv, Types
<1>4. Types'
  BY <1>2, <1>3 DEF IInv, Types
<1>5. Turns'
  BY <1>2 DEF IInv, Turns
<1> QED BY <1>2, <1>3, <1>4, <1>5, Fewer

LEMMA TakeLess ==
  ASSUME net \in [Packets -> Nat], NEW p \in Packets, Take(p)
  PROVE  /\ net' \in [Packets -> Nat] /\ net[p] > 0
         /\ \A q \in Packets : net'[q] <= net[q]
<1>1. net[p] > 0 /\ net' = [net EXCEPT ![p] = @ - 1]
  BY DEF Take
<1>2. /\ net' \in [Packets -> Nat]
      /\ \A q \in Packets : net'[q] = IF q = p THEN net[p] - 1 ELSE net[q]
  BY <1>1, TakenType
<1>3. \A q \in Packets : net[q] \in Nat
  OBVIOUS
<1> QED BY <1>1, <1>2, <1>3

LEMMA LoseStep ==
  ASSUME IInv, Lose
  PROVE  IInv'
<1> USE DEF rigid, counts, clientVars, serverVars
<1>1. PICK p \in Packets : Take(p)
  BY DEF Lose
<1>2. UNCHANGED <<rigid, counts, refused, clientVars, serverVars>>
  BY DEF Lose
<1>3. net' \in [Packets -> Nat] /\ \A q \in Packets : net'[q] <= net[q]
  BY <1>1, TakeLess DEF IInv, Types
<1>4. Types' /\ Turns'
  BY <1>2, <1>3 DEF IInv, Types, Turns
<1> QED BY <1>2, <1>3, <1>4, Fewer

LEMMA BounceStep ==
  ASSUME IInv, Bounce
  PROVE  IInv'
<1> USE DEF rigid, counts, clientVars, serverVars
<1>1. PICK p \in Packets :
        /\ Take(p)
        /\ refused' = refused \cup {c \in Clients \cap {p.from} :
                                     kind[c] = "connected" /\ ~Gone(c)}
  BY DEF Bounce
<1>2. UNCHANGED <<rigid, counts, clientVars, serverVars>>
  BY DEF Bounce
<1>3. net' \in [Packets -> Nat] /\ \A q \in Packets : net'[q] <= net[q]
  BY <1>1, TakeLess DEF IInv, Types
<1>4. refused' \subseteq {c \in Clients : kind'[c] = "connected"}
  BY <1>1, <1>2 DEF IInv, Types
<1>5. Types'
  BY <1>2, <1>3, <1>4 DEF IInv, Types
<1>6. Turns'
  BY <1>2 DEF IInv, Turns
<1> QED BY <1>2, <1>3, <1>5, <1>6, Fewer

----------------------------------------------------------------------------
(* Datagrams that appear in the network. *)

LEMMA PutAdds ==
  ASSUME net \in [Packets -> Nat], NEW p \in Packets, Put(p)
  PROVE  /\ net' = [net EXCEPT ![p] = @ + 1]
         /\ net' \in [Packets -> Nat]
         /\ \A q \in Packets : net'[q] = IF q = p THEN net[p] + 1 ELSE net[q]
<1>1. net' = [net EXCEPT ![p] = @ + 1]
  BY DEF Put
<1> QED BY <1>1, AddedType

LEMMA DuplicateStep ==
  ASSUME IInv, Duplicate
  PROVE  IInv'
<1> USE DEF rigid, clientVars, serverVars
<1>1. PICK p \in Packets : net[p] > 0 /\ Put(p)
  BY DEF Duplicate
<1>2. /\ dups < MaxDups /\ dups' = dups + 1
      /\ UNCHANGED <<rigid, strange, refused, clientVars, serverVars>>
  BY DEF Duplicate
<1>3. net \in [Packets -> Nat] /\ \A q \in Packets : net[q] \in Nat
  BY DEF IInv, Types
<1>4. /\ net' = [net EXCEPT ![p] = @ + 1]
      /\ net' \in [Packets -> Nat]
      /\ \A q \in Packets : net'[q] = IF q = p THEN net[p] + 1 ELSE net[q]
  BY <1>1, <1>3, PutAdds
<1>5. dups \in Nat /\ strange \in Nat /\ MaxDups \in Nat /\ dups' \in 0 .. MaxDups
  BY <1>2, DatagramAssumption DEF IInv, Types
<1>6. Types' /\ Turns'
  BY <1>2, <1>4, <1>5 DEF IInv, Types, Turns
<1>7. Owned(p) /\ p.data \in Lines \cup {Noise}
  BY <1>1, Kinds DEF IInv, OwnNet
<1>8. OwnNet'
  <2>1. \A q \in Packets : net'[q] > 0 => net[q] > 0
    BY <1>1, <1>4
  <2> QED BY <2>1 DEF IInv, OwnNet
<1>9. OwnAddr' /\ OwnLines'
  BY <1>2 DEF IInv, OwnAddr, OwnLines
<1>10. NoiseOK'
  <2>1. ASSUME NEW q \in Packets, q.data = Noise
        PROVE  net'[q] <= dups' + strange
    <3>1. net[q] <= dups + strange
      BY <2>1 DEF IInv, NoiseOK
    <3>2. net'[q] <= net[q] + 1
      BY <1>3, <1>4
    <3>3. net[q] \in Nat /\ net'[q] \in Nat
      BY <1>3, <1>4
    <3> QED BY <3>1, <3>2, <3>3, <1>2, <1>5
  <2> QED BY <2>1, <1>2 DEF NoiseOK
<1>11. ASSUME NEW l \in Lines
       PROVE  /\ Flight(net', server', mesg', l)
                   = Flight(net, server, mesg, l) + Hit(p.data, l)
              /\ Flight(net, server, mesg, l) \in Nat
  <2>1. server' = server /\ mesg' = mesg
    BY <1>2
  <2> OneMore(net, net', p)
    BY <1>4 DEF OneMore
  <2>2. Flight(net', server, mesg, l)
          = Flight(net, server, mesg, l) + Hit(p.data, l)
    BY <1>3, <1>4, <1>7, FlightAdded
  <2>3. Flight(net, server, mesg, l) \in Nat
    BY <1>3, FlightNat
  <2> QED BY <2>1, <2>2, <2>3
<1>12. \A l \in Lines : p.data = l => Flight(net, server, mesg, l) > 0
  <2>1. ASSUME NEW l \in Lines, p.data = l
        PROVE  Flight(net, server, mesg, l) > 0
    <3>1. p = Req(l) \/ p = Ans(l)
      BY <2>1, <1>7, Carries
    <3>2. /\ net[Req(l)] \in Nat /\ net[Ans(l)] \in Nat
          /\ Held(server, mesg, l) \in {0, 1}
      BY <1>3, FlightNat
    <3> QED BY <1>1, <3>1, <3>2 DEF Flight
  <2> QED BY <2>1
<1>13. Unsent'
  <2>1. ASSUME NEW l \in Lines, l[2] > asked[l[1]]
        PROVE  Flight(net', server', mesg', l) = 0 /\ Occ(printed, l) = {}
    <3>1. Flight(net, server, mesg, l) = 0 /\ Occ(printed, l) = {}
      BY <2>1 DEF IInv, Unsent
    <3> QED BY <3>1, <1>11, <1>12 DEF Hit
  <2> QED BY <2>1, <1>2 DEF Unsent
<1>14. Balanced'
  <2>1. PICK D \in [1 .. dups -> Lines \cup {Noise}] : Accounts(net, server, mesg, printed, D)
    BY DEF IInv, Balanced
  <2> DEFINE E == Longer(D, dups, p.data)
  <2>2. E \in [1 .. dups' -> Lines \cup {Noise}]
    BY <1>2, <1>5, <1>7, LongerType
  <2>3. ASSUME NEW l \in Lines
        PROVE  Flight(net', server', mesg', l) + Cardinality(Occ(printed, l))
                 <= 1 + Cardinality(Dup(E, l))
    <3>1. Flight(net, server, mesg, l) + Cardinality(Occ(printed, l)) <= 1 + Cardinality(Dup(D, l))
      BY <2>1 DEF Accounts
    <3>2. Cardinality(Occ(printed, l)) \in Nat
      BY OccFinite DEF IInv, Types
    <3>3. Cardinality(Dup(D, l)) \in Nat
      BY <1>5, DupFinite
    <3>4. Cardinality(Dup(E, l)) = Cardinality(Dup(D, l)) + Hit(p.data, l)
      BY <1>5, <1>7, DupAppended
    <3>5. Hit(p.data, l) \in {0, 1}
      BY DEF Hit
    <3> QED BY <3>1, <3>2, <3>3, <3>4, <3>5, <1>11
  <2> HIDE DEF E
  <2>4. Accounts(net', server', mesg', printed', E)
    BY <2>3, <1>2 DEF Accounts
  <2> QED BY <2>2, <2>4 DEF Balanced
<1> QED BY <1>6, <1>8, <1>9, <1>10, <1>13, <1>14 DEF IInv

LEMMA StrangeStep ==
  ASSUME IInv, Strange
  PROVE  IInv'
<1> USE DEF rigid, clientVars, serverVars
<1>1. PICK p \in Packets : p.from = Stranger /\ Put(p)
  BY DEF Strange
<1>2. /\ strange < MaxStrange /\ strange' = strange + 1
      /\ UNCHANGED <<rigid, dups, refused, clientVars, serverVars>>
  BY DEF Strange
<1>3. net \in [Packets -> Nat] /\ \A q \in Packets : net[q] \in Nat
  BY DEF IInv, Types
<1>4. /\ net' = [net EXCEPT ![p] = @ + 1]
      /\ net' \in [Packets -> Nat]
      /\ \A q \in Packets : net'[q] = IF q = p THEN net[p] + 1 ELSE net[q]
  BY <1>1, <1>3, PutAdds
<1>5. dups \in Nat /\ strange \in Nat /\ MaxStrange \in Nat /\ strange' \in 0 .. MaxStrange
  BY <1>2, DatagramAssumption DEF IInv, Types
<1>6. Types' /\ Turns'
  BY <1>2, <1>4, <1>5 DEF IInv, Types, Turns
<1>7. Owned(p) /\ p.data = Noise
  BY <1>1, Kinds, NoiseOwned
<1>8. OwnNet'
  <2>1. \A q \in Packets : net'[q] > 0 => q = p \/ net[q] > 0
    BY <1>4
  <2> QED BY <2>1, <1>7 DEF IInv, OwnNet, Owned
<1>9. OwnAddr' /\ OwnLines'
  BY <1>2 DEF IInv, OwnAddr, OwnLines
<1>10. NoiseOK'
  <2>1. ASSUME NEW q \in Packets, q.data = Noise
        PROVE  net'[q] <= dups + strange'
    <3>1. net[q] <= dups + strange
      BY <2>1 DEF IInv, NoiseOK
    <3>2. net'[q] <= net[q] + 1
      BY <1>3, <1>4
    <3>3. net[q] \in Nat /\ net'[q] \in Nat
      BY <1>3, <1>4
    <3> QED BY <3>1, <3>2, <3>3, <1>2, <1>5
  <2> QED BY <2>1, <1>2 DEF NoiseOK
<1>11. ASSUME NEW l \in Lines
       PROVE  Flight(net', server', mesg', l) = Flight(net, server, mesg, l)
  <2>1. server' = server /\ mesg' = mesg
    BY <1>2
  <2>2. p.data # l
    BY <1>7, NoiseApart
  <2>3. Flight(net, server, mesg, l) \in Nat
    BY <1>3, FlightNat
  <2> OneMore(net, net', p)
    BY <1>4 DEF OneMore
  <2>4. Flight(net', server, mesg, l)
          = Flight(net, server, mesg, l) + Hit(p.data, l)
    BY <1>3, <1>4, <1>7, FlightAdded
  <2> QED BY <2>1, <2>2, <2>3, <2>4 DEF Hit
<1>12. Unsent'
  BY <1>2, <1>11 DEF IInv, Unsent
<1>13. Balanced'
  BY <1>2, <1>11 DEF IInv, Balanced, Accounts
<1> QED BY <1>6, <1>8, <1>9, <1>10, <1>12, <1>13 DEF IInv

----------------------------------------------------------------------------
(* The server. *)

\* Steps that only move a line between network and server's buffer.
LEMMA SameFlight ==
  ASSUME IInv, Types', Turns', OwnNet', OwnAddr', NoiseOK',
         UNCHANGED <<kind, dups, asked, printed>>,
         \A l \in Lines : Flight(net', server', mesg', l) = Flight(net, server, mesg, l)
  PROVE  IInv'
<1>1. OwnLines'
  BY DEF IInv, OwnLines
<1>2. Unsent'
  BY DEF IInv, Unsent
<1>3. Balanced'
  BY DEF IInv, Balanced, Accounts
<1> QED BY <1>1, <1>2, <1>3 DEF IInv

LEMMA TakeTakes ==
  ASSUME net \in [Packets -> Nat], NEW p \in Packets, Take(p)
  PROVE  /\ net[p] > 0 /\ net' \in [Packets -> Nat] /\ OneLess(net, net', p)
         /\ \A q \in Packets : net'[q] <= net[q]
<1>1. net[p] > 0 /\ net' = [net EXCEPT ![p] = @ - 1]
  BY DEF Take
<1>2. /\ net' \in [Packets -> Nat]
      /\ \A q \in Packets : net'[q] = IF q = p THEN net[p] - 1 ELSE net[q]
  BY <1>1, TakenType
<1> QED BY <1>1, <1>2, TakeLess DEF OneLess

LEMMA PutPuts ==
  ASSUME net \in [Packets -> Nat], NEW p \in Packets, Put(p)
  PROVE  /\ net' \in [Packets -> Nat] /\ OneMore(net, net', p)
         /\ \A q \in Packets : q # p => net'[q] = net[q]
BY PutAdds DEF OneMore

LEMMA ServerReceivesStep ==
  ASSUME IInv, ServerReceives
  PROVE  IInv'
<1> USE DEF rigid, counts, clientVars
<1>1. PICK p \in Packets : p.to = Server /\ Take(p) /\ mesg' = p.data /\ cliaddr' = p.from
  BY DEF ServerReceives
<1>2. /\ server = "recvfrom" /\ server' = "sendto"
      /\ UNCHANGED <<rigid, counts, refused, clientVars>>
  BY DEF ServerReceives
<1>3. net \in [Packets -> Nat] /\ \A q \in Packets : net[q] \in Nat
  BY DEF IInv, Types
<1>4. /\ net[p] > 0 /\ net' \in [Packets -> Nat] /\ OneLess(net, net', p)
      /\ \A q \in Packets : net'[q] <= net[q]
  BY <1>1, <1>3, TakeTakes
<1>5. p.data \in Lines \cup {Noise} /\ p.from = p.data[1] /\ Owned(p)
  BY <1>1, Kinds, NoiseOwned
<1>6. p.from \in Clients \cup {Stranger}
  BY <1>5, NoiseApart, LineParts
<1>7. Types' /\ Turns'
  BY <1>1, <1>2, <1>4, <1>5, <1>6 DEF IInv, Types, Turns
<1>8. \A q \in Packets : net'[q] \in Nat
  BY <1>4
<1>9. OwnNet'
  <2>1. \A q \in Packets : net'[q] > 0 => net[q] > 0
    BY <1>3, <1>4, <1>8
  <2> QED BY <2>1 DEF IInv, OwnNet
<1>10. OwnAddr'
  BY <1>1, <1>5 DEF OwnAddr
<1>11. NoiseOK'
  <2>1. dups \in Nat /\ strange \in Nat
    BY DatagramAssumption DEF IInv, Types
  <2> QED BY <1>2, <1>3, <1>4, <1>8, <2>1 DEF IInv, NoiseOK
<1>12. ASSUME NEW l \in Lines
       PROVE  Flight(net', server', mesg', l) = Flight(net, server, mesg, l)
  <2>1. Flight(net', server, mesg, l) = Flight(net, server, mesg, l) - Hit(p.data, l)
    BY <1>3, <1>4, <1>5, FlightTaken
  <2>2. Held(server, mesg, l) = 0 /\ Held(server', mesg', l) = Hit(p.data, l)
    BY <1>1, <1>2 DEF Held, Hit
  <2>3. net'[Req(l)] \in Nat /\ net'[Ans(l)] \in Nat
    BY <1>8, ReqAns
  <2>4. Flight(net, server, mesg, l) \in Nat
    BY <1>3, FlightNat
  <2>5. Hit(p.data, l) \in {0, 1}
    BY DEF Hit
  <2>6. Flight(net', server, mesg, l) = net'[Req(l)] + net'[Ans(l)]
    BY <2>2, <2>3 DEF Flight
  <2>7. Flight(net', server', mesg', l) = net'[Req(l)] + net'[Ans(l)] + Hit(p.data, l)
    BY <2>2 DEF Flight
  <2> QED BY <2>1, <2>3, <2>4, <2>5, <2>6, <2>7
<1> QED BY <1>2, <1>7, <1>9, <1>10, <1>11, <1>12, SameFlight

LEMMA ServerSendsStep ==
  ASSUME IInv, ServerSends
  PROVE  IInv'
<1> USE DEF rigid, counts, clientVars
<1>1. /\ server = "sendto" /\ server' = "recvfrom"
      /\ UNCHANGED <<rigid, counts, refused, clientVars, mesg, cliaddr>>
  BY DEF ServerSends
<1>2. net \in [Packets -> Nat] /\ \A q \in Packets : net[q] \in Nat
  BY DEF IInv, Types
<1>3. cliaddr = mesg[1] /\ mesg \in Lines \cup {Noise} /\ cliaddr \in Clients \cup {Stranger}
  BY <1>1 DEF IInv, OwnAddr, Types
<1>4. OwnAddr'
  BY <1>1 DEF OwnAddr
<1>5. CASE cliaddr = Stranger \/ Gone(cliaddr)
  <2>1. net' = net
    BY <1>5 DEF ServerSends
  <2>2. Types' /\ Turns'
    BY <1>1, <2>1 DEF IInv, Types, Turns
  <2>3. \A q \in Packets : net'[q] <= net[q]
    BY <1>2, <2>1
  <2> QED BY <1>1, <2>2, <2>3, Fewer
<1>6. CASE cliaddr # Stranger /\ ~Gone(cliaddr)
  <2>1. mesg \in Lines
    BY <1>3, <1>6, NoiseApart
  <2>2. [to |-> cliaddr, from |-> Server, data |-> mesg] = Ans(mesg)
    BY <1>3 DEF Ans
  <2>3. Put(Ans(mesg))
    BY <1>6, <2>2 DEF ServerSends
  <2> DEFINE p == Ans(mesg)
  <2>4. p \in Packets /\ p.data = mesg /\ p.from = Server /\ p.to = mesg[1]
    BY <2>1, ReqAns
  <2>5. Put(p)
    BY <2>3
  <2> HIDE DEF p
  <2>6. Owned(p)
    BY <2>4 DEF Owned
  <2>7. /\ net' \in [Packets -> Nat] /\ OneMore(net, net', p)
        /\ \A q \in Packets : q # p => net'[q] = net[q]
    BY <1>2, <2>4, <2>5, PutPuts
  <2>8. Types' /\ Turns'
    BY <1>1, <2>7 DEF IInv, Types, Turns
  <2>9. OwnNet'
    BY <2>6, <2>7 DEF IInv, OwnNet, Owned
  <2>10. NoiseOK'
    <3>1. p.data # Noise
      BY <2>1, <2>4, NoiseApart
    <3> QED BY <1>1, <2>7, <3>1 DEF IInv, NoiseOK
  <2>11. ASSUME NEW l \in Lines
         PROVE  Flight(net', server', mesg', l) = Flight(net, server, mesg, l)
    <3>1. Flight(net', server, mesg, l) = Flight(net, server, mesg, l) + Hit(mesg, l)
      BY <1>2, <2>4, <2>6, <2>7, FlightAdded
    <3>2. Held(server, mesg, l) = Hit(mesg, l) /\ Held(server', mesg', l) = 0
      BY <1>1 DEF Held, Hit
    <3>3. net'[Req(l)] \in Nat /\ net'[Ans(l)] \in Nat
      BY <2>7, ReqAns
    <3>4. Flight(net, server, mesg, l) \in Nat
      BY <1>2, FlightNat
    <3>5. Hit(mesg, l) \in {0, 1}
      BY DEF Hit
    <3>6. Flight(net', server, mesg, l) = net'[Req(l)] + net'[Ans(l)] + Hit(mesg, l)
      BY <3>2 DEF Flight
    <3>7. Flight(net', server', mesg', l) = net'[Req(l)] + net'[Ans(l)]
      BY <3>2, <3>3 DEF Flight
    <3> QED BY <3>1, <3>3, <3>4, <3>5, <3>6, <3>7
  <2> QED BY <1>1, <1>4, <2>8, <2>9, <2>10, <2>11, SameFlight
<1> QED BY <1>5, <1>6

----------------------------------------------------------------------------
(* The clients. *)

LEMMA ClientSendsStep ==
  ASSUME IInv, NEW c \in Clients, ClientSends(c)
  PROVE  IInv'
<1> USE DEF rigid, counts, serverVars
<1> DEFINE n == <<c, asked[c] + 1>>
           p == Req(n)
<1>1. /\ at[c] = "fgets" /\ asked[c] < MaxLines
      /\ asked' = [asked EXCEPT ![c] = @ + 1]
      /\ at' = [at EXCEPT ![c] = "recvfrom"]
      /\ UNCHANGED <<rigid, counts, refused, printed, serverVars>>
  BY DEF ClientSends
<1>2. net \in [Packets -> Nat] /\ \A q \in Packets : net[q] \in Nat
  BY DEF IInv, Types
<1>3. /\ asked[c] \in Nat /\ MaxLines \in Nat
      /\ asked \in [Clients -> 0 .. MaxLines] /\ asked[c] + 1 \in 1 .. MaxLines
  BY <1>1, DatagramAssumption DEF IInv, Types
<1>4. n \in Lines /\ n[1] = c /\ n[2] = asked[c] + 1
  BY <1>3 DEF Lines
<1>5. [to |-> Server, from |-> c, data |-> n] = p
  BY <1>4 DEF Req
<1>6. Put(p)
  BY <1>5 DEF ClientSends
<1> HIDE DEF n, p
<1>7. p \in Packets /\ p.data = n /\ p.to = Server
  BY <1>4, ReqAns DEF p
<1>8. Owned(p) /\ n # Noise
  BY <1>4, <1>7, NoiseOwned, NoiseApart
<1>9. /\ net' \in [Packets -> Nat] /\ OneMore(net, net', p)
      /\ \A q \in Packets : q # p => net'[q] = net[q]
  BY <1>2, <1>6, <1>7, PutPuts
<1>10. asked' \in [Clients -> 0 .. MaxLines]
  <2>1. asked[c] + 1 \in 0 .. MaxLines
    BY <1>3
  <2> QED BY <1>1, <1>3, <2>1
<1>11. Types'
  BY <1>1, <1>9, <1>10 DEF IInv, Types
<1>12. Turns'
  <2>1. Len(printed[c]) = asked[c]
    BY <1>1 DEF IInv, Turns
  <2>2. asked'[c] = asked[c] + 1 /\ at'[c] = "recvfrom"
    BY <1>1, <1>3 DEF IInv, Types
  <2>3. asked'[c] - 1 = asked[c]
    BY <2>2, <1>3
  <2>4. \A d \in Clients : d # c => asked'[d] = asked[d] /\ at'[d] = at[d]
    BY <1>1
  <2>5. printed' = printed
    BY <1>1
  <2>6. ASSUME NEW d \in Clients
        PROVE  /\ at'[d] \in {"fgets", "done"} => Len(printed'[d]) = asked'[d]
               /\ at'[d] = "recvfrom" => Len(printed'[d]) = asked'[d] - 1
    <3>1. CASE d = c
      BY <2>1, <2>2, <2>3, <2>5, <3>1
    <3>2. CASE d # c
      BY <2>4, <2>5, <3>2 DEF IInv, Turns
    <3> QED BY <3>1, <3>2
  <2> QED BY <2>6 DEF Turns
<1>13. OwnNet'
  BY <1>8, <1>9 DEF IInv, OwnNet
<1>14. OwnAddr' /\ OwnLines'
  BY <1>1 DEF IInv, OwnAddr, OwnLines
<1>15. NoiseOK'
  BY <1>1, <1>7, <1>8, <1>9 DEF IInv, NoiseOK
<1>16. ASSUME NEW l \in Lines
       PROVE  /\ Flight(net', server', mesg', l) = Flight(net, server, mesg, l) + Hit(n, l)
              /\ Flight(net, server, mesg, l) \in Nat /\ Hit(n, l) \in {0, 1}
  <2>1. Flight(net', server, mesg, l) = Flight(net, server, mesg, l) + Hit(n, l)
    BY <1>2, <1>7, <1>8, <1>9, FlightAdded
  <2>2. Flight(net, server, mesg, l) \in Nat
    BY <1>2, FlightNat
  <2> QED BY <1>1, <2>1, <2>2 DEF Hit
<1>17. Flight(net, server, mesg, n) = 0 /\ Occ(printed, n) = {}
  <2>1. n[2] > asked[n[1]]
    BY <1>3, <1>4
  <2> QED BY <1>4, <2>1 DEF IInv, Unsent
<1>18. Unsent'
  <2>1. ASSUME NEW l \in Lines, l[2] > asked'[l[1]]
        PROVE  Flight(net', server', mesg', l) = 0 /\ Occ(printed', l) = {}
    <3>1. l[1] \in Clients /\ l[2] \in Nat
      BY LineParts, <1>3
    <3>2. l[2] > asked[l[1]] /\ l # n
      <4>1. CASE l[1] = c
        <5>1. asked'[l[1]] = asked[c] + 1
          BY <4>1, <1>1, <1>3
        <5> QED BY <4>1, <5>1, <3>1, <1>3, <1>4, <2>1
      <4>2. CASE l[1] # c
        BY <4>2, <3>1, <1>1, <1>4, <2>1
      <4> QED BY <4>1, <4>2
    <3>3. Flight(net, server, mesg, l) = 0 /\ Occ(printed, l) = {}
      BY <3>2 DEF IInv, Unsent
    <3>4. Hit(n, l) = 0
      BY <3>2 DEF Hit
    <3> QED BY <1>1, <1>16, <3>3, <3>4
  <2> QED BY <2>1 DEF Unsent
<1>19. Balanced'
  <2>1. PICK D \in [1 .. dups -> Lines \cup {Noise}] : Accounts(net, server, mesg, printed, D)
    BY DEF IInv, Balanced
  <2>2. dups \in Nat
    BY DatagramAssumption DEF IInv, Types
  <2>3. ASSUME NEW l \in Lines
        PROVE  Flight(net', server', mesg', l) + Cardinality(Occ(printed, l))
                 <= 1 + Cardinality(Dup(D, l))
    <3>1. Flight(net, server, mesg, l) + Cardinality(Occ(printed, l)) <= 1 + Cardinality(Dup(D, l))
      BY <2>1 DEF Accounts
    <3>2. Cardinality(Occ(printed, l)) \in Nat
      BY OccFinite DEF IInv, Types
    <3>3. Cardinality(Dup(D, l)) \in Nat
      BY <2>2, DupFinite
    <3>4. CASE l = n
      <4>1. Cardinality(Occ(printed, l)) = 0
        BY <3>4, <1>17, FS_EmptySet
      <4>2. Flight(net, server, mesg, l) = 0
        BY <3>4, <1>17
      <4> QED BY <4>1, <4>2, <3>3, <1>16
    <3>5. CASE l # n
      <4>1. Hit(n, l) = 0
        BY <3>5 DEF Hit
      <4> QED BY <4>1, <3>1, <3>2, <3>3, <1>16
    <3> QED BY <3>4, <3>5
  <2>4. Accounts(net', server', mesg', printed', D)
    BY <2>3, <1>1 DEF Accounts
  <2> QED BY <1>1, <2>1, <2>4 DEF Balanced
<1> QED BY <1>11, <1>12, <1>13, <1>14, <1>15, <1>18, <1>19 DEF IInv

LEMMA ClientReceivesStep ==
  ASSUME IInv, NEW c \in Clients, ClientReceives(c)
  PROVE  IInv'
<1> USE DEF rigid, counts, serverVars
<1>1. PICK p \in Accepted(c) :
        Take(p) /\ printed' = [printed EXCEPT ![c] = Append(@, p.data)]
  BY DEF ClientReceives
<1>2. /\ at[c] = "recvfrom" /\ at' = [at EXCEPT ![c] = "fgets"]
      /\ UNCHANGED <<rigid, counts, refused, asked, serverVars>>
  BY DEF ClientReceives
<1>3. p \in Packets /\ p.to = c /\ (kind[c] = "connected" => p.from = Server)
  BY <1>1 DEF Accepted
<1>4. net \in [Packets -> Nat] /\ \A q \in Packets : net[q] \in Nat
  BY DEF IInv, Types
<1>5. /\ net[p] > 0 /\ net' \in [Packets -> Nat] /\ OneLess(net, net', p)
      /\ \A q \in Packets : net'[q] <= net[q]
  BY <1>1, <1>3, <1>4, TakeTakes
<1>6. Owned(p)
  BY <1>3, <1>5 DEF IInv, OwnNet
<1>7. PICK x \in Lines \cup {Noise} : x = p.data
  BY <1>3, Kinds
<1>8. /\ x \in Lines => x[1] = c
      /\ x \notin Lines => x = Noise /\ kind[c] = "plain"
  <2>1. p.to # Server
    BY <1>3, NoiseApart
  <2>2. p.from \in {Server, Stranger}
    BY <1>3, <2>1, Kinds
  <2>3. CASE p.from = Server
    <3>1. p.data \in Lines
      BY <1>3, <2>3, Kinds
    <3> QED BY <1>3, <1>6, <1>7, <2>3, <3>1 DEF Owned
  <2>4. CASE p.from = Stranger
    <3>1. p.data = Noise
      BY <1>3, <2>4, Kinds
    <3>2. kind[c] # "connected"
      BY <1>3, <2>4, NoiseApart
    <3>3. kind[c] \in {"plain", "connected"}
      BY DEF IInv, Types
    <3> QED BY <1>7, <3>1, <3>2, <3>3, NoiseApart
  <2> QED BY <2>2, <2>3, <2>4
<1>9. printed \in [Clients -> Seq(Lines \cup {Noise})]
  BY DEF IInv, Types
<1>10. printed' = [printed EXCEPT ![c] = Append(@, x)]
  BY <1>1, <1>7
<1>11. PICK k \in Nat : k = Len(printed[c])
  BY <1>9
<1>12. /\ printed' \in [Clients -> Seq(Lines \cup {Noise})]
       /\ Len(printed'[c]) = k + 1 /\ printed'[c][k + 1] = x
       /\ \A j \in 1 .. k : printed'[c][j] = printed[c][j]
       /\ \A d \in Clients : d # c => printed'[d] = printed[d]
  <2>1. printed'[c] = Append(printed[c], x) /\ printed[c] \in Seq(Lines \cup {Noise})
    BY <1>9, <1>10
  <2>2. Append(printed[c], x) \in Seq(Lines \cup {Noise})
    BY <2>1
  <2>3. /\ Len(printed'[c]) = k + 1 /\ printed'[c][k + 1] = x
        /\ \A j \in 1 .. k : printed'[c][j] = printed[c][j]
    BY <1>11, <2>1
  <2>4. \A d \in Clients : d # c => printed'[d] = printed[d]
    BY <1>9, <1>10
  <2>5. printed' \in [Clients -> Seq(Lines \cup {Noise})]
    BY <1>9, <1>10, <2>2
  <2> QED BY <2>3, <2>4, <2>5
<1>13. asked[c] = k + 1 /\ asked \in [Clients -> 0 .. MaxLines] /\ MaxLines \in Nat
  <2>1. asked \in [Clients -> 0 .. MaxLines] /\ MaxLines \in Nat
    BY DatagramAssumption DEF IInv, Types
  <2>2. Len(printed[c]) = asked[c] - 1 /\ asked[c] \in Nat
    BY <1>2, <2>1 DEF IInv, Turns
  <2> QED BY <1>11, <2>1, <2>2
<1>14. Types'
  BY <1>2, <1>5, <1>12 DEF IInv, Types
<1>15. Turns'
  <2>1. at \in [Clients -> {"fgets", "recvfrom", "done", "quit"}]
    BY DEF IInv, Types
  <2>2. ASSUME NEW d \in Clients
        PROVE  /\ at'[d] \in {"fgets", "done"} => Len(printed'[d]) = asked'[d]
               /\ at'[d] = "recvfrom" => Len(printed'[d]) = asked'[d] - 1
    <3>1. CASE d = c
      <4>1. at'[d] = "fgets" /\ Len(printed'[d]) = asked'[d]
        BY <3>1, <2>1, <1>2, <1>12, <1>13
      <4> QED BY <4>1
    <3>2. CASE d # c
      <4>1. at'[d] = at[d] /\ printed'[d] = printed[d] /\ asked'[d] = asked[d]
        BY <3>2, <2>1, <1>2, <1>12
      <4> QED BY <4>1 DEF IInv, Turns
    <3> QED BY <3>1, <3>2
  <2> QED BY <2>2 DEF Turns
<1>16. \A q \in Packets : net'[q] \in Nat
  BY <1>5
<1>17. OwnNet'
  <2>1. \A q \in Packets : net'[q] > 0 => net[q] > 0
    BY <1>4, <1>5, <1>16
  <2> QED BY <2>1 DEF IInv, OwnNet
<1>18. OwnAddr'
  BY <1>2 DEF IInv, OwnAddr
<1>19. NoiseOK'
  <2>1. dups \in Nat /\ strange \in Nat
    BY DatagramAssumption DEF IInv, Types
  <2> QED BY <1>2, <1>4, <1>5, <1>16, <2>1 DEF IInv, NoiseOK
<1>20. ASSUME NEW l \in Lines
       PROVE  /\ Flight(net', server', mesg', l) = Flight(net, server, mesg, l) - Hit(x, l)
              /\ Flight(net, server, mesg, l) \in Nat /\ Hit(x, l) \in {0, 1}
              /\ x = l => Flight(net, server, mesg, l) > 0
  <2>1. Flight(net', server, mesg, l) = Flight(net, server, mesg, l) - Hit(x, l)
    BY <1>3, <1>4, <1>5, <1>6, <1>7, FlightTaken
  <2>2. Flight(net, server, mesg, l) \in Nat
    BY <1>4, FlightNat
  <2>3. ASSUME x = l PROVE Flight(net, server, mesg, l) > 0
    <3>1. p = Req(l) \/ p = Ans(l)
      BY <2>3, <1>3, <1>6, <1>7, Carries
    <3>2. /\ net[Req(l)] \in Nat /\ net[Ans(l)] \in Nat
          /\ Held(server, mesg, l) \in {0, 1}
      BY <1>4, FlightNat
    <3> QED BY <1>5, <3>1, <3>2 DEF Flight
  <2>4. Hit(x, l) \in {0, 1}
    BY DEF Hit
  <2> QED BY <1>2, <2>1, <2>2, <2>3, <2>4
<1>21. ASSUME NEW l \in Lines
       PROVE  /\ Cardinality(Occ(printed', l)) = Cardinality(Occ(printed, l)) + Hit(x, l)
              /\ Cardinality(Occ(printed, l)) \in Nat
              /\ IsFiniteSet(Occ(printed', l))
  <2>1. Appended(printed, printed', c, x)
    BY <1>10 DEF Appended
  <2>2. Cardinality(Occ(printed', l)) = Cardinality(Occ(printed, l)) + Hit(x, l)
    BY <2>1, <1>8, <1>9, OccAppended
  <2> QED BY <2>2, <1>9, <1>12, OccFinite
<1>22. OwnLines'
  <2>1. ASSUME NEW d \in Clients, NEW j \in 1 .. Len(printed'[d])
        PROVE  \/ printed'[d][j] = Noise /\ kind[d] = "plain"
               \/ printed'[d][j] \in {d} \X (1 .. j)
    <3>1. CASE d # c
      BY <3>1, <1>12 DEF IInv, OwnLines
    <3>2. CASE d = c /\ j \in 1 .. k
      BY <3>2, <1>11, <1>12 DEF IInv, OwnLines
    <3>3. CASE d = c /\ j = k + 1
      <4>1. CASE x \notin Lines
        BY <3>3, <4>1, <1>8, <1>12
      <4>2. CASE x \in Lines
        <5>1. x = <<x[1], x[2]>> /\ x[1] = c /\ x[2] \in 1 .. MaxLines
          BY <4>2, <1>8, LineParts
        <5>2. ~(x[2] > asked[x[1]])
          BY <4>2, <1>20 DEF IInv, Unsent
        <5>3. x[2] \in 1 .. j
          BY <3>3, <5>1, <5>2, <1>13
        <5>4. x \in {c} \X (1 .. j)
          BY <5>1, <5>3
        <5> QED BY <5>4, <3>3, <1>12
      <4> QED BY <4>1, <4>2
    <3>4. d = c => j \in 1 .. k \/ j = k + 1
      BY <1>12
    <3> QED BY <3>1, <3>2, <3>3, <3>4
  <2>2. kind' = kind
    BY <1>2
  <2> QED BY <2>1, <2>2 DEF OwnLines
<1>23. Unsent'
  <2>1. ASSUME NEW l \in Lines, l[2] > asked[l[1]]
        PROVE  Flight(net', server', mesg', l) = 0 /\ Occ(printed', l) = {}
    <3>1. Flight(net, server, mesg, l) = 0 /\ Occ(printed, l) = {}
      BY <2>1 DEF IInv, Unsent
    <3>2. Hit(x, l) = 0
      BY <3>1, <1>20 DEF Hit
    <3>3. Cardinality(Occ(printed, l)) = 0
      BY <3>1, FS_EmptySet
    <3>4. Cardinality(Occ(printed', l)) = 0
      BY <3>2, <3>3, <1>21
    <3>5. Occ(printed', l) = {}
      BY <3>4, <1>21, FS_EmptySet
    <3> QED BY <3>1, <3>2, <3>5, <1>20
  <2>2. asked' = asked
    BY <1>2
  <2> QED BY <2>1, <2>2 DEF Unsent
<1>24. Balanced'
  <2>1. PICK D \in [1 .. dups -> Lines \cup {Noise}] : Accounts(net, server, mesg, printed, D)
    BY DEF IInv, Balanced
  <2>2. dups \in Nat
    BY DatagramAssumption DEF IInv, Types
  <2>3. ASSUME NEW l \in Lines
        PROVE  Flight(net', server', mesg', l) + Cardinality(Occ(printed', l))
                 <= 1 + Cardinality(Dup(D, l))
    <3>1. Flight(net, server, mesg, l) + Cardinality(Occ(printed, l)) <= 1 + Cardinality(Dup(D, l))
      BY <2>1 DEF Accounts
    <3>2. Cardinality(Dup(D, l)) \in Nat
      BY <2>2, DupFinite
    <3> QED BY <3>1, <3>2, <1>20, <1>21
  <2>4. Accounts(net', server', mesg', printed', D)
    BY <2>3 DEF Accounts
  <2> QED BY <1>2, <2>1, <2>4 DEF Balanced
<1> QED BY <1>14, <1>15, <1>17, <1>18, <1>19, <1>22, <1>23, <1>24 DEF IInv

----------------------------------------------------------------------------
(* The theorems. *)

LEMMA Inductive == IInv /\ [Next]_vars => IInv'
<1> SUFFICES ASSUME IInv, [Next]_vars PROVE IInv'
  OBVIOUS
<1>1. CASE Echo \/ ServerQuits
  BY <1>1, ServerReceivesStep, ServerSendsStep, ServerQuitsStep DEF Echo
<1>2. CASE Lose
  BY <1>2, LoseStep
<1>3. CASE Duplicate
  BY <1>3, DuplicateStep
<1>4. CASE Strange
  BY <1>4, StrangeStep
<1>5. CASE Bounce
  BY <1>5, BounceStep
<1>6. ASSUME NEW c \in Clients, Client(c) \/ ClientFails(c)
      PROVE  IInv'
  BY <1>6, ClientSendsStep, ClientEndsStep, ClientReceivesStep, ClientRefusedStep DEF Client
<1>7. CASE UNCHANGED vars
  BY <1>7, StutterStep
<1> QED BY <1>1, <1>2, <1>3, <1>4, <1>5, <1>6, <1>7 DEF Next

LEMMA Invariant == Spec => []IInv
<1> QED BY InitIInv, Inductive, PTL DEF Spec

\* Of no datagram are there more copies than have been sent, duplicated and
\* answered for, and each client has printed one answer for each line but the
\* one it waits for.
THEOREM TypeCorrect == Spec => []TypeOK
<1> QED BY Invariant, InvTypeOK, PTL

\* Answers keep step with the lines, as far as duplicates and, on a plain
\* socket, other programs allow, whatever is lost or reordered.
THEOREM AnswersKeepStep == Spec => []InStep
<1> QED BY Invariant, InvInStep, PTL

----------------------------------------------------------------------------
(* Without duplicates and strangers. *)

\* The k-th answer belongs to the k-th line, as long as nothing has been
\* duplicated and no other program has reached the client.
KthAnswer ==
  \A c \in Clients : dups = 0 /\ (kind[c] = "connected" \/ strange = 0) =>
    \A k \in 1 .. Len(printed[c]) : printed[c][k] = <<c, k>>

LEMMA KthInit == Init => KthAnswer
BY DEF Init, KthAnswer

\* dg_cli() of another client, the server and the network print nothing, and
\* what has been duplicated or come from elsewhere has been so for good.
LEMMA OthersPrintNothing ==
  ASSUME IInv, [Next]_vars, NEW c \in Clients
  PROVE  /\ kind' = kind
         /\ dups' = 0 => dups = 0
         /\ strange' = 0 => strange = 0
         /\ printed'[c] = printed[c] \/ ClientReceives(c)
<1> USE DEF vars, netVars, rigid, counts, clientVars, serverVars
<1>0. dups \in Nat /\ strange \in Nat /\ printed \in [Clients -> Seq(Lines \cup {Noise})]
  BY DatagramAssumption DEF IInv, Types
<1>1. CASE Echo \/ ServerQuits
  BY <1>1 DEF Echo, ServerReceives, ServerSends, ServerQuits
<1>2. CASE Lose \/ Bounce
  BY <1>2 DEF Lose, Bounce
<1>3. CASE Duplicate \/ Strange
  BY <1>0, <1>3 DEF Duplicate, Strange
<1>4. ASSUME NEW d \in Clients, Client(d) \/ ClientFails(d)
      PROVE  /\ UNCHANGED <<kind, dups, strange>>
             /\ printed'[c] = printed[c] \/ ClientReceives(c)
  <2>1. CASE ClientSends(d) \/ ClientEnds(d) \/ ClientFails(d) \/ ClientRefused(d)
    BY <2>1 DEF ClientSends, ClientEnds, ClientFails, ClientRefused
  <2>2. CASE ClientReceives(d) /\ d = c
    BY <2>2 DEF ClientReceives
  <2>3. CASE ClientReceives(d) /\ d # c
    <3>1. PICK p \in Accepted(d) : printed' = [printed EXCEPT ![d] = Append(@, p.data)]
      BY <2>3 DEF ClientReceives
    <3>2. printed'[c] = printed[c]
      BY <1>0, <2>3, <3>1
    <3> QED BY <2>3, <3>2 DEF ClientReceives
  <2> QED BY <1>4, <2>1, <2>2, <2>3 DEF Client
<1>5. CASE UNCHANGED vars
  BY <1>5
<1> QED BY <1>1, <1>2, <1>3, <1>4, <1>5 DEF Next

LEMMA KthStep == IInv /\ KthAnswer /\ [Next]_vars => KthAnswer'
<1> SUFFICES ASSUME IInv, KthAnswer, [Next]_vars, NEW c \in Clients,
                    dups' = 0, kind'[c] = "connected" \/ strange' = 0,
                    NEW k \in 1 .. Len(printed'[c])
             PROVE  printed'[c][k] = <<c, k>>
  BY DEF KthAnswer
<1>1. /\ dups = 0 /\ (kind[c] = "connected" \/ strange = 0)
      /\ printed'[c] = printed[c] \/ ClientReceives(c)
  BY OthersPrintNothing
<1>2. \A j \in 1 .. Len(printed[c]) : printed[c][j] = <<c, j>>
  BY <1>1 DEF KthAnswer
<1>3. CASE printed'[c] = printed[c]
  BY <1>2, <1>3
<1>4. CASE ClientReceives(c)
  <2>1. PICK p \in Accepted(c) :
          Take(p) /\ printed' = [printed EXCEPT ![c] = Append(@, p.data)]
    BY <1>4 DEF ClientReceives
  <2>2. p \in Packets /\ p.to = c /\ (kind[c] = "connected" => p.from = Server)
    BY <2>1 DEF Accepted
  <2>3. net[p] > 0 /\ net \in [Packets -> Nat]
    BY <2>1 DEF IInv, Types, Take
  <2>4. Owned(p)
    BY <2>2, <2>3 DEF IInv, OwnNet
  <2>5. p.to # Server
    BY <2>2, NoiseApart
  <2>6. p.data # Noise
    <3>1. CASE kind[c] = "connected"
      BY <3>1, <2>2, Kinds, NoiseApart
    <3>2. CASE strange = 0
      <4>1. p.data = Noise => net[p] <= 0
        BY <3>2, <1>1, <2>2 DEF IInv, NoiseOK
      <4>2. net[p] \in Nat
        BY <2>2, <2>3
      <4> QED BY <4>1, <4>2, <2>3
    <3> QED BY <1>1, <3>1, <3>2
  <2>7. PICK l \in Lines : l = p.data
    BY <2>2, <2>6, Kinds
  <2>8. p.from = Server
    BY <2>2, <2>5, <2>6, Kinds
  <2>9. l[1] = c /\ l[2] \in Nat \ {0} /\ l = <<l[1], l[2]>>
    <3>1. MaxLines \in Nat
      BY DatagramAssumption
    <3> QED BY <2>2, <2>4, <2>7, <2>8, <3>1, LineParts DEF Owned
  <2>10. Flight(net, server, mesg, l) > 0
    <3>1. p = Req(l) \/ p = Ans(l)
      BY <2>2, <2>4, <2>7, Carries
    <3>2. /\ net[Req(l)] \in Nat /\ net[Ans(l)] \in Nat
          /\ Held(server, mesg, l) \in {0, 1}
      BY <2>3, FlightNat
    <3> QED BY <2>3, <3>1, <3>2 DEF Flight
  <2>11. PICK n \in Nat : n = Len(printed[c])
    BY DEF IInv, Types
  <2>12. l[2] <= n + 1
    <3>1. ~(l[2] > asked[l[1]])
      BY <2>10 DEF IInv, Unsent
    <3>2. asked[c] \in Nat
      BY DatagramAssumption DEF IInv, Types
    <3>3. Len(printed[c]) = asked[c] - 1
      BY <1>4 DEF IInv, Turns, ClientReceives
    <3> QED BY <3>1, <3>2, <3>3, <2>9, <2>11
  <2>13. ASSUME l[2] <= n PROVE FALSE
    <3>1. PICK D \in [1 .. dups -> Lines \cup {Noise}] : Accounts(net, server, mesg, printed, D)
      BY DEF IInv, Balanced
    <3>2. Flight(net, server, mesg, l) + Cardinality(Occ(printed, l)) <= 1 + Cardinality(Dup(D, l))
      BY <3>1 DEF Accounts
    <3>3. Cardinality(Dup(D, l)) \in Nat /\ Cardinality(Dup(D, l)) <= 0
      BY <1>1, <3>1, DupFinite
    <3>4. l[2] \in 1 .. n
      BY <2>9, <2>13, <2>11
    <3>5. printed[c][l[2]] = l
      BY <1>2, <2>9, <2>11, <3>4
    <3>6. l[2] \in Occ(printed, l)
      BY <2>9, <2>11, <3>4, <3>5 DEF Occ
    <3>7. IsFiniteSet(Occ(printed, l)) /\ Cardinality(Occ(printed, l)) \in Nat
      BY OccFinite DEF IInv, Types
    <3>8. Cardinality(Occ(printed, l)) # 0
      BY <3>6, <3>7, FS_EmptySet
    <3>9. Flight(net, server, mesg, l) \in Nat
      BY <2>3, FlightNat
    <3> QED BY <2>10, <3>2, <3>3, <3>7, <3>8, <3>9
  <2>14. l = <<c, n + 1>>
    BY <2>9, <2>11, <2>12, <2>13
  <2>15. printed[c] \in Seq(Lines \cup {Noise}) /\ printed'[c] = Append(printed[c], l)
    BY <2>1, <2>7 DEF IInv, Types
  <2>16. /\ Len(printed'[c]) = n + 1 /\ printed'[c][n + 1] = l
         /\ \A j \in 1 .. n : printed'[c][j] = printed[c][j]
    BY <2>11, <2>15
  <2>17. k \in 1 .. n \/ k = n + 1
    BY <2>16
  <2> QED BY <1>2, <2>11, <2>14, <2>16, <2>17
<1> QED BY <1>1, <1>3, <1>4

\* Over a network that duplicates nothing, and where no other program reaches
\* the client, the k-th answer that dg_cli() prints belongs to the k-th line,
\* whatever has been lost or reordered.
THEOREM AnswerMatchesLine == Spec => []KthAnswer
<1>1. Spec => []IInv
  BY Invariant
<1> QED BY <1>1, KthInit, KthStep, PTL DEF Spec

============================================================================
