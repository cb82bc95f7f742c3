--------------------------- MODULE SocketAddress ---------------------------
(***************************************************************************)
(* The library's SocketAddress: a sockaddr_storage, in which a sockaddr_in *)
(* and a sockaddr_in6 overlap, and a length beside it.  The port has the   *)
(* same place in both; the two addresses have places of their own, and     *)
(* what one family has written stays behind when the other is set.         *)
(***************************************************************************)
EXTENDS Naturals

CONSTANT Hosts   \* addresses of each family, by number; 0 is the unspecified one
ASSUME HostsAssumption == Hosts \subseteq Nat \ {0}

Families == {"v4", "v6"}
SizeOf == [v4 |-> 16, v6 |-> 28, storage |-> 128]

SocketAddresses ==
  [family : Families \cup {"none"}, v4 : Hosts \cup {0}, v6 : Hosts \cup {0},
   port : Hosts \cup {0}, len : {SizeOf[s] : s \in DOMAIN SizeOf}]

\* SocketAddress()
EmptyAddress == [family |-> "none", v4 |-> 0, v6 |-> 0, port |-> 0, len |-> SizeOf["storage"]]

\* What a text can be: an address of either family, or neither.
Texts == (Families \X Hosts) \cup {<<"invalid", 0>>}

IsAddress(text) == text[1] \in Families

\* setAddressPort(): inet_pton() for each family in turn, in place.  When both
\* fail the family has become AF_INET6 and the rest is as before; addrLen_ is
\* never touched.
SetAddressPort(addr, text, port) ==
  CASE text[1] = "v4" -> [addr EXCEPT !.family = "v4", !.v4 = text[2], !.port = port]
    [] text[1] = "v6" -> [addr EXCEPT !.family = "v6", !.v6 = text[2], !.port = port]
    [] OTHER          -> [addr EXCEPT !.family = "v6"]

\* SocketAddress(sockaddr *, socklen_t), from what the kernel or the resolver
\* has filled in.
FromSockaddr(family, host, port) ==
  [SetAddressPort(EmptyAddress, <<family, host>>, port) EXCEPT !.len = SizeOf[family]]

\* get_network_layer_type() and get_address_port()
NetworkLayerType(addr) == addr.family
AddressPort(addr) ==
  IF addr.family = "none" THEN <<>> ELSE <<addr.family, addr[addr.family], addr.port>>

\* The kernel takes a sockaddr_in6 without its last field too.
KernelTakes(addr) ==
  /\ addr.family \in Families
  /\ addr.len >= IF addr.family = "v6" THEN 24 ELSE SizeOf["v4"]
============================================================================
