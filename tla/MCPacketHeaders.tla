-------------------------- MODULE MCPacketHeaders --------------------------
(* An instance of PacketHeaders: IPv4 and IPv6 packets of two transports,  *)
(* one of them from 0.0.0.0 as in DHCP, and two addresses to assign.       *)
EXTENDS PacketHeaders

Captured(headers, src, dst) ==
  [headers |-> headers, ends |-> [src |-> src, dst |-> dst]]

MCPackets ==
  {Captured({"ip", "tcp"}, <<0, 1>>, <<1, 0>>),
   Captured({"ip", "udp"}, Any, <<1, 1>>),
   Captured({"ipv6", "udp"}, <<1, 0, 0, 1>>, <<1, 1, 1, 0>>)}

MCTwoPackets == {p \in MCPackets : "tcp" \notin p.headers}
MCIpv6Packets == {p \in MCPackets : "ipv6" \in p.headers}
MCGiven == {<<1, 0>>, <<1, 0, 1, 1>>}
MCLeftovers == {Any, <<1, 0>>, <<0, 0, 0, 0>>, <<1, 0, 0, 1>>}
=============================================================================
