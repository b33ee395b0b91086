-------------------------- MODULE MCPacketProcess --------------------------
(* An instance of PacketProcess: two TCP sockets over IPv4 that share the  *)
(* local end and differ in the remote port and the process, as when a      *)
(* server hands a connection to another process; one TCP socket over IPv6; *)
(* and one UDP socket, which goes through a table that first holds one     *)
(* row.  To the loop the first two look the same when packets go out.      *)
EXTENDS PacketProcess

Socket(k, p, lp, la, rp, ra) ==
  [kind |-> k, pid |-> p, localPort |-> lp, localAddr |-> la,
   remotePort |-> rp, remoteAddr |-> ra]

MCSocketsTcp4 ==
  {Socket("tcp4", 10, 1, 0, 2, 2), Socket("tcp4", 11, 1, 0, 4, 2)}

MCSockets ==
  MCSocketsTcp4 \cup
  {Socket("tcp6", 12, 1, 0, 2, 2), Socket("udp4", 14, 1, 0, 2, 2)}
=============================================================================
