--------------------------- MODULE MCCaptureLoop ---------------------------
(* Instances of CaptureLoop for TLC.                                       *)
EXTENDS CaptureLoop

Captured(headers, src, dst) ==
  [headers |-> headers, ends |-> [src |-> src, dst |-> dst]]

(* An IPv4 packet of each transport, one from 0.0.0.0, and one of IPv6.    *)
MCKinds ==
  {Captured({"ip", "tcp"}, <<0, 1>>, <<1, 0>>),
   Captured({"ip", "udp"}, Any, <<1, 1>>),
   Captured({"ip", "icmp"}, <<1, 0>>, <<1, 1>>),
   Captured({"ipv6", "tcp"}, <<1, 0, 0, 1>>, <<1, 1, 1, 0>>)}

MCLeftovers == {Any, <<1, 0>>, <<0, 0, 0, 0>>}
=============================================================================
