--------------------------- MODULE PacketHeaders ---------------------------
(***************************************************************************)
(* The header objects of the library: pointers that ParsePacket aims into  *)
(* the caller's packet array, and the managed addresses that IPHeader and  *)
(* IPv6Header cache beside theirs.  A client receives packets into one     *)
(* array, parses them with either overload into the same six objects, and  *)
(* reads and writes addresses in any order; the collector may move the     *)
(* array between two calls, since ParsePacket pins it only while it runs.  *)
(*                                                                         *)
(* Addresses are scaled down: a byte is a bit, a word two bytes, an IPv4   *)
(* address one word and an IPv6 address two.                               *)
(***************************************************************************)
EXTENDS Naturals

CONSTANTS
  Packets,      \* what may be captured (records, see Packet)
  Given,        \* the IPAddress objects a client assigns (sequences of bytes)
  Leftovers,    \* addresses that memory no packet was written to may spell
  Overloads,    \* the ParsePacket overloads the client uses
  MaxMoves      \* bound: moves of the array by the collector

Byte == 0 .. 1
Address4 == Byte \X Byte
Address6 == Byte \X Byte \X Byte \X Byte

Ends == {"src", "dst"}
Families == {"ip", "ipv6"}
HeaderKinds == Families \cup {"icmp", "icmpv6", "tcp", "udp"}

(* The headers WinDivert finds in a packet, one above the IP header at     *)
(* most, and the addresses it carries.                                     *)
AddressOf(f) == IF f = "ip" THEN Address4 ELSE Address6
Packet ==
  {p \in [headers : SUBSET HeaderKinds, ends : [Ends -> Address4 \cup Address6]] :
     /\ \A f \in Families \cap p.headers : p.ends \in [Ends -> AddressOf(f)]
     /\ \A h, g \in p.headers \ Families : h = g}

ASSUME PacketHeadersAssumption ==
  /\ Packets \subseteq Packet
  /\ Given \subseteq Address4 \cup Address6
  /\ Leftovers \subseteq Address4 \cup Address6
  /\ Overloads \subseteq {"plain", "withData"}
  /\ MaxMoves \in Nat

VARIABLES
  buffer,   \* the packet in the array, and where the array lies
  parsed,   \* the overload that parsed this packet, or "no"
  header,   \* where each header object points
  cache     \* the address members of the two IP headers

vars == <<buffer, parsed, header, cache>>

Null == 0
Places == 1 .. MaxMoves + 1
Any == <<0, 0>>                  \* IPAddress.Any

Spelled(f) == Leftovers \cap AddressOf(f)

Members ==
  [last : Address4 \cup Address6, shown : Address4 \cup Address6,
   assigned : BOOLEAN]

TypeOK ==
  /\ buffer \in [packet : Packet, place : Places]
  /\ parsed \in Overloads \cup {"no"}
  /\ header \in [HeaderKinds -> Places \cup {Null}]
  /\ cache \in [Families -> [Ends -> Members]]
  /\ \A f \in Families, e \in Ends : cache[f][e].last \in AddressOf(f)

Unread(last) == [last |-> last, shown |-> Any, assigned |-> FALSE]

Init ==
  /\ \E p \in Packets : buffer = [packet |-> p, place |-> 1]
  /\ parsed = "no"
  /\ header = [h \in HeaderKinds |-> Null]
  /\ \E garbage \in [Ends -> Spelled("ipv6")] :    \* new UINT32[4]
       cache = [f \in Families |-> [e \in Ends |->
                  Unread(IF f = "ip" THEN Any ELSE garbage[e])]]

Valid(h) == header[h] # Null
Has(h) == h \in buffer.packet.headers

-----------------------------------------------------------------------------
Receive(p) ==
  /\ buffer' = [buffer EXCEPT !.packet = p]
  /\ parsed' = "no"
  /\ UNCHANGED <<header, cache>>

(* The overload without packet data leaves a header object alone when the  *)
(* packet has no such header; the other one clears it.                     *)
Aimed(overload, h) ==
  IF Has(h) THEN buffer.place
  ELSE IF overload = "plain" THEN header[h]
  ELSE Null

(* The client passes all six objects; the code handles each on its own.    *)
ParsePacket(overload) ==
  /\ parsed' = overload
  /\ header' = [h \in HeaderKinds |-> Aimed(overload, h)]
  /\ UNCHANGED <<buffer, cache>>

Move ==
  /\ buffer.place <= MaxMoves
  /\ buffer' = [buffer EXCEPT !.place = @ + 1]
  /\ UNCHANGED <<parsed, header, cache>>

-----------------------------------------------------------------------------
(* What an address getter finds behind its pointer: the packet's addresses *)
(* when that is where they are, else whatever the memory holds by now.     *)
Intact(f) == header[f] = buffer.place /\ Has(f)
Behind(f) ==
  IF Intact(f) THEN {buffer.packet.ends}
  ELSE [Ends -> Spelled(f)]

(* Both IPv4 getters test SrcAddr > 0.                                     *)
Stale(f, e, found) ==
  /\ found[e] # cache[f][e].last
  /\ f = "ip" => found.src # Any

(* IPAddress of an IPv4 address, or of the low byte of each IPv6 word.     *)
First(a) == <<a[1], a[2]>>
Visible(f, a) == IF f = "ip" THEN a ELSE <<a[1], a[3]>>

(* Plausible mistakes, for the runs' counter-checks, stand before what     *)
(* they replace.                                                           *)
RefreshedForgets(f, found, e) ==
  [last |-> cache[f][e].last, shown |-> Visible(f, found[e]),
   assigned |-> TRUE]

Refreshed(f, found, e) ==
  [last |-> found[e], shown |-> Visible(f, found[e]), assigned |-> TRUE]

(* The getters of SourceAddress and DestinationAddress; they return what   *)
(* is then shown.                                                          *)
GetAddress(f, e) ==
  /\ Valid(f)
  /\ \E found \in Behind(f) :
       /\ Stale(f, e, found)
       /\ cache' = [cache EXCEPT ![f][e] = Refreshed(f, found, e)]
  /\ UNCHANGED <<buffer, parsed, header>>

Answer(f, e) ==
  IF Stale(f, e, buffer.packet.ends)
  THEN Refreshed(f, buffer.packet.ends, e).shown
  ELSE cache[f][e].shown

(* The setters store the first word of the given address, in IPv6 one byte *)
(* of it per word; the object itself is kept to be shown.  The client      *)
(* writes through a header only when it is the packet's, or null.          *)
StoredFirst(f, a) == First(a)

Stored(f, a) == IF f = "ip" THEN First(a) ELSE <<a[1], 0, a[2], 0>>

SetAddress(f, e, a) ==
  /\ Intact(f) \/ ~Valid(f)
  /\ buffer' = IF Valid(f)
               THEN [buffer EXCEPT !.packet.ends[e] = Stored(f, a)]
               ELSE buffer
  /\ cache' = [cache EXCEPT ![f][e] =
                 [last |-> Stored(f, a), shown |-> a, assigned |-> TRUE]]
  /\ UNCHANGED <<parsed, header>>

Next ==
  \/ \E p \in Packets : Receive(p)
  \/ \E overload \in Overloads : ParsePacket(overload)
  \/ Move
  \/ \E f \in Families, e \in Ends :
       GetAddress(f, e) \/ \E a \in Given : SetAddress(f, e, a)

Spec == Init /\ [][Next]_vars

-----------------------------------------------------------------------------
(* Header objects that are used for packet after packet show what newly    *)
(* made ones would: while a header lies where it was parsed, its address   *)
(* getters show what a first read of this packet shows, across packets,    *)
(* assignments and earlier reads.  (Of an assigned object the part that    *)
(* the packet has room for counts.)  Excepted are IPv4 packets from        *)
(* 0.0.0.0, whose addresses are not read, and IPv6 members nothing was     *)
(* assigned to.  How much of the packet's address a first read shows is    *)
(* the matter of ReflectsCurrent.                                          *)
ShowsAsNew ==
  \A f \in Families, e \in Ends :
    /\ Intact(f)
    /\ f = "ip" => buffer.packet.ends.src # Any
    /\ f = "ipv6" => cache[f][e].assigned
    => First(Answer(f, e)) = Refreshed(f, buffer.packet.ends, e).shown

(* "On a get, if the address is no longer the same, a managed IPAddress    *)
(* object is reconstructed to reflect the current value" (DivertIpHeader   *)
(* and DivertIpv6Header, of the members kept beside the addresses): the    *)
(* getters of a header that lies where it was parsed show the address that *)
(* is in the packet, all of it.                                            *)
ReflectsCurrent ==
  \A f \in Families, e \in Ends :
    Intact(f) => Answer(f, e) = buffer.packet.ends[e]

(* "Check if the object is initialized with valid data.  Use this flag to  *)
(* determine if this header was populated by the ParsePacket method"       *)
(* (DivertIpHeader and the others, of Valid): once a packet is parsed, a   *)
(* header object is Valid only if the packet has that header, and points   *)
(* into the array the packet is in.                                        *)
ValidDataInArray ==
  parsed # "no" =>
    \A h \in HeaderKinds :
      Valid(h) => Has(h) /\ header[h] = buffer.place
=============================================================================
