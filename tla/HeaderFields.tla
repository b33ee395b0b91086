---------------------------- MODULE HeaderFields ----------------------------
(***************************************************************************)
(* The property accessors of the six header classes, the addresses apart   *)
(* (PacketHeaders has those).  A header is the fields of WinDivert's       *)
(* structure in the packet, in network byte order; a getter returns host   *)
(* order and a setter takes it, where the code remembers to swap.          *)
(*                                                                         *)
(* A value is its bytes as the host loads them, least significant first.   *)
(***************************************************************************)
EXTENDS Naturals, Sequences

CONSTANTS
  Bytes,       \* bytes that packets and assigned values are made of
  MaxEdits     \* bound: assignments in a behaviour

ASSUME HeaderFieldsAssumption ==
  /\ Bytes \subseteq 0 .. 255
  /\ MaxEdits \in Nat

ByteSwap(v) == [i \in 1 .. Len(v) |-> v[Len(v) + 1 - i]]

(* A field keeps so many low bits of each byte assigned to it; the type of *)
(* its property is as wide as "keep" is long.                              *)
Plain(keep)   == [keep |-> keep, swapGet |-> FALSE, swapSet |-> FALSE]
Swapped(keep) == [keep |-> keep, swapGet |-> TRUE, swapSet |-> TRUE]

Word == <<8, 8>>
DWord == <<8, 8, 8, 8>>
Flag == <<1, 0>>

IPFields ==
  [HeaderLength |-> Plain(<<4>>), Version |-> Plain(<<4>>),
   TOS |-> Plain(<<8>>), Length |-> Swapped(Word), Id |-> Swapped(Word),
   FragOff |-> Swapped(<<5, 8>>), MF |-> Swapped(Flag), DF |-> Swapped(Flag),
   Reserved |-> Swapped(Flag), TTL |-> Plain(<<8>>),
   Protocol |-> Plain(<<8>>), Checksum |-> Swapped(Word)]

IPv6Fields ==
  [Length |-> Swapped(Word), Version |-> Plain(<<4>>),
   TrafficClass |-> Swapped(<<8, 0, 0, 0>>),
   FlowLabel |-> Swapped(<<8, 8, 4, 0>>),
   NextHeader |-> Plain(<<8>>), HopLimit |-> Plain(<<8>>)]

TCPNumbers ==
  [SourcePort |-> Swapped(Word), DestinationPort |-> Swapped(Word),
   SequenceNumber |-> Swapped(DWord), AcknowledgmentNumber |-> Swapped(DWord),
   Reserved1 |-> Swapped(<<4, 0>>), HeaderLength |-> Swapped(<<4, 0>>),
   Reserved2 |-> Swapped(<<2, 0>>), WindowSize |-> Swapped(Word),
   Checksum |-> Swapped(Word), UrgentPointer |-> Swapped(Word)]

(* Of the flags only the setter of Psh swaps.                              *)
TCPFlags ==
  [flag \in {"Fin", "Syn", "Rst", "Psh", "Ack", "Urg"} |->
     [keep |-> Flag, swapGet |-> FALSE, swapSet |-> flag = "Psh"]]

TCPFields ==
  [f \in DOMAIN TCPNumbers \cup DOMAIN TCPFlags |->
     IF f \in DOMAIN TCPFlags THEN TCPFlags[f] ELSE TCPNumbers[f]]

(* Plausible mistakes, for the run's counter-checks, stand before what     *)
(* they replace: here ports nobody swaps.                                  *)
UDPFieldsUnswapped ==
  [SourcePort |-> Plain(Word), DestinationPort |-> Plain(Word),
   Length |-> Swapped(Word), Checksum |-> Swapped(Word)]

UDPFields ==
  [SourcePort |-> Swapped(Word), DestinationPort |-> Swapped(Word),
   Length |-> Swapped(Word), Checksum |-> Swapped(Word)]

ICMPFields ==
  [Type |-> Plain(<<8>>), Code |-> Plain(<<8>>), Checksum |-> Swapped(Word),
   Body |-> Swapped(DWord)]

ICMPv6Fields == ICMPFields

Fields ==
  [ip |-> IPFields, ipv6 |-> IPv6Fields, tcp |-> TCPFields,
   udp |-> UDPFields, icmp |-> ICMPFields, icmpv6 |-> ICMPv6Fields]

-----------------------------------------------------------------------------
VARIABLES
  class,     \* the class of the header object
  valid,     \* whether the object points at a header
  memory,    \* that header, field by field
  edits      \* assignments so far

vars == <<class, valid, memory, edits>>

Layout == Fields[class]
Width(f) == Len(Layout[f].keep)

(* What a bit field keeps of the value assigned to it.                     *)
Kept(f, v) == [i \in 1 .. Width(f) |-> v[i] % 2 ^ Layout[f].keep[i]]

TypeOK ==
  /\ class \in DOMAIN Fields
  /\ valid \in BOOLEAN
  /\ DOMAIN memory = DOMAIN Layout
  /\ \A f \in DOMAIN Layout :
       memory[f] \in [1 .. Width(f) -> 0 .. 255] /\ memory[f] = Kept(f, memory[f])
  /\ edits \in 0 .. MaxEdits

(* Any byte may be all over a captured header.                             *)
Captured(b) ==
  [f \in DOMAIN Layout |-> Kept(f, [i \in 1 .. Width(f) |-> b])]

Init ==
  /\ class \in DOMAIN Fields
  /\ valid = FALSE
  /\ memory = Captured(0)
  /\ edits = 0

(* ParsePacket aims the object at a new packet's header, or finds none.    *)
Parse(b, found) ==
  /\ valid' = found
  /\ memory' = Captured(b)
  /\ edits' = 0
  /\ UNCHANGED class

(* The accessors: without a header a getter returns zero and a setter does *)
(* nothing.                                                                *)
Get(f) ==
  IF ~valid THEN [i \in 1 .. Width(f) |-> 0]
  ELSE IF Layout[f].swapGet THEN ByteSwap(memory[f])
  ELSE memory[f]

StoredUnswapped(f, v) == Kept(f, v)
StoredWhole(f, v) == IF Layout[f].swapSet THEN ByteSwap(v) ELSE v

Stored(f, v) == Kept(f, IF Layout[f].swapSet THEN ByteSwap(v) ELSE v)

Set(f, v) ==
  /\ edits < MaxEdits
  /\ edits' = edits + 1
  /\ memory' = IF valid THEN [memory EXCEPT ![f] = Stored(f, v)] ELSE memory
  /\ UNCHANGED <<class, valid>>

Next ==
  \/ \E b \in Bytes, found \in BOOLEAN : Parse(b, found)
  \/ \E f \in DOMAIN Layout : \E v \in [1 .. Width(f) -> Bytes] : Set(f, v)

Spec == Init /\ [][Next]_vars

-----------------------------------------------------------------------------
(* Writing back what was read changes nothing, in whatever header edits    *)
(* have left: every setter undoes its getter.  Psh is the exception: its   *)
(* setter swaps a value that its getter did not, and clears the flag.      *)
WriteBack ==
  valid =>
    \A f \in DOMAIN Layout :
      (class = "tcp" => f # "Psh") => Stored(f, Get(f)) = memory[f]

(* "Conversion is done automatically on these values to and from Host to   *)
(* Network Byte Order": a full number reads as its bytes in the packet     *)
(* spell it, most significant first.                                       *)
Numeric(f) ==
  Layout[f].keep = [i \in 1 .. Width(f) |-> 8]

(* No number has more than four bytes.                                     *)
Digit(v, i) == IF i \in DOMAIN v THEN v[i] ELSE 0
Number(v) ==
  Digit(v, 1) + 256 * (Digit(v, 2) + 256 * (Digit(v, 3) + 256 * Digit(v, 4)))

Spelling(raw) ==
  LET Read(n, i) == IF i \in DOMAIN raw THEN 256 * n + raw[i] ELSE n
  IN  Read(Read(Read(Read(0, 1), 2), 3), 4)

HostOrder ==
  valid =>
    \A f \in DOMAIN Layout :
      Numeric(f) => Number(Get(f)) = Spelling(memory[f])
=============================================================================
