----------------------------- MODULE Transfers -----------------------------
(***************************************************************************)
(* The transfer calls of Diversion that NetDump makes, as one thread sees  *)
(* them: what Receive, and SendAsync without a result, do to the caller's  *)
(* array, Address and length variables.  Calls with a DivertAsyncResult    *)
(* are the matter of AsyncIO.  An array without elements makes every call  *)
(* throw before it touches anything.                                       *)
(*                                                                         *)
(* Packets are numbered as the driver captures them, and packet n is n     *)
(* bytes long, which tells the lengths of different packets apart.         *)
(***************************************************************************)
EXTENDS Naturals, Sequences

CONSTANT MaxPackets      \* bound: packets the driver captures

ASSUME MaxPacketsAssumption == MaxPackets \in Nat \ {0}

PacketNo == 1 .. MaxPackets
Nothing == 0             \* no packet, a zeroed WINDIVERT_ADDRESS, length zero
Capacity == MaxPackets + 1   \* the Length of the caller's array, never filled
ByteCount == 0 .. Capacity

VARIABLES
  arrived,        \* how many packets the driver has captured
  taken,          \* how many of them it has handed over
  array,          \* the packet in the caller's array
  address,        \* the packet the caller's Address is of
  receiveLength,  \* the caller's variables
  sendLength,
  injected        \* what the driver was given to inject, in order

received == <<arrived, taken, array, address>>
transferVars == <<received, receiveLength, sendLength, injected>>

InjectedAs == [data : PacketNo \cup {Nothing}, bytes : ByteCount,
               address : PacketNo \cup {Nothing}]

TransferTypeOK ==
  /\ arrived \in 0 .. MaxPackets
  /\ taken \in 0 .. arrived
  /\ array \in 0 .. taken
  /\ address \in 0 .. taken
  /\ receiveLength \in ByteCount
  /\ sendLength \in ByteCount
  /\ injected \in Seq(InjectedAs)

TransferInit ==
  /\ arrived = 0
  /\ taken = 0
  /\ array = Nothing
  /\ address = Nothing
  /\ receiveLength = 0
  /\ sendLength = 0
  /\ injected = << >>

(* The driver captures a packet and queues it.                             *)
Capture ==
  /\ arrived < MaxPackets
  /\ arrived' = arrived + 1
  /\ UNCHANGED <<taken, array, address, receiveLength, sendLength, injected>>

-----------------------------------------------------------------------------
(* The driver copies the next packet and its address to where it was told, *)
(* or fails; Address.Reset has zeroed the address before.                  *)
HandOverUnasked ==  \* a plausible mistake
  /\ taken' = taken + 1
  /\ array' = taken'
  /\ address' = taken'
  /\ UNCHANGED arrived

HandOver ==
  /\ taken < arrived
  /\ taken' = taken + 1
  /\ array' = taken'
  /\ address' = taken'
  /\ UNCHANGED arrived

HandOverFails ==
  /\ address' = Nothing
  /\ UNCHANGED <<arrived, taken, array>>

(* Receive stores what the driver reports, zero when it fails.             *)
Receive(ok) ==
  /\ IF ok THEN HandOver /\ receiveLength' = array'
           ELSE HandOverFails /\ receiveLength' = 0
  /\ UNCHANGED <<sendLength, injected>>

-----------------------------------------------------------------------------
(* The driver injects a number of bytes from the array, as told by the     *)
(* address.                                                                *)
Inject(bytes) ==
  injected' = Append(injected,
                [data |-> array, bytes |-> bytes, address |-> address])

SendAsync(length, ok) ==
  /\ IF ok THEN Inject(length) /\ sendLength' = length
           ELSE UNCHANGED <<injected, sendLength>>
  /\ UNCHANGED <<received, receiveLength>>
=============================================================================
