------------------------- MODULE CaptureLoopProofs -------------------------
(***************************************************************************)
(* NetDump keeps the promise of Relay and prints what is true of the       *)
(* packet in its hand, for any traffic and any number of packets.          *)
(***************************************************************************)
EXTENDS CaptureLoop, TLAPS

USE DEF Nothing, InHand, Promise!Nothing

(* With a packet in the loop's hand the array and the Address hold the     *)
(* last packet taken, and the caller's variable its length.                *)
HandInv ==
  /\ taken \in Nat
  /\ pc \in InHand => /\ array = taken /\ array # Nothing
                      /\ address = array /\ receiveLength = array

LEMMA InitHandInv == Init => HandInv
BY DEF Init, TransferInit, HandInv

(* The statements that only look at the packet in hand.                    *)
LEMMA LookSteps ==
  ASSUME Parse \/ Branch \/ Lookup \/ PrintLine
  PROVE  /\ pc \in InHand /\ pc' \in InHand \cup {"ended"}
         /\ pc' = "ended" => pc = "lookup"
         /\ UNCHANGED transferVars
BY DEF Parse, Branch, Lookup, PrintLine, AfterBranch

(* Everything outside the loop's own statements, and those without packet. *)
LEMMA OtherSteps ==
  ASSUME Start \/ Test \/ Close \/ CtrlC \/ Kill \/ PacketArrives \/ MoveArray
  PROVE  /\ \/ pc' \in {pc, "ended"}
            \/ pc' \notin InHand /\ pc \notin InHand
         /\ pc' # pc => pc # "ended"
         /\ UNCHANGED <<taken, array, address, injected>>
         /\ pc' \in InHand => UNCHANGED receiveLength
<1>1. CASE Start \/ Test \/ Close \/ Kill
  BY <1>1 DEF Start, Test, Close, Kill, transferVars, received
<1>2. CASE CtrlC \/ MoveArray
  BY <1>2 DEF CtrlC, MoveArray, loopVars, transferVars, received
<1>3. CASE PacketArrives
  BY <1>3 DEF PacketArrives, Capture, loopVars
<1> QED BY <1>1, <1>2, <1>3

LEMMA NextHandInv == HandInv /\ [Next]_vars => HandInv'
<1> SUFFICES ASSUME HandInv, [Next]_vars PROVE HandInv'
  OBVIOUS
<1> USE DEF HandInv
<1>1. CASE UNCHANGED vars
  BY <1>1 DEF vars, transferVars, received, loopVars
<1>2. CASE TakePacket
  BY <1>2 DEF TakePacket, Receive, HandOver, HandOverFails, AfterReceive
<1>3. CASE PassOn
  BY <1>3 DEF PassOn, SendAsync, received
<1>4. CASE Parse \/ Branch \/ Lookup \/ PrintLine
  BY <1>4, LookSteps DEF transferVars, received
<1>5. CASE Start \/ Test \/ Close \/ CtrlC \/ Kill \/ PacketArrives \/ MoveArray
  BY <1>5, OtherSteps
<1> QED BY <1>1, <1>2, <1>3, <1>4, <1>5 DEF Next, WithPacket

LEMMA InitMaps == Init => Promise!Init
BY DEF Init, TransferInit, Promise!Init, Hand

(* Every step is a step of Relay, or leaves what Relay sees as it is.      *)
LEMMA StepMaps ==
  ASSUME HandInv, [Next]_vars
  PROVE  [Promise!Next]_Promise!vars
<1> USE DEF HandInv, Promise!vars, Promise!Next, Hand
<1>1. CASE UNCHANGED vars
  BY <1>1 DEF vars, transferVars, received, loopVars
<1>2. CASE TakePacket
  BY <1>2 DEF TakePacket, Receive, HandOver, HandOverFails, AfterReceive,
              Promise!Take
<1>3. CASE PassOn
  BY <1>3 DEF PassOn, SendAsync, Inject, received, Promise!Give,
              Promise!Lose, Promise!Whole
<1>4. CASE Parse \/ Branch \/ Lookup \/ PrintLine
  BY <1>4, LookSteps DEF transferVars, received, Promise!Stop
<1>5. CASE Start \/ Test \/ Close \/ CtrlC \/ Kill \/ PacketArrives \/ MoveArray
  BY <1>5, OtherSteps DEF Promise!Stop
<1> QED BY <1>1, <1>2, <1>3, <1>4, <1>5 DEF Next, WithPacket

(* NetDump implements Relay: packets go back to the network in the order   *)
(* they came, each at most once, with their own length and address,        *)
(* whatever fails and wherever the process ends.                           *)
THEOREM Relays == Spec => KeepsRelaying
<1>1. Spec => []HandInv
  BY InitHandInv, NextHandInv, PTL DEF Spec
<1> QED BY <1>1, InitMaps, StepMaps, PTL DEF Spec, KeepsRelaying, Promise!Spec

-----------------------------------------------------------------------------
(* What the header objects and the line printed are about.                 *)

(* A header object was aimed at a packet that was received, and after      *)
(* parsing every header of the packet in hand has its object aimed.        *)
AimedInv ==
  /\ \A h \in ValidHeaders : \E n \in 1 .. array : h \in traffic[n].headers
  /\ pc = "branch" => traffic[array].headers \subseteq ValidHeaders

(* What an IPv4 address member shows is the address last seen.             *)
ShownInv ==
  \A e \in Headers!Ends : cache["ip"][e].shown = cache["ip"][e].last

(* Nothing is printed of a packet before its line.                         *)
LineInv ==
  pc \in {"receive", "parse", "branch", "lookup", "print"} => report = NoLine

LoopInv ==
  /\ TypeOK /\ HandInv
  /\ AimedInv /\ ShownInv /\ LineInv /\ ReportRight

LEMMA PacketType ==
  ASSUME traffic \in [PacketNo -> Kinds], NEW n \in 0 .. MaxPackets
  PROVE  PacketIn(n) \in Headers!Packet
<1>1. CASE n = 0
  <2>1. Blank.headers = {} /\ Blank.ends \in [Headers!Ends -> Headers!Address4]
    BY DEF Blank, Any, Headers!Ends, Headers!Address4, Headers!Byte
  <2> QED BY <1>1, <2>1 DEF PacketIn, Headers!Packet, Blank
<1>2. CASE n # 0
  BY <1>2, CaptureLoopAssumption DEF PacketIn, PacketNo
<1> QED BY <1>1, <1>2

LEMMA ArrayType == TransferTypeOK => array \in 0 .. MaxPackets
BY MaxPacketsAssumption DEF TransferTypeOK

(* What a getter of IPHeader finds behind its pointer is IPv4 addresses.   *)
LEMMA BehindType ==
  ASSUME TypeOK, NEW found \in Headers!Behind("ip")
  PROVE  found \in [Headers!Ends -> Headers!Address4]
<1>1. CASE Headers!Intact("ip")
  <2>1. PacketIn(array) \in Headers!Packet /\ "ip" \in PacketIn(array).headers
    BY <1>1, ArrayType, PacketType DEF TypeOK, Headers!Intact, Headers!Has
  <2> QED BY <1>1, <2>1 DEF Headers!Behind, Headers!Packet, Headers!Families,
                            Headers!AddressOf
<1>2. CASE ~Headers!Intact("ip")
  BY <1>2 DEF Headers!Behind, Headers!Spelled, Headers!AddressOf
<1> QED BY <1>1, <1>2

LEMMA InitLoopInv == Init => LoopInv
<1> SUFFICES ASSUME Init PROVE LoopInv
  OBVIOUS
<1>1. TransferTypeOK
  BY MaxPacketsAssumption
     DEF Init, TransferInit, TransferTypeOK, ByteCount, Capacity
<1>2. /\ cache \in [Headers!Families -> [Headers!Ends -> Headers!Members]]
      /\ \A f \in Headers!Families, e \in Headers!Ends :
           cache[f][e].last \in Headers!AddressOf(f)
      /\ ShownInv
  <2>1. PICK garbage \in [Headers!Ends -> Headers!Spelled("ipv6")] :
          cache = [f \in Headers!Families |-> [e \in Headers!Ends |->
                     Headers!Unread(IF f = "ip" THEN Any ELSE garbage[e])]]
    BY DEF Init
  <2>2. Any \in Headers!Address4 /\ Headers!Any = Any
    BY DEF Any, Headers!Any, Headers!Address4, Headers!Byte
  <2>3. ASSUME NEW f \in Headers!Families, NEW e \in Headers!Ends
        PROVE  /\ cache[f][e] \in Headers!Members
               /\ cache[f][e].last \in Headers!AddressOf(f)
               /\ f = "ip" => cache[f][e].shown = cache[f][e].last
    <3>1. garbage[e] \in Headers!Address6
      BY DEF Headers!Spelled, Headers!AddressOf
    <3> QED BY <2>1, <2>2, <3>1 DEF Headers!Unread, Headers!Members,
                                    Headers!AddressOf
  <2> QED BY <2>1, <2>3 DEF ShownInv, Headers!Families
<1>3. Headers!TypeOK
  <2>1. PacketIn(array) \in Headers!Packet
    BY <1>1, ArrayType, PacketType DEF Init
  <2> QED BY <1>2, <2>1, CaptureLoopAssumption
          DEF Init, Headers!TypeOK, Headers!Places
<1>4. NoLine \in Line
  BY DEF NoLine, Line, Any, Headers!Address4, Headers!Byte
<1>5. TypeOK
  BY <1>1, <1>3, <1>4 DEF Init, TypeOK, Steps
<1>6. AimedInv
  BY DEF Init, AimedInv, ValidHeaders, Headers!Valid
<1>7. LineInv /\ ReportRight
  BY DEF Init, LineInv, ReportRight, NoLine
<1> QED BY <1>2, <1>5, <1>6, <1>7, InitHandInv DEF LoopInv

-----------------------------------------------------------------------------
(* What a step leaves alone keeps what was said of it.                     *)
LEMMA HeadersSame ==
  ASSUME LoopInv, UNCHANGED <<array, traffic, headerVars>>
  PROVE  /\ traffic' \in [PacketNo -> Kinds]
         /\ Headers!TypeOK' /\ ShownInv'
         /\ ValidHeaders' = ValidHeaders
         /\ (pc' = "branch" => pc = "branch") => AimedInv'
BY DEF LoopInv, TypeOK, Headers!TypeOK, ShownInv, ValidHeaders, AimedInv,
       Headers!Valid, headerVars, PacketIn

LEMMA ReportSame ==
  ASSUME LoopInv, UNCHANGED <<array, traffic, branch, report>>,
         pc' \in {"lookup", "print", "send"}
           => pc \in {"lookup", "print", "send"}
  PROVE  ReportRight'
BY DEF LoopInv, ReportRight, Settled, PacketIn

(* The statements and events that touch neither the array nor the headers. *)
LEMMA OuterKeeps ==
  ASSUME LoopInv, HandInv',
         \/ Start \/ Test \/ Lookup \/ Close \/ CtrlC \/ Kill \/ PacketArrives
  PROVE  LoopInv'
<1> USE DEF LoopInv
<1>1. /\ UNCHANGED <<taken, array, traffic, headerVars, refused>>
      /\ arrived' \in arrived .. MaxPackets
  BY MaxPacketsAssumption
     DEF Start, Test, Lookup, Close, CtrlC, Kill, PacketArrives, Capture,
         transferVars, received, loopVars, TypeOK, TransferTypeOK
<1>2. /\ receiveLength' \in ByteCount /\ sendLength' \in ByteCount
      /\ UNCHANGED <<address, injected>>
  BY MaxPacketsAssumption
     DEF Start, Test, Lookup, Close, CtrlC, Kill, PacketArrives, Capture,
         transferVars, received, loopVars, TypeOK, TransferTypeOK, ByteCount,
         Capacity
<1>3. TransferTypeOK'
  BY <1>1, <1>2, MaxPacketsAssumption DEF TypeOK, TransferTypeOK
<1>4. /\ pc' \in Steps /\ running' \in BOOLEAN
      /\ pc' \in {"test", "receive", "print", "close", "ended", pc}
      /\ pc' = "print" => pc \in {"lookup", "print"}
  BY DEF Start, Test, Lookup, Close, CtrlC, Kill, PacketArrives, loopVars,
         TypeOK, Steps
<1>5. \/ branch' = branch /\ report' = report
      \/ /\ branch' = {} /\ report' = NoLine
         /\ pc' \notin {"branch", "lookup", "print", "send"}
  BY DEF Start, Test, Lookup, Close, CtrlC, Kill, PacketArrives, loopVars
<1>6. NoLine \in Line
  BY DEF NoLine, Line, Any, Headers!Address4, Headers!Byte
<1>7. TypeOK' /\ ShownInv' /\ AimedInv'
  BY <1>1, <1>3, <1>4, <1>5, <1>6, HeadersSame DEF TypeOK
<1>8. LineInv'
  BY <1>4, <1>5
     DEF LineInv, Start, Test, Lookup, Close, CtrlC, Kill, PacketArrives,
         loopVars
<1>9. ReportRight'
  <2>1. CASE branch' = branch /\ report' = report
    BY <1>1, <1>4, <2>1, ReportSame
  <2>2. CASE report' = NoLine /\ pc' \notin {"branch", "lookup", "print", "send"}
    BY <2>2 DEF ReportRight, NoLine
  <2> QED BY <1>5, <2>1, <2>2
<1> QED BY <1>7, <1>8, <1>9

(* A packet is taken: the header objects still point where they did.       *)
LEMMA TakeKeeps ==
  ASSUME LoopInv, HandInv', TakePacket
  PROVE  LoopInv'
<1> USE DEF LoopInv, TakePacket
<1>1. /\ pc = "receive" /\ report = NoLine
      /\ UNCHANGED <<traffic, place, header, cache, running, branch, report,
                     refused>>
      /\ parsed' = "no" /\ pc' \in {"parse", "test"}
  BY DEF AfterReceive, LineInv
<1>2. TransferTypeOK' /\ array' \in array .. taken'
  BY MaxPacketsAssumption
     DEF TypeOK, TransferTypeOK, Receive, HandOver, HandOverFails, ByteCount,
         Capacity
<1>3. PacketIn(array)' \in Headers!Packet
  <2>1. array' \in 0 .. MaxPackets /\ traffic' = traffic
    BY <1>1, <1>2, MaxPacketsAssumption DEF TransferTypeOK
  <2>2. PacketIn(array') \in Headers!Packet
    BY <2>1, PacketType DEF TypeOK
  <2> QED BY <2>1, <2>2 DEF PacketIn
<1>4. Headers!TypeOK'
  BY <1>1, <1>3 DEF TypeOK, Headers!TypeOK
<1>5. TypeOK'
  BY <1>1, <1>2, <1>4 DEF TypeOK, Steps
<1>6. ShownInv' /\ LineInv'
  BY <1>1 DEF ShownInv, LineInv
<1>7. AimedInv'
  <2>1. ValidHeaders' = ValidHeaders
    BY <1>1 DEF ValidHeaders, Headers!Valid
  <2>2. 1 .. array \subseteq 1 .. array'
    BY <1>2 DEF TypeOK, TransferTypeOK
  <2> QED BY <1>1, <2>1, <2>2 DEF AimedInv
<1>8. ReportRight'
  BY <1>1 DEF ReportRight, NoLine
<1> QED BY <1>5, <1>6, <1>7, <1>8

(* The packet in hand is parsed into the header objects.                   *)
LEMMA ParseKeeps ==
  ASSUME LoopInv, HandInv', Parse
  PROVE  LoopInv'
<1> USE DEF LoopInv, Parse
<1>1. /\ pc = "parse" /\ pc' = "branch" /\ report = NoLine
      /\ UNCHANGED <<transferVars, traffic, place, cache, running, branch,
                     report, refused>>
      /\ parsed' = "plain"
      /\ header' = [h \in Headers!HeaderKinds |-> Headers!Aimed("plain", h)]
  BY DEF LineInv, Headers!ParsePacket
<1>2. array' = array /\ array \in 1 .. taken /\ PacketIn(array) = traffic[array]
  BY <1>1 DEF HandInv, PacketIn, TypeOK, TransferTypeOK, transferVars, received
<1>3. \A h \in Headers!HeaderKinds :
        header'[h] = IF h \in traffic[array].headers THEN place ELSE header[h]
  BY <1>1, <1>2 DEF Headers!Aimed, Headers!Has
<1>4. place # Headers!Null /\ place \in Headers!Places
  BY CaptureLoopAssumption
     DEF TypeOK, Headers!TypeOK, Headers!Places, Headers!Null
<1>5. Headers!TypeOK'
  <2>1. header' \in [Headers!HeaderKinds -> Headers!Places \cup {Headers!Null}]
    BY <1>1, <1>3, <1>4 DEF TypeOK, Headers!TypeOK
  <2>2. PacketIn(array)' = PacketIn(array)
    BY <1>1, <1>2 DEF PacketIn
  <2> QED BY <1>1, <2>1, <2>2 DEF TypeOK, Headers!TypeOK
<1>6. TypeOK'
  BY <1>1, <1>5 DEF TypeOK, TransferTypeOK, transferVars, received, Steps
<1>7. ShownInv' /\ LineInv'
  BY <1>1 DEF ShownInv, LineInv
<1>8. traffic[array].headers \subseteq Headers!HeaderKinds
  BY <1>2, CaptureLoopAssumption, MaxPacketsAssumption
     DEF TypeOK, TransferTypeOK, PacketNo, Headers!Packet
<1>9. ValidHeaders' = ValidHeaders \cup traffic[array].headers
  BY <1>3, <1>4, <1>8 DEF ValidHeaders, Headers!Valid
<1>10. AimedInv'
  BY <1>1, <1>2, <1>9 DEF AimedInv
<1>11. ReportRight'
  BY <1>1 DEF ReportRight, NoLine
<1> QED BY <1>6, <1>7, <1>10, <1>11

-----------------------------------------------------------------------------
(* No packet is both of IPv4 and of IPv6, or both of TCP and of UDP.       *)
Distinct(present) ==
  ~({"ip", "ipv6"} \subseteq present) /\ ~({"tcp", "udp"} \subseteq present)

LEMMA PacketDistinct ==
  ASSUME NEW p \in Headers!Packet
  PROVE  Distinct(p.headers)
<1> USE DEF Headers!Packet
<1>1. ASSUME {"ip", "ipv6"} \subseteq p.headers
      PROVE  FALSE
  <2>1. p.ends["src"] \in Headers!Address4 \cap Headers!Address6
    BY <1>1 DEF Headers!Families, Headers!AddressOf, Headers!Ends
  <2>2. Headers!Address4 \cap Headers!Address6 = {}
    BY DEF Headers!Address4, Headers!Address6
  <2> QED BY <2>1, <2>2
<1>2. ASSUME {"tcp", "udp"} \subseteq p.headers
      PROVE  FALSE
  BY <1>2 DEF Headers!Families
<1> QED BY <1>1, <1>2 DEF Distinct

LEMMA BranchSets ==
  /\ DOMAIN Branches = 1 .. 4
  /\ Branches[1] = {"ip", "tcp"} /\ Branches[2] = {"ip", "udp"}
  /\ Branches[3] = {"ipv6", "tcp"} /\ Branches[4] = {"ipv6", "udp"}
BY DEF Branches

LEMMA MinIn ==
  ASSUME NEW S \in SUBSET (1 .. 4), S # {}
  PROVE  Min(S) \in S
<1>1. PICK i \in S : \A j \in S : i <= j
  <2>1. CASE 1 \in S
    BY <2>1
  <2>2. CASE 1 \notin S /\ 2 \in S
    BY <2>2
  <2>3. CASE 1 \notin S /\ 2 \notin S /\ 3 \in S
    BY <2>3
  <2>4. CASE S \subseteq {4}
    <3>1. 4 \in S /\ \A j \in S : j = 4
      BY <2>4
    <3> QED BY <3>1
  <2>5. S \subseteq {1, 2, 3, 4}
    OBVIOUS
  <2> QED BY <2>1, <2>2, <2>3, <2>4, <2>5
<1> QED BY <1>1 DEF Min

LEMMA FirstType ==
  ASSUME NEW present
  PROVE  FirstOf(present) \in {{}} \cup {Branches[i] : i \in DOMAIN Branches}
<1> DEFINE fits == {i \in DOMAIN Branches : Branches[i] \subseteq present}
<1>1. CASE fits = {}
  BY <1>1 DEF FirstOf
<1>2. CASE fits # {}
  <2>1. Min(fits) \in fits
    BY <1>2, BranchSets, MinIn
  <2> QED BY <1>2, <2>1 DEF FirstOf
<1> QED BY <1>1, <1>2

(* Of the branches tried in order the one taken is the only one that fits. *)
LEMMA FirstFits ==
  ASSUME NEW present, Distinct(present)
  PROVE  \A i \in DOMAIN Branches :
           FirstOf(present) = Branches[i] <=> Branches[i] \subseteq present
<1> DEFINE fits == {i \in DOMAIN Branches : Branches[i] \subseteq present}
<1>1. \A i, j \in DOMAIN Branches : i # j => Branches[i] # Branches[j]
  BY BranchSets
<1>2. \A i, j \in fits : i = j
  <2> SUFFICES ASSUME NEW i \in fits, NEW j \in fits PROVE i = j
    OBVIOUS
  <2>1. i \in 1 .. 4 /\ j \in 1 .. 4
    BY BranchSets
  <2>2. /\ ~({1, 2} \subseteq fits) /\ ~({1, 3} \subseteq fits)
        /\ ~({1, 4} \subseteq fits) /\ ~({2, 3} \subseteq fits)
        /\ ~({2, 4} \subseteq fits) /\ ~({3, 4} \subseteq fits)
    BY BranchSets DEF Distinct
  <2> QED BY <2>1, <2>2
<1>3. \A i \in DOMAIN Branches : Branches[i] # {}
  BY BranchSets
<1>4. CASE fits = {}
  <2>1. FirstOf(present) = {}
    BY <1>4 DEF FirstOf
  <2> QED BY <1>3, <1>4, <2>1
<1>5. CASE fits # {}
  <2>1. PICK i \in fits : fits = {i}
    BY <1>2, <1>5
  <2>2. Min(fits) = i
    BY <2>1, BranchSets, MinIn
  <2>3. FirstOf(present) = Branches[i]
    BY <1>5, <2>2 DEF FirstOf
  <2> QED BY <1>1, <2>1, <2>3
<1> QED BY <1>4, <1>5

(* The branch is the packet's own where no older packet's header lingers.  *)
LEMMA BranchKeeps ==
  ASSUME LoopInv, HandInv', Branch
  PROVE  LoopInv'
<1> USE DEF LoopInv, Branch
<1>1. /\ pc = "branch" /\ pc' \in {"send", "lookup"} /\ report = NoLine
      /\ branch' = FirstOf(ValidHeaders)
      /\ UNCHANGED <<transferVars, array, traffic, headerVars, running, report,
                     refused>>
  BY DEF LineInv, AfterBranch, transferVars, received
<1>2. TypeOK'
  <2>1. branch' \in {{}} \cup {Branches[i] : i \in DOMAIN Branches}
    BY <1>1, FirstType
  <2> QED BY <1>1, <2>1, HeadersSame
          DEF TypeOK, TransferTypeOK, transferVars, received, Steps
<1>3. ShownInv' /\ AimedInv' /\ LineInv'
  BY <1>1, HeadersSame DEF LineInv
<1>4. ASSUME Settled
      PROVE  \A i \in DOMAIN Branches :
               branch' = Branches[i] <=> Branches[i] \subseteq traffic[array].headers
  <2>1. ValidHeaders = traffic[array].headers
    BY <1>1, <1>4 DEF AimedInv, Settled
  <2>2. traffic[array] \in Headers!Packet
    BY <1>1, ArrayType, CaptureLoopAssumption DEF TypeOK, HandInv, PacketNo
  <2> QED BY <1>1, <2>1, <2>2, PacketDistinct, FirstFits
<1>5. ReportRight'
  <2>1. Settled' = Settled /\ ~report.still
    BY <1>1 DEF Settled, NoLine
  <2> QED BY <1>1, <1>4, <2>1 DEF ReportRight
<1> QED BY <1>2, <1>3, <1>5

(* What is printed was refreshed from the packet, or is what it says.      *)
LEMMA PrintKeeps ==
  ASSUME LoopInv, HandInv', PrintLine
  PROVE  LoopInv'
<1> USE DEF LoopInv, PrintLine
<1>1. /\ pc = "print" /\ pc' = "send"
      /\ UNCHANGED <<transferVars, array, traffic, place, parsed, header, running,
                     branch, refused>>
  BY DEF transferVars, received
<1>2. PICK found :
        /\ Headers!Valid("ip") => found \in Headers!Behind("ip")
        /\ cache' = IF Headers!Valid("ip")
                    THEN [cache EXCEPT !["ip"] = [e \in Headers!Ends |->
                            IF Headers!Stale("ip", e, found)
                            THEN Headers!Refreshed("ip", found, e) ELSE @[e]]]
                    ELSE cache
  OBVIOUS
<1>3. /\ cache' \in [Headers!Families -> [Headers!Ends -> Headers!Members]]
      /\ \A f \in Headers!Families, e \in Headers!Ends :
           cache'[f][e].last \in Headers!AddressOf(f)
      /\ ShownInv'
  <2>1. CASE ~Headers!Valid("ip")
    BY <1>2, <2>1 DEF TypeOK, Headers!TypeOK, ShownInv
  <2>2. CASE Headers!Valid("ip")
    <3>1. \A e \in Headers!Ends : found[e] \in Headers!Address4
      BY <1>2, <2>2, BehindType
    <3>2. \A e \in Headers!Ends :
            /\ Headers!Refreshed("ip", found, e) \in Headers!Members
            /\ Headers!Refreshed("ip", found, e).last = found[e]
            /\ Headers!Refreshed("ip", found, e).shown = found[e]
      BY <3>1 DEF Headers!Refreshed, Headers!Visible, Headers!Members
    <3>3. \A e \in Headers!Ends :
            cache'["ip"][e] \in {cache["ip"][e], Headers!Refreshed("ip", found, e)}
      BY <1>2, <2>2 DEF TypeOK, Headers!TypeOK, Headers!Families
    <3>4. cache' \in [Headers!Families -> [Headers!Ends -> Headers!Members]]
      BY <1>2, <2>2, <3>2 DEF TypeOK, Headers!TypeOK, Headers!Families
    <3>5. \A e \in Headers!Ends : cache'["ipv6"][e] = cache["ipv6"][e]
      BY <1>2, <2>2 DEF TypeOK, Headers!TypeOK, Headers!Families
    <3>6. ShownInv'
      BY <3>2, <3>3 DEF ShownInv
    <3>7. ASSUME NEW f \in Headers!Families, NEW e \in Headers!Ends
          PROVE  cache'[f][e].last \in Headers!AddressOf(f)
      BY <3>1, <3>2, <3>3, <3>5
         DEF TypeOK, Headers!TypeOK, Headers!Families, Headers!AddressOf
    <3> QED BY <3>4, <3>6, <3>7
  <2> QED BY <2>1, <2>2
<1>4. Headers!TypeOK'
  BY <1>1, <1>3 DEF TypeOK, Headers!TypeOK, PacketIn
<1>5. report' \in Line
  <2> DEFINE shown == [e \in Headers!Ends |-> cache'["ip"][e].shown]
  <2>1. shown \in [Headers!Ends -> Headers!Address4 \cup Headers!Address6]
    BY <1>3 DEF Headers!Members, Headers!Families
  <2>2. Headers!Intact("ip") \in BOOLEAN
    BY Zenon DEF Headers!Intact
  <2>3. report' = [shown |-> shown, still |-> Headers!Intact("ip")]
    OBVIOUS
  <2> HIDE DEF shown
  <2> QED BY <2>1, <2>2, <2>3 DEF Line
<1>6. TypeOK'
  BY <1>1, <1>4, <1>5 DEF TypeOK, TransferTypeOK, transferVars, received, Steps
<1>7. AimedInv' /\ LineInv'
  BY <1>1 DEF AimedInv, ValidHeaders, Headers!Valid, LineInv
<1>8. ASSUME report'.still, PacketIn(array).ends.src # Any
      PROVE  report'.shown = PacketIn(array).ends
  <2> DEFINE ends == PacketIn(array).ends
  <2>1. Headers!Intact("ip")
    BY <1>8
  <2>2. /\ Headers!Valid("ip") /\ found = ends
        /\ ends \in [Headers!Ends -> Headers!Address4]
    <3>1. Headers!Valid("ip")
      BY <2>1 DEF Headers!Intact, Headers!Valid, Headers!Null, TypeOK,
                  Headers!TypeOK, Headers!Places
    <3> QED BY <1>2, <2>1, <3>1, BehindType DEF Headers!Behind
  <2>3. ASSUME NEW e \in Headers!Ends
        PROVE  cache'["ip"][e].shown = ends[e]
    <3>1. CASE Headers!Stale("ip", e, found)
      <4>1. cache'["ip"][e] = Headers!Refreshed("ip", found, e)
        BY <1>2, <2>2, <3>1 DEF TypeOK, Headers!TypeOK, Headers!Families
      <4> QED BY <2>2, <4>1 DEF Headers!Refreshed, Headers!Visible
    <3>2. CASE ~Headers!Stale("ip", e, found)
      <4>1. cache'["ip"][e] = cache["ip"][e]
        BY <1>2, <2>2, <3>2 DEF TypeOK, Headers!TypeOK, Headers!Families
      <4>2. cache["ip"][e].last = ends[e]
        BY <1>8, <2>2, <3>2 DEF Headers!Stale, Headers!Any, Any
      <4> QED BY <4>1, <4>2 DEF ShownInv
    <3> QED BY <3>1, <3>2
  <2>4. report'.shown = [e \in Headers!Ends |-> cache'["ip"][e].shown]
    OBVIOUS
  <2> QED BY <2>2, <2>3, <2>4
<1>9. ReportRight'
  <2>1. Settled' = Settled /\ PacketIn(array)' = PacketIn(array)
    BY <1>1 DEF Settled, PacketIn
  <2> QED BY <1>1, <1>8, <2>1 DEF ReportRight
<1> QED BY <1>3, <1>6, <1>7, <1>9

(* The packet is passed on.                                                *)
LEMMA PassOnKeeps ==
  ASSUME LoopInv, HandInv', PassOn
  PROVE  LoopInv'
<1> USE DEF LoopInv, PassOn
<1>1. /\ pc = "send" /\ pc' = "test" /\ array \in PacketNo
      /\ UNCHANGED <<received, arrived, taken, array, address, receiveLength,
                     traffic, headerVars, running, branch, report>>
      /\ refused' \in {refused, refused \cup {array}}
  BY ArrayType DEF HandInv, SendAsync, received, TypeOK, PacketNo
<1>2. sendLength' \in ByteCount /\ injected' \in Seq(InjectedAs)
  <2>1. [data |-> array, bytes |-> receiveLength, address |-> address]
          \in InjectedAs
    BY <1>1 DEF HandInv, TypeOK, TransferTypeOK, InjectedAs
  <2>2. \/ UNCHANGED <<sendLength, injected>>
        \/ /\ sendLength' = receiveLength
           /\ injected' = Append(injected,
                [data |-> array, bytes |-> receiveLength, address |-> address])
    BY DEF SendAsync, Inject
  <2> QED BY <2>1, <2>2 DEF TypeOK, TransferTypeOK
<1>3. TypeOK'
  BY <1>1, <1>2, HeadersSame DEF TypeOK, TransferTypeOK, Steps
<1>4. ShownInv' /\ AimedInv' /\ LineInv'
  BY <1>1, HeadersSame DEF LineInv
<1>5. ReportRight'
  BY <1>1, ReportSame
<1> QED BY <1>3, <1>4, <1>5

(* The array moves away from under the header objects.                     *)
LEMMA MoveKeeps ==
  ASSUME LoopInv, HandInv', MoveArray
  PROVE  LoopInv'
<1> USE DEF LoopInv, MoveArray
<1>1. /\ UNCHANGED <<transferVars, array, traffic, loopVars, pc, running, branch,
                     report, refused, parsed, header, cache>>
      /\ place' = place + 1 /\ place <= MaxMoves
  BY DEF Headers!Move, transferVars, received, loopVars
<1>2. place' \in Headers!Places /\ PacketIn(array)' = PacketIn(array)
  BY <1>1, CaptureLoopAssumption
     DEF TypeOK, Headers!TypeOK, Headers!Places, PacketIn
<1>3. TypeOK'
  BY <1>1, <1>2 DEF TypeOK, Headers!TypeOK, TransferTypeOK, transferVars, received
<1>4. ShownInv' /\ AimedInv' /\ LineInv'
  BY <1>1 DEF ShownInv, AimedInv, ValidHeaders, Headers!Valid, LineInv
<1>5. ReportRight'
  BY <1>1, ReportSame
<1> QED BY <1>3, <1>4, <1>5

LEMMA LoopInvHolds == Spec => []LoopInv
<1>1. LoopInv /\ [Next]_vars => LoopInv'
  <2> SUFFICES ASSUME LoopInv, [Next]_vars PROVE LoopInv'
    OBVIOUS
  <2>1. HandInv'
    BY NextHandInv DEF LoopInv
  <2>2. CASE UNCHANGED vars
    <3>1. UNCHANGED <<transferVars, array, traffic, headerVars, loopVars>>
      BY <2>2 DEF vars, transferVars, received
    <3>2. TypeOK' /\ ShownInv' /\ AimedInv'
      BY <3>1, HeadersSame
         DEF LoopInv, TypeOK, TransferTypeOK, transferVars, received, loopVars
    <3>3. LineInv' /\ ReportRight'
      BY <3>1, ReportSame DEF LoopInv, LineInv, loopVars
    <3> QED BY <2>1, <3>2, <3>3 DEF LoopInv
  <2>3. CASE Next
    BY <2>1, <2>3, OuterKeeps, TakeKeeps, ParseKeeps, BranchKeeps, PrintKeeps,
       PassOnKeeps, MoveKeeps DEF Next, WithPacket
  <2> QED BY <2>2, <2>3
<1> QED BY <1>1, InitLoopInv, PTL DEF Spec

(* Every variable of the loop keeps its type; in particular only packets   *)
(* that were captured are counted as refused, and a length never exceeds   *)
(* the array.                                                              *)
THEOREM TypeCorrect == Spec => []TypeOK
<1>1. LoopInv => TypeOK
  BY DEF LoopInv
<1> QED BY <1>1, LoopInvHolds, PTL

(* For any traffic: the branch taken is the packet's own as long as no     *)
(* earlier packet had a header that this one lacks, and the IPv4 addresses *)
(* printed are its own unless the array has moved (or it is from 0.0.0.0). *)
THEOREM ReportsRight == Spec => []ReportRight
<1>1. LoopInv => ReportRight
  BY DEF LoopInv
<1> QED BY <1>1, LoopInvHolds, PTL
=============================================================================
