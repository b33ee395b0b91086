---------------------------- MODULE CaptureLoop ----------------------------
(***************************************************************************)
(* The example NetDump: a loop that takes a packet from the driver, parses *)
(* it into header objects made once before the loop, asks for the process  *)
(* behind it, prints a line and passes the packet on.  It composes the     *)
(* transfer calls with the header objects of PacketHeaders.                *)
(* The checksums that it recalculates in outbound packets are not told     *)
(* apart here.                                                             *)
(***************************************************************************)
EXTENDS Transfers, FiniteSetsExt

CONSTANTS
  Kinds,         \* packets there may be in the traffic
  Leftovers,     \* addresses that memory no packet was written to may spell
  MaxMoves       \* bound: moves of the array by the collector

VARIABLES
  traffic,   \* which packet each number stands for
  place,     \* where the array lies
  parsed,    \* members of the header objects, see PacketHeaders
  header,
  cache,
  pc,        \* the next statement of the loop
  running,   \* the flag the Ctrl-C handler clears
  branch,    \* the branch taken for this packet
  report,    \* the line printed for it
  refused    \* packets whose send failed

headerVars == <<place, parsed, header, cache>>
loopVars == <<pc, running, branch, report, refused>>
vars == <<transferVars, traffic, headerVars, loopVars>>

Any == <<0, 0>>
Blank == [headers |-> {}, ends |-> [src |-> Any, dst |-> Any]]
PacketIn(n) == IF n = Nothing THEN Blank ELSE traffic[n]

Headers == INSTANCE PacketHeaders WITH
  Packets   <- Kinds,
  Given     <- {},
  Overloads <- {"plain"},
  buffer    <- [packet |-> PacketIn(array), place |-> place]

ASSUME CaptureLoopAssumption ==
  /\ Kinds \subseteq Headers!Packet
  /\ Leftovers \subseteq Headers!Address4 \cup Headers!Address6
  /\ MaxMoves \in Nat

(* The branches of the loop in the order they are tried; in none of them   *)
(* the packet is passed on without a word.                                 *)
Branches == <<{"ip", "tcp"}, {"ip", "udp"}, {"ipv6", "tcp"}, {"ipv6", "udp"}>>

FirstOfTransport(present) ==  \* a plausible mistake
  IF "tcp" \in present THEN Branches[1] ELSE Branches[2]

FirstOf(present) ==
  LET fits == {i \in DOMAIN Branches : Branches[i] \subseteq present}
  IN  IF fits = {} THEN {} ELSE Branches[Min(fits)]

ValidHeaders == {h \in Headers!HeaderKinds : Headers!Valid(h)}

Line == [shown : [Headers!Ends -> Headers!Address4 \cup Headers!Address6],
         still : BOOLEAN]
NoLine == [shown |-> [e \in Headers!Ends |-> Any], still |-> FALSE]

InHand == {"parse", "branch", "lookup", "print", "send"}
Steps == InHand \cup {"start", "test", "receive", "close", "ended"}

TypeOK ==
  /\ TransferTypeOK
  /\ traffic \in [PacketNo -> Kinds]
  /\ Headers!TypeOK
  /\ pc \in Steps
  /\ running \in BOOLEAN
  /\ branch \in {{}} \cup {Branches[i] : i \in DOMAIN Branches}
  /\ report \in Line
  /\ refused \subseteq PacketNo

Init ==
  /\ TransferInit
  /\ traffic \in [PacketNo -> Kinds]
  /\ place = 1
  /\ parsed = "no"
  /\ header = [h \in Headers!HeaderKinds |-> Headers!Null]
  /\ \E garbage \in [Headers!Ends -> Headers!Spelled("ipv6")] :
       cache = [f \in Headers!Families |-> [e \in Headers!Ends |->
                  Headers!Unread(IF f = "ip" THEN Any ELSE garbage[e])]]
  /\ pc = "start"
  /\ running = TRUE
  /\ branch = {}
  /\ report = NoLine
  /\ refused = {}

-----------------------------------------------------------------------------
(* Plausible mistakes, for the runs' counter-checks.                       *)
AfterReceiveGoesOn(ok) == "parse"

AfterBranchSkips(chosen) == IF chosen = {} THEN "test" ELSE "lookup"

-----------------------------------------------------------------------------
(* Open may throw, and the program says so and returns.                    *)
Start ==
  /\ pc = "start"
  /\ pc' \in {"test", "ended"}
  /\ UNCHANGED <<transferVars, traffic, headerVars, running, branch, report,
                 refused>>

(* The head of the loop, which resets the caller's lengths.                *)
Test ==
  /\ pc = "test"
  /\ pc' = IF running THEN "receive" ELSE "close"
  /\ IF running THEN receiveLength' = 0 /\ sendLength' = 0
                ELSE UNCHANGED <<receiveLength, sendLength>>
  /\ branch' = {}
  /\ report' = NoLine
  /\ UNCHANGED <<received, injected, traffic, headerVars,
                 running, refused>>

(* A failed Receive is reported and tried again.                           *)
AfterReceive(ok) == IF ok THEN "parse" ELSE "test"

TakePacket ==
  /\ pc = "receive"
  /\ \E ok \in BOOLEAN :
       /\ Receive(ok)
       /\ pc' = AfterReceive(ok)
  /\ parsed' = "no"
  /\ UNCHANGED <<traffic, place, header, cache, running, branch, report,
                 refused>>

Parse ==
  /\ pc = "parse"
  /\ pc' = "branch"
  /\ UNCHANGED <<transferVars, traffic, place, running, branch, report, refused>>
  /\ Headers!ParsePacket("plain")

AfterBranch(chosen) == IF chosen = {} THEN "send" ELSE "lookup"

Branch ==
  /\ pc = "branch"
  /\ branch' = FirstOf(ValidHeaders)
  /\ pc' = AfterBranch(branch')
  /\ UNCHANGED <<transferVars, traffic, headerVars, running, report, refused>>

(* GetPacketProcess returns, or throws for want of memory: nothing catches *)
(* the exception and the process ends with the packet in its hand.         *)
Lookup ==
  /\ pc = "lookup"
  /\ pc' \in {"print", "ended"}
  /\ UNCHANGED <<transferVars, traffic, headerVars, running, branch, report,
                 refused>>

(* All four branches print the addresses of the IPv4 header object.        *)
PrintLine ==
  /\ pc = "print"
  /\ pc' = "send"
  /\ IF Headers!Valid("ip")
     THEN \E found \in Headers!Behind("ip") :
            cache' = [cache EXCEPT !["ip"] = [e \in Headers!Ends |->
                        IF Headers!Stale("ip", e, found)
                        THEN Headers!Refreshed("ip", found, e) ELSE @[e]]]
     ELSE UNCHANGED cache
  /\ report' = [shown |-> [e \in Headers!Ends |-> cache'["ip"][e].shown],
                still |-> Headers!Intact("ip")]
  /\ UNCHANGED <<transferVars, traffic, place, parsed, header, running, branch,
                 refused>>

(* What the send returns is not looked at.                                 *)
PassOn ==
  /\ pc = "send"
  /\ pc' = "test"
  /\ \E ok \in BOOLEAN :
       /\ SendAsync(receiveLength, ok)
       /\ refused' = IF ok THEN refused ELSE refused \cup {array}
  /\ UNCHANGED <<traffic, headerVars, running, branch, report>>

Close ==
  /\ pc = "close"
  /\ pc' = "ended"
  /\ UNCHANGED <<transferVars, traffic, headerVars, running, branch, report,
                 refused>>

-----------------------------------------------------------------------------
(* The handler clears the flag on a thread of its own; when it has         *)
(* returned the runtime ends the process, wherever the loop is by then.    *)
CtrlC ==
  /\ pc # "ended"
  /\ running' = FALSE
  /\ UNCHANGED <<transferVars, traffic, headerVars, pc, branch, report, refused>>

Kill ==
  /\ ~running
  /\ pc # "ended"
  /\ pc' = "ended"
  /\ UNCHANGED <<transferVars, traffic, headerVars, running, branch, report,
                 refused>>

PacketArrives == Capture /\ UNCHANGED <<traffic, headerVars, loopVars>>

MoveArray ==
  /\ UNCHANGED <<transferVars, traffic, loopVars>>
  /\ place <= MaxMoves
  /\ place' = place + 1
  /\ Headers!Move

WithPacket == Parse \/ Branch \/ Lookup \/ PrintLine \/ PassOn

Next ==
  \/ Start \/ Test \/ TakePacket \/ WithPacket \/ Close
  \/ CtrlC \/ Kill \/ PacketArrives \/ MoveArray

Spec == Init /\ [][Next]_vars

(* The loop is scheduled as long as it need not wait for the driver, and   *)
(* the runtime ends an interrupted process.                                *)
Fairness == WF_vars(WithPacket) /\ WF_vars(Test) /\ WF_vars(Kill)

FairSpec == Spec /\ Fairness

-----------------------------------------------------------------------------
Hand == IF pc \in InHand THEN array ELSE Nothing

Promise == INSTANCE Relay WITH
  next <- taken,
  hand <- Hand,
  out  <- injected,
  on   <- pc # "ended"

(* NetDump is a Relay: packets go back in the order they came, at most     *)
(* once, with their own length and their own address, although Receive may *)
(* fail in between (which zeroes the address and the length but not the    *)
(* array) and the process may end anywhere.                                *)
KeepsRelaying == Promise!Spec

(* The line printed is about this packet although the header objects are   *)
(* those of all packets before: the branch is the packet's own as long as  *)
(* no earlier packet had a header that this one lacks, and the addresses   *)
(* shown of an IPv4 packet are its own unless the array moved under the    *)
(* header (or it comes from 0.0.0.0, see ShowsAsNew).                     *)
Settled == \A n \in 1 .. array : traffic[n].headers \subseteq traffic[array].headers

ReportRight ==
  /\ pc \in {"lookup", "print", "send"} /\ Settled =>
       \A i \in DOMAIN Branches :
         branch = Branches[i] <=> Branches[i] \subseteq traffic[array].headers
  /\ report.still /\ PacketIn(array).ends.src # Any =>
       report.shown = PacketIn(array).ends

(* A packet that was taken is passed on, unless the driver refuses it or   *)
(* the process ends first; no header and no branch makes the loop keep it. *)
PassedOn ==
  \A n \in PacketNo :
    (Hand = n) ~> (\/ \E i \in DOMAIN injected : injected[i].data = n
                   \/ n \in refused
                   \/ pc = "ended")
=============================================================================
