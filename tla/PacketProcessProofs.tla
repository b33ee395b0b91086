------------------------ MODULE PacketProcessProofs ------------------------
(***************************************************************************)
(* Theorems about PacketProcess, for every finite set of sockets, every    *)
(* bound on their changes, and queries that may fail or not.               *)
(***************************************************************************)
EXTENDS PacketProcess, FiniteSetTheorems, TLAPS

USE DEF NoPid, Kinds, Headers, HeaderOf

-----------------------------------------------------------------------------
(* A call that is running has no result yet, its header lives, and a query *)
(* that failed outright is followed by the loop.                           *)
InUse ==
  call.step # "idle" =>
    /\ call.result = "none" /\ HeaderOf(kind) \notin destroyed
    /\ call.errors => call.step = "scan"

(* While a call runs, what has existed throughout exists, and what exists  *)
(* has existed at some time.                                               *)
Witnessed == call.step # "idle" => steady \subseteq open /\ open \subseteq seen

(* What the loop scans is the table of one moment of this very call,       *)
(* unless the query failed outright.                                       *)
FreshTable ==
  call.step = "scan" /\ ~call.errors =>
    /\ table[kind].filled
    /\ \A s \in steady : s.kind = kind => s \in table[kind].rows
    /\ \A s \in table[kind].rows : s.kind = kind /\ s \in seen

OwnerInv ==
  /\ TypeOK /\ InUse /\ TablesOwned /\ Witnessed /\ FreshTable
  /\ OutboundOwner /\ NoStaleOwner

LEMMA TablesType ==
  /\ NoTable \in Tables /\ NewBlock \in Tables /\ FreedBlock \in Tables
  /\ NoTable.block = "none" /\ NewBlock.block = "own"
  /\ FreedBlock.block = "freed"
BY DEF Tables, NoTable, NewBlock, FreedBlock

LEMMA SocketsType ==
  \A s \in Sockets :
    /\ s.kind \in Kinds /\ s.pid \in Nat \ {0}
    /\ s.localPort \in Nat /\ s.remotePort \in Nat
    /\ s.localAddr \in Nat /\ s.remoteAddr \in Nat
BY PacketProcessAssumption DEF Row

(* A query asks for a number of bytes.                                     *)
LEMMA NeededType ==
  ASSUME TypeOK PROVE Needed(Cardinality(Rows(kind))) \in Nat
<1>1. IsFiniteSet(Rows(kind))
  BY PacketProcessAssumption, FS_Subset DEF TypeOK, Rows
<1>2. Cardinality(Rows(kind)) \in Nat
  BY <1>1, FS_CardinalityType
<1> QED BY <1>2 DEF Needed

LEMMA InitOwnerInv == Init => OwnerInv
<1> SUFFICES ASSUME Init PROVE OwnerInv
  OBVIOUS
<1> USE DEF Init
<1>1. call \in Calls /\ call.step = "idle" /\ call.result = "none"
  <2>1. PICK p \in Sockets :
          call = [step |-> "idle", packet |-> p, inward |-> FALSE, size |-> 0,
                  result |-> "none", pid |-> NoPid, errors |-> FALSE]
    OBVIOUS
  <2> QED BY <2>1 DEF Calls
<1>2. TypeOK
  BY <1>1, TablesType, PacketProcessAssumption DEF TypeOK
<1>3. TablesOwned
  BY TablesType DEF TablesOwned
<1> QED BY <1>1, <1>2, <1>3 DEF OwnerInv, InUse, Witnessed, FreshTable,
                                OutboundOwner, NoStaleOwner

-----------------------------------------------------------------------------
(* A call begins.                                                          *)
LEMMA BeginKeeps ==
  ASSUME OwnerInv, NEW s \in Sockets, NEW inward \in BOOLEAN,
         Begin(s, inward) \/ BeginThrows(s, inward)
  PROVE  OwnerInv'
<1> USE DEF OwnerInv, kind
<1>1. CASE Begin(s, inward)
  <2> USE <1>1 DEF Begin
  <2>1. /\ call' \in Calls
        /\ call'.packet = s /\ call'.step = "query" /\ call'.result = "none"
    BY DEF TypeOK, Calls, FirstSize, Needed
  <2>2. /\ table' \in [Kinds -> Tables] /\ s.kind \in Kinds
        /\ \A k \in Kinds : \/ table'[k] = table[k]
                            \/ k = s.kind /\ table'[k] = NewBlock
    BY TablesType, SocketsType DEF TypeOK
  <2>3. TypeOK'
    BY <2>1, <2>2 DEF TypeOK
  <2>4. TablesOwned' /\ InUse'
    BY <2>1, <2>2, TablesType DEF TablesOwned, InUse
  <2> QED BY <2>1, <2>3, <2>4 DEF Witnessed, FreshTable, OutboundOwner,
                                  NoStaleOwner
<1>2. CASE BeginThrows(s, inward)
  <2> USE <1>2 DEF BeginThrows
  <2>1. call' \in Calls /\ call'.step = "idle" /\ call'.result = "threw"
    BY DEF TypeOK, Calls
  <2> QED BY <2>1 DEF TypeOK, TablesOwned, InUse, Witnessed, FreshTable,
                      OutboundOwner, NoStaleOwner
<1> QED BY <1>1, <1>2

(* The queries and the new block: the header's own block is filled with    *)
(* the rows of this moment, replaced, or gone when the call throws.        *)
LEMMA FetchKeeps ==
  ASSUME OwnerInv, Query \/ Resize \/ Requery
  PROVE  OwnerInv'
<1> USE DEF OwnerInv
<1> DEFINE k == kind
<1>1. /\ call.step \in {"query", "resize", "requery"} /\ call.result = "none"
      /\ call \in Calls /\ k \in Kinds /\ HeaderOf(k) \notin destroyed
      /\ table \in [Kinds -> Tables]
      /\ UNCHANGED <<open, changes, destroyed, steady, seen>>
  BY SocketsType DEF Query, Resize, Requery, TypeOK, Calls, kind, InUse
<1>2. /\ call' \in Calls /\ call'.packet = call.packet
      /\ \/ call'.step = "idle" /\ call'.result = "threw"
         \/ /\ call'.step # "idle" /\ call'.result = "none"
            /\ call'.errors => call'.step = "scan"
  BY <1>1, NeededType DEF InUse, Query, Resize, Requery, Populate, Throw, Calls
<1>3. Rows(k) \subseteq Sockets
  BY DEF Rows, TypeOK
<1>4. /\ table' \in [Kinds -> Tables]
      /\ \A other \in Kinds \ {k} : table'[other] = table[other]
      /\ table'[k].block # "freed"
  <2>1. [block |-> "own", filled |-> TRUE, rows |-> Rows(k)] \in Tables
    BY <1>3 DEF Tables
  <2>2. PICK new \in Tables : /\ table' = [table EXCEPT ![k] = new]
                              /\ new.block # "freed"
    BY <1>1, <2>1, TablesType DEF Query, Resize, Requery, Populate, TablesOwned
  <2> QED BY <1>1, <2>2
<1>5. kind' = k
  BY <1>2 DEF kind
<1>6. TypeOK'
  BY <1>1, <1>2, <1>4 DEF TypeOK
<1>7. InUse' /\ Witnessed'
  BY <1>1, <1>2, <1>5 DEF InUse, Witnessed
<1>8. TablesOwned'
  BY <1>1, <1>4 DEF TablesOwned
<1>9. FreshTable'
  <2> SUFFICES ASSUME call'.step = "scan", ~call'.errors
               PROVE  /\ table'[k].filled /\ table'[k].rows = Rows(k)
    BY <1>1, <1>5 DEF FreshTable, Witnessed, Rows
  <2>1. Populate
    BY <1>1 DEF Query, Resize, Requery, Throw, Calls
  <2> QED BY <1>1, <2>1 DEF Populate
<1> QED BY <1>2, <1>6, <1>7, <1>8, <1>9 DEF OutboundOwner, NoStaleOwner

(* The loop reports the owner.                                             *)
LEMMA ScanKeeps ==
  ASSUME OwnerInv, Scan
  PROVE  OwnerInv'
<1> USE DEF OwnerInv
<1>1. PICK pid \in Found :
        call' = [call EXCEPT !.step = "idle", !.result = "returned",
                             !.pid = pid]
  BY DEF Scan
<1>2. /\ call.step = "scan" /\ call \in Calls /\ table \in [Kinds -> Tables]
      /\ kind \in Kinds
      /\ UNCHANGED <<open, changes, table, destroyed, steady, seen>>
  BY SocketsType DEF Scan, TypeOK, Calls, kind
<1>3. pid \in {NoPid} \cup {s.pid : s \in Sockets}
  BY <1>1, <1>2 DEF Found, Tables
<1>4. /\ call' \in Calls /\ call'.step = "idle" /\ call'.result = "returned"
      /\ call'.pid = pid /\ call'.packet = call.packet
      /\ call'.inward = call.inward /\ call'.errors = call.errors
      /\ kind' = kind
  BY <1>1, <1>2, <1>3 DEF Calls, kind
<1>5. TypeOK'
  BY <1>2, <1>4 DEF TypeOK
<1>6. InUse' /\ TablesOwned' /\ Witnessed' /\ FreshTable'
  BY <1>2, <1>4 DEF InUse, TablesOwned, Witnessed, FreshTable
<1>7. ASSUME ~call.errors, pid # NoPid
      PROVE  \E row \in table[kind].rows :
               pid = row.pid /\ Matches(row, call.packet, call.inward)
  BY <1>1, <1>2, <1>7 DEF Found, FreshTable
<1>8. OutboundOwner'
  <2> SUFFICES ASSUME ~call.inward, ~call.errors, call.packet \in steady
               PROVE  Attributed'
    BY <1>2, <1>4 DEF OutboundOwner
  <2>1. call.packet \in Sockets /\ call.packet \in table[kind].rows
    BY <1>2 DEF FreshTable, kind, Calls
  <2>2. Matches(call.packet, call.packet, call.inward)
    BY DEF Matches, MatchesOutbound, SourcePort, Source
  <2>3. pid # NoPid
    BY <1>1, <1>2, <2>1, <2>2, SocketsType DEF Found, FreshTable, TypeOK, Tables
  <2>4. PICK row \in table[kind].rows :
          pid = row.pid /\ Matches(row, call.packet, call.inward)
    BY <1>7, <2>3
  <2>5. row \in seen /\ row.kind = call.packet.kind
    BY <1>2, <2>4 DEF FreshTable, kind
  <2>6. row # call.packet => LookAlike(call.packet)
    BY <2>4, <2>5 DEF LookAlike
  <2>7. LookAlike(call.packet) => LookAlike(call.packet)'
    BY <1>2, <1>4 DEF LookAlike
  <2> QED BY <1>4, <2>3, <2>4, <2>6, <2>7 DEF Attributed
<1>9. NoStaleOwner'
  BY <1>2, <1>4, <1>7 DEF NoStaleOwner, FreshTable
<1> QED BY <1>5, <1>6, <1>8, <1>9

-----------------------------------------------------------------------------
(* A header is destroyed only when no call uses its tables.                *)
LEMMA DestroyKeeps ==
  ASSUME OwnerInv, NEW h \in Headers, Destroy(h)
  PROVE  OwnerInv'
<1> USE DEF OwnerInv, Destroy
<1>1. table' \in [Kinds -> Tables]
  BY TablesType DEF TypeOK
<1>2. \A k \in Kinds :
        IF HeaderOf(k) = h THEN table'[k].block # "own"
                           ELSE table'[k] = table[k]
  BY TablesType DEF TypeOK, Tables
<1>3. TypeOK'
  BY <1>1 DEF TypeOK
<1>4. InUse' /\ Witnessed'
  BY DEF InUse, Witnessed, kind
<1>5. TablesOwned'
  BY <1>2 DEF TablesOwned
<1>6. call.step = "scan" => table'[kind] = table[kind] /\ kind \in Kinds
  BY <1>2, SocketsType DEF kind, TypeOK, Calls
<1>7. FreshTable'
  BY <1>6 DEF FreshTable, kind
<1>8. OutboundOwner' /\ NoStaleOwner'
  BY DEF OutboundOwner, NoStaleOwner, Attributed, LookAlike, kind
<1> QED BY <1>3, <1>4, <1>5, <1>7, <1>8

(* Sockets that come and go leave the copy of the table as it is.          *)
LEMMA SocketKeeps ==
  ASSUME OwnerInv, NEW s \in Sockets, OpenSocket(s) \/ CloseSocket(s)
  PROVE  OwnerInv'
<1> USE DEF OwnerInv
<1>1. /\ steady' \subseteq steady /\ seen \subseteq seen'
      /\ open' \subseteq Sockets /\ seen' \subseteq Sockets
      /\ changes' \in 0 .. MaxChanges
      /\ Witnessed'
      /\ UNCHANGED <<table, call, destroyed>>
  BY PacketProcessAssumption DEF OpenSocket, CloseSocket, TypeOK, Witnessed
<1>2. TypeOK'
  BY <1>1 DEF TypeOK
<1>3. InUse' /\ TablesOwned'
  BY <1>1 DEF InUse, TablesOwned, kind
<1>4. FreshTable'
  BY <1>1 DEF FreshTable, kind
<1>5. OutboundOwner'
  BY <1>1 DEF OutboundOwner, Attributed, LookAlike, kind
<1>6. NoStaleOwner'
  BY <1>1 DEF NoStaleOwner, kind
<1> QED BY <1>1, <1>2, <1>3, <1>4, <1>5, <1>6

LEMMA NextOwnerInv == OwnerInv /\ [Next]_vars => OwnerInv'
<1> SUFFICES ASSUME OwnerInv, [Next]_vars PROVE OwnerInv'
  OBVIOUS
<1>1. CASE UNCHANGED vars
  BY <1>1 DEF vars, OwnerInv, TypeOK, InUse, TablesOwned, Witnessed,
              FreshTable, OutboundOwner, NoStaleOwner, Attributed, LookAlike,
              kind
<1>2. CASE Next
  BY <1>2, BeginKeeps, FetchKeeps, ScanKeeps, DestroyKeeps, SocketKeeps
     DEF Next
<1> QED BY <1>1, <1>2

LEMMA OwnerInvHolds == Spec => []OwnerInv
BY InitOwnerInv, NextOwnerInv, PTL DEF Spec

(* Every component of the state keeps its type.                            *)
THEOREM TypeCorrect == Spec => []TypeOK
<1>1. OwnerInv => TypeOK
  BY DEF OwnerInv
<1> QED BY <1>1, OwnerInvHolds, PTL

(* Until a header is destroyed its table pointers are null or to a block   *)
(* of its own, whichever allocation or query failed; afterwards to none    *)
(* that could be used.                                                     *)
THEOREM TablesAreOwned == Spec => []TablesOwned
<1>1. OwnerInv => TablesOwned
  BY DEF OwnerInv
<1> QED BY <1>1, OwnerInvHolds, PTL

(* An outbound packet of a socket that lives through the call is given a   *)
(* process, and its own unless a socket that looks the same to the loop    *)
(* existed during the call.                                                *)
THEOREM OutboundOwned == Spec => []OutboundOwner
<1>1. OwnerInv => OutboundOwner
  BY DEF OwnerInv
<1> QED BY <1>1, OwnerInvHolds, PTL

(* No call reports the process of a socket that was gone when it began.    *)
THEOREM NoneStale == Spec => []NoStaleOwner
<1>1. OwnerInv => NoStaleOwner
  BY DEF OwnerInv
<1> QED BY <1>1, OwnerInvHolds, PTL

-----------------------------------------------------------------------------
(* Every call is a lookup at one moment.                                   *)
LEMMA InitLooks == Init => Promise!Init
<1> SUFFICES ASSUME Init PROVE Promise!Init
  OBVIOUS
<1>1. PICK p \in Sockets :
        call = [step |-> "idle", packet |-> p, inward |-> FALSE, size |-> 0,
                result |-> "none", pid |-> NoPid, errors |-> FALSE]
  BY DEF Init
<1> QED BY <1>1 DEF Init, Promise!Init, Phase

(* What the loop finds in a table just filled are the owners of now.       *)
LEMMA PopulateLooks ==
  ASSUME OwnerInv, Populate, call.step # "scan", UNCHANGED open
  PROVE  Found' = Promise!Right
<1>1. call'.packet = call.packet /\ call'.inward = call.inward
  BY DEF Populate, OwnerInv, TypeOK, Calls
<1>2. kind \in Kinds
  BY SocketsType DEF OwnerInv, TypeOK, Calls, kind
<1>3. table'[kind'].filled /\ table'[kind'].rows = Rows(kind)
  BY <1>1, <1>2 DEF Populate, OwnerInv, TypeOK, kind
<1>4. {row \in table'[kind'].rows : Matches(row, call'.packet, call'.inward)}
        = Promise!Owners
  BY <1>1, <1>3 DEF Rows, kind, Promise!Owners
<1> QED BY <1>3, <1>4 DEF Found, Promise!Right

LEMMA FetchLooks ==
  ASSUME OwnerInv, Query \/ Resize \/ Requery
  PROVE  Promise!Look \/ Promise!LookBlind \/ Promise!GiveUp
           \/ UNCHANGED Promise!vars
<1>1. /\ call \in Calls /\ call.step \in {"query", "resize", "requery"}
      /\ UNCHANGED open
  BY DEF OwnerInv, TypeOK, Query, Resize, Requery
<1>2. CASE Populate
  <2>1. /\ call'.step = "scan" /\ call'.errors = call.errors
        /\ call'.packet = call.packet /\ call'.inward = call.inward
        /\ call'.result = call.result /\ call'.pid = call.pid
    BY <1>1, <1>2 DEF Populate, Calls
  <2>2. Found' = Promise!Right
    BY <1>1, <1>2, PopulateLooks
  <2>3. ~call.errors
    BY <1>1 DEF OwnerInv, InUse
  <2> QED BY <1>1, <2>1, <2>2, <2>3 DEF Promise!Look, Phase
<1>3. CASE Throw
  BY <1>1, <1>3 DEF Throw, Calls, Promise!GiveUp, Phase
<1>4. CASE /\ OtherErrors
           /\ call' = [call EXCEPT !.step = "scan", !.errors = TRUE]
  BY <1>1, <1>4 DEF Calls, Promise!LookBlind, Phase, AnyPid, Promise!Pids
<1>5. CASE call'.step \in {"resize", "requery"}
  BY <1>1, <1>5 DEF Query, Resize, Requery, Populate, Throw, Calls, Phase,
                    Promise!vars
<1> QED BY <1>1, <1>2, <1>3, <1>4, <1>5 DEF Query, Resize, Requery, Calls

LEMMA NextLooks == OwnerInv /\ [Next]_vars => [Promise!Next]_Promise!vars
<1> SUFFICES ASSUME OwnerInv, [Next]_vars PROVE [Promise!Next]_Promise!vars
  OBVIOUS
<1> USE DEF Promise!Next
<1>1. call \in Calls
  BY DEF OwnerInv, TypeOK
<1>2. CASE UNCHANGED vars
  BY <1>2 DEF vars, Promise!vars, Phase, Found, kind
<1>3. ASSUME NEW s \in Sockets, NEW inward \in BOOLEAN,
             Begin(s, inward) \/ BeginThrows(s, inward)
      PROVE  Promise!Next
  <2>1. CASE Begin(s, inward)
    <3>1. /\ call'.step = "query" /\ call'.packet = s /\ call'.inward = inward
          /\ call'.result = "none" /\ call'.pid = NoPid /\ call.step = "idle"
          /\ open' = open
      BY <2>1 DEF Begin
    <3> QED BY <3>1 DEF Promise!Ask, Phase
  <2>2. CASE BeginThrows(s, inward)
    <3>1. /\ call.step = "idle" /\ call'.step = "idle" /\ call'.packet = s
          /\ call'.inward = inward /\ call'.result = "threw"
          /\ call'.pid = call.pid /\ open' = open
      BY <1>1, <2>2 DEF BeginThrows, Calls
    <3> QED BY <3>1 DEF Promise!TurnDown, Phase
  <2> QED BY <1>3, <2>1, <2>2
<1>4. CASE Query \/ Resize \/ Requery
  BY <1>4, FetchLooks
<1>5. CASE Scan
  <2>1. PICK pid \in Found :
          call' = [call EXCEPT !.step = "idle", !.result = "returned",
                               !.pid = pid]
    BY <1>5 DEF Scan
  <2>2. pid \in AnyPid
    <3>1. kind \in Kinds
      BY <1>1, SocketsType DEF kind, Calls
    <3> QED BY <2>1, <3>1 DEF Found, AnyPid, OwnerInv, TypeOK, Tables
  <2> QED BY <1>1, <1>5, <2>1, <2>2 DEF Scan, Calls, Promise!Answer, Phase
<1>6. ASSUME NEW h \in Headers, Destroy(h)
      PROVE  UNCHANGED Promise!vars
  <2>1. call.step = "scan" => table'[kind] = table[kind]
    BY <1>1, <1>6, SocketsType DEF Destroy, kind, Calls
  <2> QED BY <1>6, <2>1 DEF Destroy, Promise!vars, Phase, Found, kind
<1>7. ASSUME NEW s \in Sockets, OpenSocket(s) \/ CloseSocket(s)
      PROVE  Promise!ComeAndGo
  BY <1>7 DEF OpenSocket, CloseSocket, Promise!ComeAndGo, Phase, Found, kind,
              OwnerInv, TypeOK
<1> QED BY <1>2, <1>3, <1>4, <1>5, <1>6, <1>7 DEF Next

(* Each call of GetPacketProcess reports what a single look at the sockets *)
(* between its begin and its end would have, or throws, for any sockets    *)
(* and any changes to them, as long as the first query does not fail for   *)
(* another reason than size.                                               *)
THEOREM EachLooksOnce == Spec => LooksOnce
BY OwnerInvHolds, InitLooks, NextLooks, PTL DEF Spec, LooksOnce, Promise!Spec
=============================================================================
