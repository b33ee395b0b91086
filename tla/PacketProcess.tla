--------------------------- MODULE PacketProcess ---------------------------
(***************************************************************************)
(* The four overloads of Diversion.GetPacketProcess: they copy the socket  *)
(* table of the operating system into a block that a TCPHeader or a        *)
(* UDPHeader keeps between calls, and look for the process that owns the   *)
(* packet's socket.  Sockets come and go between the steps of a call.      *)
(***************************************************************************)
EXTENDS Naturals, FiniteSets

CONSTANTS
  Sockets,      \* rows the system's tables may hold (records, see Row)
  OtherErrors,  \* whether a query may fail for another reason than its size
  MaxChanges    \* bound: sockets opened or closed in a behaviour

Kinds == {"tcp4", "tcp6", "udp4", "udp6"}    \* one overload and table each
Row == [kind : Kinds, pid : Nat \ {0},
        localPort : Nat, localAddr : Nat, remotePort : Nat, remoteAddr : Nat]

ASSUME PacketProcessAssumption ==
  /\ Sockets \subseteq Row
  /\ IsFiniteSet(Sockets)
  /\ OtherErrors \in BOOLEAN
  /\ MaxChanges \in Nat

NoPid == 0     \* the value the caller put in processId

VARIABLES
  open,      \* the sockets that exist
  changes,   \* how often that has changed
  table,     \* the block each header holds for its overload
  call,      \* the call in progress
  destroyed, \* header objects disposed of or finalized
  steady,    \* sockets that have existed ever since the call began
  seen       \* sockets that have existed at any time since then

vars == <<open, changes, table, call, destroyed, steady, seen>>

Rows(k) == {s \in open : s.kind = k}

(* Sizes count rows and one for what comes before them: the bytes for n    *)
(* rows are Needed(n).  A new TCP table is the size of a pointer, a new    *)
(* UDP table that of a table with one row.                                 *)
Needed(n) == n + 1
FirstSize(k) == IF k \in {"tcp4", "tcp6"} THEN Needed(0) ELSE Needed(1)

(* The pointer a header holds: null, to a block of its own, or to one that *)
(* has been freed.                                                         *)
Tables == [block : {"none", "own", "freed"}, filled : BOOLEAN,
           rows : SUBSET Sockets]
NoTable == [block |-> "none", filled |-> FALSE, rows |-> {}]
NewBlock == [NoTable EXCEPT !.block = "own"]  \* malloc leaves it as it was
FreedBlock == [NoTable EXCEPT !.block = "freed"]

Headers == {"tcp", "udp"}    \* a TCPHeader and a UDPHeader, two tables each
HeaderOf(k) == IF k \in {"tcp4", "tcp6"} THEN "tcp" ELSE "udp"
Calls ==
  [step   : {"idle", "query", "resize", "requery", "scan"},
   packet : Sockets,                     \* the socket the packet belongs to
   inward : BOOLEAN,
   size   : Nat,                         \* currentTableSize
   result : {"none", "returned", "threw"},
   pid    : {NoPid} \cup {s.pid : s \in Sockets},
   errors : BOOLEAN]                     \* the first query failed outright

TypeOK ==
  /\ open \subseteq Sockets
  /\ changes \in 0 .. MaxChanges
  /\ table \in [Kinds -> Tables]
  /\ call \in Calls
  /\ destroyed \subseteq Headers
  /\ steady \subseteq Sockets
  /\ seen \subseteq Sockets

Init ==
  /\ open \in SUBSET Sockets
  /\ changes = 0
  /\ table = [k \in Kinds |-> NoTable]
  /\ call \in [step : {"idle"}, packet : Sockets, inward : {FALSE},
               size : {0}, result : {"none"}, pid : {NoPid}, errors : {FALSE}]
  /\ destroyed = {}
  /\ steady = {}
  /\ seen = {}

kind == call.packet.kind

-----------------------------------------------------------------------------
(* Which rows the loop takes for the packet's.  An outbound packet carries *)
(* its socket's local end as source, an inbound one as destination.  IPv6  *)
(* addresses are compared by their first four bytes only.                  *)
Prefix(a) == a \div 2

Source(s, inward)      == IF inward THEN s.remoteAddr ELSE s.localAddr
Destination(s, inward) == IF inward THEN s.localAddr ELSE s.remoteAddr
SourcePort(s, inward)      == IF inward THEN s.remotePort ELSE s.localPort
DestinationPort(s, inward) == IF inward THEN s.localPort ELSE s.remotePort

(* A plausible mistake: the other column of the row.                       *)
MatchesRemotePort(row, s) ==
  /\ row.remotePort = SourcePort(s, FALSE)
  /\ row.kind = "tcp4" => row.localAddr = Source(s, FALSE)
  /\ row.kind = "tcp6" => Prefix(row.localAddr) = Prefix(Source(s, FALSE))

MatchesOutbound(row, s) ==
  /\ row.localPort = SourcePort(s, FALSE)
  /\ row.kind = "tcp4" => row.localAddr = Source(s, FALSE)
  /\ row.kind = "tcp6" => Prefix(row.localAddr) = Prefix(Source(s, FALSE))

MatchesInbound(row, s) ==
  CASE row.kind = "tcp4" -> /\ row.localPort = DestinationPort(s, TRUE)
                            /\ row.remoteAddr = Destination(s, TRUE)
    [] row.kind = "tcp6" -> /\ row.remotePort = DestinationPort(s, TRUE)
                            /\ Prefix(row.remoteAddr)
                                 = Prefix(Destination(s, TRUE))
    [] OTHER             -> row.localPort = DestinationPort(s, TRUE)

Matches(row, s, inward) ==
  IF inward THEN MatchesInbound(row, s) ELSE MatchesOutbound(row, s)

-----------------------------------------------------------------------------
(* Plausible mistakes, for the runs' counter-checks.                       *)
QueryTrustsTable ==
  /\ call.step = "query"
  /\ call' = [call EXCEPT !.step = IF table[kind].filled THEN "scan"
                                                            ELSE "resize",
                          !.size = Needed(Cardinality(Rows(kind)))]
  /\ UNCHANGED <<open, changes, table, destroyed, steady, seen>>

ScanReportsPort ==
  /\ call.step = "scan"
  /\ \E row \in table[kind].rows :
       /\ Matches(row, call.packet, call.inward)
       /\ call' = [call EXCEPT !.step = "idle", !.result = "returned",
                               !.pid = row.localPort]
  /\ UNCHANGED <<open, changes, table, destroyed, steady, seen>>

-----------------------------------------------------------------------------
(* A plausible mistake: a pointer that is not overwritten when malloc fails. *)
ResizeKeepsPointer ==
  /\ call.step = "resize"
  /\ \/ /\ table' = [table EXCEPT ![kind] = NewBlock]
        /\ call' = [call EXCEPT !.step = "requery"]
     \/ /\ table' = [table EXCEPT ![kind] = FreedBlock]
        /\ call' = [call EXCEPT !.step = "idle", !.result = "threw"]
  /\ UNCHANGED <<open, changes, destroyed, steady, seen>>

(* A table that is held is passed with a size of zero, whatever its size.  *)
Begin(s, inward) ==
  /\ call.step = "idle" /\ HeaderOf(s.kind) \notin destroyed
  /\ call' = [step |-> "query", packet |-> s, inward |-> inward,
              size |-> IF table[s.kind].block # "none" THEN 0 ELSE FirstSize(s.kind),
              result |-> "none", pid |-> NoPid, errors |-> FALSE]
  /\ table' = [table EXCEPT ![s.kind] = IF @.block = "none" THEN NewBlock ELSE @]
  /\ steady' = open
  /\ seen' = open
  /\ UNCHANGED <<open, changes, destroyed>>

(* The very first malloc for a table failed.                               *)
BeginThrows(s, inward) ==
  /\ call.step = "idle" /\ HeaderOf(s.kind) \notin destroyed
  /\ table[s.kind].block = "none"
  /\ call' = [call EXCEPT !.packet = s, !.inward = inward, !.result = "threw",
                          !.errors = FALSE]
  /\ UNCHANGED <<open, changes, table, destroyed, steady, seen>>

Fits == Needed(Cardinality(Rows(kind))) <= call.size

Populate ==
  /\ table' = [table EXCEPT ![kind] = [block |-> "own", filled |-> TRUE,
                                       rows |-> Rows(kind)]]
  /\ call' = [call EXCEPT !.step = "scan"]

Query ==
  /\ call.step = "query"
  /\ \/ Fits /\ Populate
     \/ /\ ~Fits                          \* ERROR_INSUFFICIENT_BUFFER
        /\ call' = [call EXCEPT !.step = "resize",
                                !.size = Needed(Cardinality(Rows(kind)))]
        /\ UNCHANGED table
     \/ /\ OtherErrors                    \* ignored: the loop runs all the same
        /\ call' = [call EXCEPT !.step = "scan", !.errors = TRUE]
        /\ UNCHANGED table
  /\ UNCHANGED <<open, changes, destroyed, steady, seen>>

Throw == call' = [call EXCEPT !.step = "idle", !.result = "threw"]

(* The old block is freed first; the new one holds nothing yet.            *)
Resize ==
  /\ call.step = "resize"
  /\ \/ /\ table' = [table EXCEPT ![kind] = NewBlock]
        /\ call' = [call EXCEPT !.step = "requery"]
     \/ /\ table' = [table EXCEPT ![kind] = NoTable]
        /\ Throw                          \* malloc failed
  /\ UNCHANGED <<open, changes, destroyed, steady, seen>>

(* The table may have outgrown the new block: then the call throws.        *)
Requery ==
  /\ call.step = "requery"
  /\ \/ Fits /\ Populate
     \/ (~Fits \/ OtherErrors) /\ Throw /\ UNCHANGED table
  /\ UNCHANGED <<open, changes, destroyed, steady, seen>>

(* The break only leaves the switch, so the last match counts; the rows    *)
(* are in no particular order, so that is any match.  What a block that    *)
(* was never filled holds is anything at all.                              *)
Found ==
  LET matching == {row \in table[kind].rows :
                     Matches(row, call.packet, call.inward)}
  IN  IF ~table[kind].filled THEN {NoPid} \cup {s.pid : s \in Sockets}
      ELSE IF matching = {} THEN {NoPid}
      ELSE {row.pid : row \in matching}

Scan ==
  /\ call.step = "scan"
  /\ \E pid \in Found :
       call' = [call EXCEPT !.step = "idle", !.result = "returned",
                            !.pid = pid]
  /\ UNCHANGED <<open, changes, table, destroyed, steady, seen>>

(* The destructor of a header, which calls its finalizer, or the finalizer *)
(* itself: both tables are freed and the pointers stay as they are.  The   *)
(* client destroys a header once and does not use it again; the collector  *)
(* finalizes none that a call is using.                                    *)
Destroy(h) ==
  /\ h \notin destroyed
  /\ call.step # "idle" => HeaderOf(kind) # h
  /\ destroyed' = destroyed \cup {h}
  /\ table' = [k \in Kinds |->
                 IF HeaderOf(k) = h /\ table[k].block # "none"
                 THEN FreedBlock ELSE table[k]]
  /\ UNCHANGED <<open, changes, call, steady, seen>>

-----------------------------------------------------------------------------
OpenSocket(s) ==
  /\ changes < MaxChanges /\ s \notin open
  /\ open' = open \cup {s}
  /\ seen' = seen \cup {s}
  /\ changes' = changes + 1
  /\ UNCHANGED <<table, call, destroyed, steady>>

CloseSocket(s) ==
  /\ changes < MaxChanges /\ s \in open
  /\ open' = open \ {s}
  /\ steady' = steady \ {s}
  /\ changes' = changes + 1
  /\ UNCHANGED <<table, call, destroyed, seen>>

Next ==
  \/ \E s \in Sockets, inward \in BOOLEAN :
       Begin(s, inward) \/ BeginThrows(s, inward)
  \/ Query \/ Resize \/ Requery \/ Scan
  \/ \E h \in Headers : Destroy(h)
  \/ \E s \in Sockets : OpenSocket(s) \/ CloseSocket(s)

Spec == Init /\ [][Next]_vars

-----------------------------------------------------------------------------
(* An outbound packet of a socket that lives through the whole call is     *)
(* attributed to a process, and to the right one unless another socket of  *)
(* its kind that looks the same to the loop existed during the call,       *)
(* however much the table grows or shrinks meanwhile and in whatever order *)
(* its rows are; only a query that failed outright excuses the call.       *)
LookAlike(s) ==
  \E other \in seen \ {s} :
    other.kind = s.kind /\ Matches(other, s, call.inward)

Attributed ==
  /\ call.pid # NoPid
  /\ ~LookAlike(call.packet) => call.pid = call.packet.pid

OutboundOwner ==
  (call.result = "returned" /\ ~call.inward /\ ~call.errors
     /\ call.packet \in steady) => Attributed

(* No packet is attributed to a process by a socket that was already gone  *)
(* when the call began: the block kept between calls is never believed.    *)
NoStaleOwner ==
  (call.result = "returned" /\ call.pid # NoPid /\ ~call.errors) =>
    \E s \in seen : /\ s.kind = kind /\ s.pid = call.pid
                    /\ Matches(s, call.packet, call.inward)

(* Windows is never handed a block that was freed, and free is called once *)
(* for each: until a header is destroyed its tables are null or its own,   *)
(* whatever failed between freeing a block that was too small and having   *)
(* the next one, and then none is left.  (The pointers left behind make a  *)
(* second Dispose free them again.)                                        *)
TablesOwned ==
  \A k \in Kinds :
    IF HeaderOf(k) \in destroyed THEN table[k].block # "own"
                                 ELSE table[k].block # "freed"

(* However often the table is asked for and the block is replaced, a call  *)
(* is one look at the sockets of a single moment, between its begin and    *)
(* its end, and reports one that fitted then: it implements OwnerLookup,   *)
(* whose look may fail unnoticed because the first query may.              *)
Phase ==
  CASE call.step = "idle" -> "idle"
    [] call.step = "scan" -> "looked"
    [] OTHER              -> "asked"

AnyPid == {NoPid} \cup {s.pid : s \in Sockets}

Promise == INSTANCE OwnerLookup WITH
  Fits      <- Matches,
  Nobody    <- NoPid,
  Blindness <- OtherErrors,
  phase     <- Phase,
  packet    <- call.packet,
  inward    <- call.inward,
  answers   <- IF call.step # "scan" THEN {}
               ELSE IF call.errors THEN AnyPid
               ELSE Found,
  result    <- call.result,
  pid       <- call.pid

LooksOnce == Promise!Spec

(* The process behind a packet flow can be identified (repository README,  *)
(* Goals), by the remote port when the packet is outbound and the local    *)
(* one when it is inbound (comment before each loop): a TCP packet, in     *)
(* either direction, of a socket that lives through the whole call is      *)
(* attributed to that socket's process, whatever other connections there   *)
(* are.  A row of the TCP tables names both ends of its connection.        *)
FlowOwner ==
  (call.result = "returned" /\ ~call.errors /\ kind \in {"tcp4", "tcp6"}
     /\ call.packet \in steady) => call.pid = call.packet.pid
=============================================================================
