---------------------------- MODULE OwnerLookup ----------------------------
(***************************************************************************)
(* What finding the process behind a packet promises while sockets come    *)
(* and go: the answer is right for one moment between the question and the *)
(* answer.  The lookup may give up instead of answering.                   *)
(***************************************************************************)
CONSTANTS
  Sockets,          \* the sockets there may be
  Fits(_, _, _),    \* whether a socket fits a packet that goes in or out
  Nobody,           \* the answer when no socket fits
  Blindness         \* whether a look may fail unnoticed

VARIABLES
  open,      \* the sockets that exist
  phase,     \* "idle", "asked" or "looked"
  packet,    \* the question: the socket of the packet, and its direction
  inward,
  answers,   \* after the look: what may be answered
  result,    \* the last call's end
  pid        \* and answer

vars == <<open, phase, packet, inward, answers, result, pid>>

Pids == {s.pid : s \in Sockets}

Owners ==
  {s \in open : s.kind = packet.kind /\ Fits(s, packet, inward)}

Right == IF Owners = {} THEN {Nobody} ELSE {s.pid : s \in Owners}

Init ==
  /\ open \subseteq Sockets
  /\ phase = "idle"
  /\ packet \in Sockets /\ inward = FALSE
  /\ answers = {}
  /\ result = "none" /\ pid = Nobody

Ask ==
  /\ phase = "idle"
  /\ phase' = "asked"
  /\ packet' \in Sockets /\ inward' \in BOOLEAN
  /\ result' = "none" /\ pid' = Nobody
  /\ UNCHANGED <<open, answers>>

Look ==
  /\ phase = "asked"
  /\ phase' = "looked"
  /\ answers' = Right
  /\ UNCHANGED <<open, packet, inward, result, pid>>

(* Nothing was seen, and nothing is known of the answer.                   *)
LookBlind ==
  /\ Blindness
  /\ phase = "asked"
  /\ phase' = "looked"
  /\ answers' = {Nobody} \cup Pids
  /\ UNCHANGED <<open, packet, inward, result, pid>>

Answer ==
  /\ phase = "looked"
  /\ phase' = "idle"
  /\ result' = "returned" /\ pid' \in answers
  /\ answers' = {}
  /\ UNCHANGED <<open, packet, inward>>

(* A question may also be turned down before it is taken up.               *)
GiveUp ==
  /\ phase = "asked"
  /\ phase' = "idle"
  /\ result' = "threw"
  /\ UNCHANGED <<open, packet, inward, answers, pid>>

TurnDown ==
  /\ phase = "idle"
  /\ packet' \in Sockets /\ inward' \in BOOLEAN
  /\ result' = "threw"
  /\ UNCHANGED <<open, phase, answers, pid>>

ComeAndGo ==
  /\ open' \subseteq Sockets
  /\ UNCHANGED <<phase, packet, inward, answers, result, pid>>

Next == Ask \/ Look \/ LookBlind \/ Answer \/ GiveUp \/ TurnDown \/ ComeAndGo

Spec == Init /\ [][Next]_vars
=============================================================================
