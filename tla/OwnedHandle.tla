---------------------------- MODULE OwnedHandle ----------------------------
(***************************************************************************)
(* What wrapping a handle in an object promises: the object is opened at   *)
(* most once and closed at most once, its closers only take aim at the     *)
(* value that names it and close that before it can name anything else,    *)
(* nobody else closes it, and only of an object that is closed, or that    *)
(* one of them gave up because it would not close, do they report that it  *)
(* is.  A close may fail and leave the object to the next.  The promise is *)
(* void in part once two closes of one object have overlapped: then a      *)
(* close may go astray.                                                    *)
(***************************************************************************)
CONSTANTS
  Objects,      \* what can be opened
  Values,       \* the values a handle may have
  Free, Other   \* a value names nothing, or is somebody else's

VARIABLES
  names,      \* what each value names
  phase,      \* "new", "refused", "open" or "closed"
  aimed,      \* the values each object's closers are about to close
  reported,   \* the objects that were reported closed
  overlapped, \* those of which two closes overlapped
  forsaken    \* those given up open when a close of them failed

vars == <<names, phase, aimed, reported, overlapped, forsaken>>

Init ==
  /\ names \in [Values -> {Free, Other}]
  /\ phase = [o \in Objects |-> "new"]
  /\ aimed = [o \in Objects |-> {}]
  /\ reported = {}
  /\ overlapped = {}
  /\ forsaken = {}

Refuse(o) ==
  /\ phase[o] = "new"
  /\ phase' = [phase EXCEPT ![o] = "refused"]
  /\ UNCHANGED <<names, aimed, reported, overlapped, forsaken>>

Open(o, v) ==
  /\ phase[o] = "new" /\ names[v] = Free
  /\ phase' = [phase EXCEPT ![o] = "open"]
  /\ names' = [names EXCEPT ![v] = o]
  /\ UNCHANGED <<aimed, reported, overlapped, forsaken>>

Aim(o, v) ==
  /\ names[v] = o \/ overlapped # {}
  /\ aimed' = [aimed EXCEPT ![o] = @ \cup {v}]
  /\ UNCHANGED <<names, phase, reported, overlapped, forsaken>>

Close(o, v) ==
  /\ v \in aimed[o]
  /\ phase[o] = "open" /\ names[v] = o
  /\ phase' = [phase EXCEPT ![o] = "closed"]
  /\ names' = [names EXCEPT ![v] = Free]
  /\ aimed' = [aimed EXCEPT ![o] = @ \ {v}]
  /\ UNCHANGED <<reported, overlapped, forsaken>>

Overlap(o) ==
  /\ phase[o] \in {"open", "closed"}
  /\ overlapped' = overlapped \cup {o}
  /\ UNCHANGED <<names, phase, aimed, reported, forsaken>>

(* A close failed and left everything as it was; the closer may give up    *)
(* its own object then.                                                    *)
Fail(o, v) ==
  /\ v \in aimed[o]
  /\ aimed' \in {aimed, [aimed EXCEPT ![o] = @ \ {v}]}
  /\ \/ UNCHANGED forsaken
     \/ names[v] = o /\ forsaken' = forsaken \cup {o}
  /\ UNCHANGED <<names, phase, reported, overlapped>>

(* A close hits whatever its value names by then, or nothing; another may  *)
(* be aimed at the same value.                                             *)
Stray(o, v) ==
  /\ overlapped # {}
  /\ v \in aimed[o]
  /\ names' = [names EXCEPT ![v] = Free]
  /\ phase' = [p \in Objects |-> IF names[v] = p THEN "closed" ELSE phase[p]]
  /\ aimed' \in {aimed, [aimed EXCEPT ![o] = @ \ {v}]}
  /\ UNCHANGED <<reported, overlapped, forsaken>>

Report(o) ==
  /\ phase[o] = "closed" \/ o \in forsaken
  /\ reported' = reported \cup {o}
  /\ UNCHANGED <<names, phase, aimed, overlapped, forsaken>>

(* Somebody else opens and closes what is his.                             *)
Elsewhere(v) ==
  /\ names[v] \in {Free, Other}
  /\ names' = [names EXCEPT ![v] = IF @ = Free THEN Other ELSE Free]
  /\ UNCHANGED <<phase, aimed, reported, overlapped, forsaken>>

Next ==
  \/ \E o \in Objects : Refuse(o) \/ Overlap(o) \/ Report(o)
  \/ \E o \in Objects, v \in Values :
       Open(o, v) \/ Aim(o, v) \/ Close(o, v) \/ Stray(o, v) \/ Fail(o, v)
  \/ \E v \in Values : Elsewhere(v)

Spec == Init /\ [][Next]_vars
=============================================================================
