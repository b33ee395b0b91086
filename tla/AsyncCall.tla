----------------------------- MODULE AsyncCall -----------------------------
(***************************************************************************)
(* What the asynchronous calls made with one DivertAsyncResult keep to a   *)
(* client that makes one at a time.  A call runs, ends well or badly, and  *)
(* its end is answered by Get at most once, with the length of that very   *)
(* call.  Get may give up with FALSE on a call that still runs, and the    *)
(* call goes on: that is what the code does, not what the comments of      *)
(* Diversion.hpp say of FALSE (FalseIsOver in AsyncIO).  On a call that is *)
(* over it gives up only when the Diversion is closed.  Buffers, events,   *)
(* handles, threads and the other results do not appear.                   *)
(***************************************************************************)
EXTENDS Naturals

CONSTANT Calls      \* numbers of the asynchronous calls, as they are made

NoCall == 0

VARIABLES
  call,      \* the latest call made with the result
  phase,     \* how far that call is
  answer,    \* what Get said last, since the call was made
  length,    \* the length the result shows
  barred,    \* whether the Diversion of the latest call is closed
  spoiled    \* whether the result is past all promise: a call was given up
             \* while it ran, or calls on the object overlapped

vars == <<call, phase, answer, length, barred, spoiled>>

Init ==
  /\ call = NoCall
  /\ phase = "unused"
  /\ answer = "none"
  /\ length = NoCall
  /\ barred = FALSE
  /\ spoiled = FALSE

-----------------------------------------------------------------------------
(* A new call; it may be over at once, well or badly, and it is refused on *)
(* a Diversion that is closed.                                             *)
Begin(c) ==
  /\ phase # "running"
  /\ call < c
  /\ call' = c
  /\ answer' = "none"
  /\ phase' \in {"ok", "running", "refused"}
  /\ length' = IF phase' = "ok" THEN c ELSE NoCall
  /\ barred' => phase' = "refused"
  /\ UNCHANGED spoiled

End ==
  /\ phase = "running"
  /\ phase' \in {"ok", "error"}
  /\ UNCHANGED <<call, answer, length, barred, spoiled>>

AnswerTrue ==
  /\ phase = "ok"
  /\ phase' = "spent"
  /\ answer' = "true"
  /\ length' = call
  /\ UNCHANGED <<call, barred, spoiled>>

AnswerFalse ==
  /\ phase = "error"
  /\ phase' = "spent"
  /\ answer' = "false"
  /\ UNCHANGED <<call, length, barred, spoiled>>

(* Get gave up: it timed out, or found a handle closed.                    *)
GiveUp ==
  /\ phase \in {"ok", "error"} => barred
  /\ answer' = "false"
  /\ UNCHANGED <<call, phase, length, barred, spoiled>>

(* The result was let go; nobody will ask any more.                        *)
Discard ==
  /\ phase # "running"
  /\ phase' = "spent"
  /\ UNCHANGED <<call, answer, length, barred, spoiled>>

(* The Diversion was closed.                                               *)
Bar ==
  /\ barred' = TRUE
  /\ UNCHANGED <<call, phase, answer, length, spoiled>>

(* Nothing is promised of a result that is or becomes spoiled.             *)
Stray ==
  /\ spoiled'
  /\ call' \in Calls \cup {NoCall}
  /\ phase' \in {"unused", "refused", "running", "ok", "error", "spent"}
  /\ answer' \in {"none", "true", "false"}
  /\ length' \in Calls \cup {NoCall}
  /\ barred' \in BOOLEAN

Next ==
  \/ \E c \in Calls : Begin(c)
  \/ End \/ AnswerTrue \/ AnswerFalse \/ GiveUp \/ Discard \/ Bar \/ Stray

Spec == Init /\ [][Next]_vars
=============================================================================
