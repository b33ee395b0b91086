------------------------- MODULE DivertAsyncResult -------------------------
(***************************************************************************)
(* The DivertAsyncResult class and the native objects it holds while an    *)
(* overlapped I/O started by Diversion.ReceiveAsync or SendAsync is in     *)
(* flight: the OVERLAPPED block, the event the kernel signals, the pin     *)
(* (GCHandle) of the packet buffer.                                        *)
(*                                                                         *)
(* An asynchronous call is named by its number in Op.  A call creates at   *)
(* most one event and exactly one pin, so both carry the call's number;    *)
(* the number also stands for the number of bytes the call transfers,      *)
(* which tells the lengths of different calls apart.                       *)
(*                                                                         *)
(* The class takes no lock: any number of threads may be inside Get of one *)
(* object, and a call may configure it again under them.                   *)
(***************************************************************************)
EXTENDS Naturals

CONSTANTS
  Results,     \* DivertAsyncResult objects
  Diversions,  \* Diversion objects, each with the DivertHandle Open gave it
  Threads,     \* threads of the application that call Get
  MaxOps       \* bound: asynchronous calls in a behaviour

ASSUME MaxOpsAssumption == MaxOps \in Nat \ {0}

Op == 1 .. MaxOps
None == 0      \* a null reference, an unallocated GCHandle, a zero length

VARIABLES
  res,         \* the fields of each DivertAsyncResult
  getters,     \* how far each thread is in Get
  op,          \* what the kernel knows of each call
  pins,        \* GCHandles allocated and not freed
  events,      \* event handles created and not closed
  signaled,    \* events in the signalled state (auto-reset)
  winHandle    \* DivertHandles of Diversions that are still valid

resultVars == <<res, getters, op, pins, events, signaled, winHandle>>

(***************************************************************************)
(* event, buffer, noError and ioLength are the members of that name (the   *)
(* value of m_errorCode steers nothing and is left out).  status and       *)
(* length are the Internal and InternalHigh words of the OVERLAPPED block; *)
(* a zeroed block reads as a success of length zero.  life is what the     *)
(* garbage collector sees, ret what the last Get returned since the result *)
(* was configured.                                                         *)
(***************************************************************************)
ResultState ==
  [event     : Op \cup {None},
   buffer    : Op \cup {None},
   status    : {"fresh", "pending", "ok", "error", "freed"},
   length    : Op \cup {None},
   noError   : BOOLEAN,
   ioLength  : Op \cup {None},
   life      : {"held", "dropped", "gone"},
   ret       : {"none", "true", "false"}]

(* A thread waits for the event it read from the result it is on; once the *)
(* wait is over it goes by m_noError.  A wait that never times out stands  *)
(* for one with an infinite time-out.                                      *)
Idle == [at |-> "idle", on |-> None, event |-> None]

GetterState ==
  {Idle} \cup [at : {"waiting", "judged"}, on : Results, event : Op]

OpState ==
  [owner : Results \cup {None},
   via   : Diversions \cup {None},
   irp   : {"none", "pending", "ok", "error"}]

ResultsInit ==
  /\ res = [r \in Results |->
              [event |-> None, buffer |-> None, status |-> "fresh",
               length |-> None, noError |-> FALSE, ioLength |-> None,
               life |-> "held", ret |-> "none"]]
  /\ getters = [t \in Threads |-> Idle]
  /\ op = [o \in Op |-> [owner |-> None, via |-> None, irp |-> "none"]]
  /\ pins = {}
  /\ events = {}
  /\ signaled = {}
  /\ winHandle = Diversions

(* Some thread is inside Get of r.                                         *)
Busy(r) == \E t \in Threads : getters[t].on = r

-----------------------------------------------------------------------------
(* Reset.  The OVERLAPPED block is zeroed before CreateEvent is tried; a   *)
(* failure leaves the previous event wrapper in place.                     *)
AfterReset(s, o) ==
  [s EXCEPT !.status = "ok", !.length = None, !.noError = TRUE,
            !.ioLength = None, !.event = o, !.ret = "none"]

AfterFailedReset(s) ==
  [s EXCEPT !.status = "ok", !.length = None, !.noError = TRUE,
            !.ioLength = None, !.ret = "none"]

-----------------------------------------------------------------------------
(* Plausible mistakes in Get and in the finalizers.                        *)
GetTimeoutUnpins(t) ==
  LET r == getters[t].on
  IN  /\ getters[t].at = "waiting"
      /\ getters[t].event \notin signaled
      /\ res' = [res EXCEPT ![r] = [@ EXCEPT !.noError = FALSE,
                                             !.buffer = None]]
      /\ getters' = [getters EXCEPT ![t].at = "judged"]
      /\ pins' = pins \ {res[r].buffer}
      /\ UNCHANGED <<op, events, signaled, winHandle>>

(* What Get does after GetOverlappedResult, with parts to leave out.       *)
Answered(s, clears, stores) ==
  LET done == [s EXCEPT !.buffer = IF clears THEN None ELSE @]
  IN  IF s.status = "ok"
        THEN [done EXCEPT !.ret = "true",
                          !.ioLength = IF stores THEN s.length ELSE @]
        ELSE [done EXCEPT !.noError = FALSE, !.ret = "false"]

GetFinishMistaken(t, clears, stores, closes) ==
  LET r == getters[t].on
  IN  /\ getters[t].at = "judged" /\ res[r].noError
      /\ res[r].status \in {"ok", "error"}
      /\ res' = [res EXCEPT ![r] = Answered(@, clears, stores)]
      /\ getters' = [getters EXCEPT ![t] = Idle]
      /\ events' = IF closes THEN events \ {res[r].event} ELSE events
      /\ pins' = pins \ {res[r].buffer}
      /\ UNCHANGED <<op, signaled, winHandle>>

GetFinishKeepsBuffer(t)  == GetFinishMistaken(t, FALSE, TRUE, TRUE)
GetFinishLosesLength(t)  == GetFinishMistaken(t, TRUE, FALSE, TRUE)
GetFinishLeavesEvent(t)  == GetFinishMistaken(t, TRUE, TRUE, FALSE)

AfterAnswerOffByOne(s) ==
  IF s.status = "ok"
    THEN [s EXCEPT !.buffer = None, !.ret = "true", !.ioLength = s.length + 1]
    ELSE [s EXCEPT !.buffer = None, !.ret = "false", !.noError = FALSE]

FinalizeLeavesPin(r) ==
  /\ res[r].life = "dropped"
  /\ res' = [res EXCEPT ![r] = [@ EXCEPT !.life = "gone", !.buffer = None,
                                         !.status = "freed"]]
  /\ UNCHANGED <<getters, op, pins, events, signaled, winHandle>>

-----------------------------------------------------------------------------
(* Get, in the steps at which another thread, the kernel or the finalizer  *)
(* can come between.                                                       *)

EventValid(r) == res[r].event # None /\ res[r].event \in events

DivertHandleValid(r) ==
  res[r].event # None /\ op[res[r].event].via \in winHandle

(* One of the two handles is null or invalid: Get gives up at once.        *)
GetRefused(t, r) ==
  /\ getters[t].at = "idle" /\ res[r].life = "held"
  /\ ~(EventValid(r) /\ DivertHandleValid(r))
  /\ res' = [res EXCEPT ![r] = [@ EXCEPT !.noError = FALSE,
                                         !.ret = "false"]]
  /\ UNCHANGED <<getters, op, pins, events, signaled, winHandle>>

(* Both handles are valid: the thread has read the event's handle and      *)
(* enters WaitForSingleObject with it.                                     *)
GetWait(t, r) ==
  /\ getters[t].at = "idle" /\ res[r].life = "held"
  /\ EventValid(r) /\ DivertHandleValid(r)
  /\ getters' = [getters EXCEPT ![t] =
                   [at |-> "waiting", on |-> r, event |-> res[r].event]]
  /\ UNCHANGED <<res, op, pins, events, signaled, winHandle>>

(* What the wait ended with is stored in the object, not in the thread.    *)
Judge(t, success) ==
  /\ res' = [res EXCEPT ![getters[t].on].noError = success]
  /\ getters' = [getters EXCEPT ![t].at = "judged"]
  /\ UNCHANGED <<op, pins, events, winHandle>>

(* WAIT_OBJECT_0; the event is auto-reset, so the wait consumes it.        *)
GetWake(t) ==
  /\ getters[t].at = "waiting"
  /\ getters[t].event \in signaled
  /\ signaled' = signaled \ {getters[t].event}
  /\ Judge(t, TRUE)

(* WAIT_TIMEOUT: the I/O goes on, its event and its pin are kept.          *)
GetTimeout(t) ==
  /\ getters[t].at = "waiting"
  /\ getters[t].event \notin signaled
  /\ UNCHANGED signaled
  /\ Judge(t, FALSE)

(* WAIT_FAILED: the handle the thread had read was closed under it.        *)
GetFails(t) ==
  /\ getters[t].at = "waiting"
  /\ getters[t].event \notin events
  /\ UNCHANGED signaled
  /\ Judge(t, FALSE)

(* m_noError is false: Get answers FALSE and leaves everything in place.   *)
GetReturn(t) ==
  /\ getters[t].at = "judged" /\ ~res[getters[t].on].noError
  /\ res' = [res EXCEPT ![getters[t].on].ret = "false"]
  /\ getters' = [getters EXCEPT ![t] = Idle]
  /\ UNCHANGED <<op, pins, events, signaled, winHandle>>

(* The members after GetOverlappedResult.                                  *)
AfterAnswer(s) ==
  IF s.status = "ok"
    THEN [s EXCEPT !.buffer = None, !.ret = "true", !.ioLength = s.length]
    ELSE [s EXCEPT !.buffer = None, !.ret = "false", !.noError = FALSE]

(* GetOverlappedResult, which waits for the block to be completed; then    *)
(* the event is closed and the buffer unpinned on both of its outcomes.    *)
(* Both are what the object holds now, whatever the thread waited for.     *)
GetFinish(t) ==
  LET r == getters[t].on
  IN  /\ getters[t].at = "judged" /\ res[r].noError
      /\ res[r].status \in {"ok", "error"}
      /\ res' = [res EXCEPT ![r] = AfterAnswer(@)]
      /\ getters' = [getters EXCEPT ![t] = Idle]
      /\ events' = events \ {res[r].event}
      /\ pins' = pins \ {res[r].buffer}
      /\ UNCHANGED <<op, signaled, winHandle>>

-----------------------------------------------------------------------------
(* The destructor or the finalizer: the current pin is freed if there is   *)
(* one, and the OVERLAPPED block is freed, whether or not the I/O is over. *)
Finalize(r) ==
  /\ res[r].life = "dropped"
  /\ pins' = pins \ {res[r].buffer}
  /\ res' = [res EXCEPT ![r] = [@ EXCEPT !.life = "gone", !.buffer = None,
                                         !.status = "freed"]]
  /\ UNCHANGED <<getters, op, events, signaled, winHandle>>

(* The finalizer of an event's DivertHandle: it runs once the wrapper is   *)
(* unreachable, replaced by a later Reset or let go with its result.  A    *)
(* thread in Get has the handle's value and does not keep the wrapper.     *)
FinalizeEvent(o) ==
  /\ o \in events
  /\ \A r \in Results : res[r].event = o => res[r].life # "held"
  /\ events' = events \ {o}
  /\ UNCHANGED <<res, getters, op, pins, signaled, winHandle>>
=============================================================================
