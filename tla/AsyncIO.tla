------------------------------ MODULE AsyncIO ------------------------------
(***************************************************************************)
(* Diversion.ReceiveAsync and Diversion.SendAsync with a DivertAsyncResult *)
(* supplied, composed with the class DivertAsyncResult, the kernel that    *)
(* completes or aborts overlapped I/O, Diversion.Close on another thread,  *)
(* and the garbage collector.  The two calls have the same control flow    *)
(* and are one action here.                                                *)
(*                                                                         *)
(* The application is bound by nothing: it uses a result again, or lets    *)
(* go of it or of the Address, whenever it likes, and several threads may  *)
(* use one result at a time.  What it did is remembered in crowded,        *)
(* forsaken and misled, which steer nothing; the properties say with them  *)
(* of which calls and results they speak.                                  *)
(***************************************************************************)
EXTENDS DivertAsyncResult, FiniteSets

CONSTANT Uses   \* the results on which each thread calls Get

ASSUME UsesAssumption == Uses \in [Threads -> SUBSET Results]

ASSUME NamesAssumption ==
  /\ None \notin Results
  /\ None \notin Diversions

VARIABLES
  issued,    \* the number of asynchronous calls made
  addrs,     \* the pending calls whose WINDIVERT_ADDRESS is not freed
  crowded,   \* results used by a thread while another was in their Get
  forsaken,  \* calls the application gave up unasked, or that threw
  misled     \* calls it gave up while pending because Get had said FALSE

history == <<crowded, forsaken, misled>>

vars == <<res, getters, op, pins, events, signaled, winHandle, issued, addrs,
          history>>

TypeOK ==
  /\ res \in [Results -> ResultState]
  /\ getters \in [Threads -> GetterState]
  /\ op \in [Op -> OpState]
  /\ pins \subseteq Op
  /\ events \subseteq Op
  /\ signaled \subseteq Op
  /\ winHandle \subseteq Diversions
  /\ issued \in 0 .. MaxOps
  /\ addrs \subseteq Op
  /\ crowded \subseteq Results
  /\ forsaken \subseteq Op
  /\ misled \subseteq Op

Init ==
  /\ ResultsInit
  /\ issued = 0
  /\ addrs = {}
  /\ crowded = {}
  /\ forsaken = {}
  /\ misled = {}

-----------------------------------------------------------------------------
(* The history.  A pending call of a result that is let go or used again   *)
(* before Get answered is forsaken; a client that was told FALSE first,    *)
(* and lets go of what "failed completely", is misled.                     *)
PendingOf(r) == {o \in Op : op[o].owner = r /\ op[o].irp = "pending"}

GivesUp(r, calls, thrown) ==
  LET lost == calls \ (forsaken \cup misled)
  IN  IF res[r].ret = "false"
        THEN /\ misled' = misled \cup lost
             /\ forsaken' = forsaken \cup thrown
        ELSE /\ forsaken' = forsaken \cup lost \cup thrown
             /\ UNCHANGED misled

Crowds(r) == crowded' = IF Busy(r) THEN crowded \cup {r} ELSE crowded

(* The calls on r overlapped, or the kernel may still write for a call     *)
(* that r no longer speaks of.                                             *)
Spoiled(r) ==
  r \in crowded \/ \E o \in forsaken \cup misled : op[o].owner = r

-----------------------------------------------------------------------------
(* A plausible mistake in the calls, for the run's counter-check.          *)
ConfiguredKeepsBuffer(r, o) == AfterReset(res[r], o)

-----------------------------------------------------------------------------
(* What every call does first: the number is taken, the buffer is pinned.  *)
BeginCall(r, o) ==
  /\ issued < MaxOps
  /\ o = issued + 1
  /\ issued' = o
  /\ res[r].life = "held"
  /\ pins' = pins \cup {o}
  /\ Crowds(r)

(* Reset failed: the call throws, and the pin it took is in no object.     *)
StartThrows(r, d, o) ==
  /\ BeginCall(r, o)
  /\ GivesUp(r, PendingOf(r), {o})
  /\ res' = [res EXCEPT ![r] = AfterFailedReset(@)]
  /\ op' = [op EXCEPT ![o] = [owner |-> r, via |-> d, irp |-> "none"]]
  /\ UNCHANGED <<getters, events, signaled, winHandle, addrs>>

(* Reset succeeded: the result owns the new event and the new pin.         *)
Configure(r, o) ==
  /\ BeginCall(r, o)
  /\ GivesUp(r, PendingOf(r), {})
  /\ events' = events \cup {o}
  /\ UNCHANGED getters

Configured(r, o) == [AfterReset(res[r], o) EXCEPT !.buffer = o]

(* The native call returned FALSE with ERROR_IO_PENDING.                   *)
StartPending(r, d, o) ==
  /\ Configure(r, o)
  /\ d \in winHandle
  /\ op' = [op EXCEPT ![o] = [owner |-> r, via |-> d, irp |-> "pending"]]
  /\ res' = [res EXCEPT ![r] = [Configured(r, o) EXCEPT !.status = "pending"]]
  /\ addrs' = addrs \cup {o}
  /\ UNCHANGED <<signaled, winHandle>>

(* The native call returned TRUE: the transfer is done and the length is   *)
(* in the result; the event is signalled and the buffer stays pinned.      *)
StartDone(r, d, o) ==
  /\ Configure(r, o)
  /\ d \in winHandle
  /\ op' = [op EXCEPT ![o] = [owner |-> r, via |-> d, irp |-> "ok"]]
  /\ res' = [res EXCEPT ![r] =
               [Configured(r, o) EXCEPT !.length = o, !.ioLength = o]]
  /\ signaled' = signaled \cup {o}
  /\ UNCHANGED <<winHandle, addrs>>

(* The native call failed; it always does on a closed handle.  The block   *)
(* was marked pending before the driver was reached and nothing will       *)
(* complete it.                                                            *)
StartFailed(r, d, o) ==
  /\ Configure(r, o)
  /\ op' = [op EXCEPT ![o] = [owner |-> r, via |-> d, irp |-> "none"]]
  /\ res' = [res EXCEPT ![r] =
               [Configured(r, o) EXCEPT !.status = "pending",
                                        !.noError = FALSE]]
  /\ UNCHANGED <<signaled, winHandle, addrs>>

-----------------------------------------------------------------------------
(* The application calls Get on a result, or lets it or an Address go.  A  *)
(* result is reachable while a thread is inside its Get, and one that no   *)
(* call was made with holds nothing; an Address is not kept by the call    *)
(* that was given it.                                                      *)
Get(t, r) ==
  /\ r \in Uses[t]
  /\ GetRefused(t, r) \/ GetWait(t, r)
  /\ Crowds(r)
  /\ UNCHANGED <<issued, addrs, forsaken, misled>>

GetStep(t) ==
  /\ GetWake(t) \/ GetReturn(t) \/ GetFinish(t)
  /\ UNCHANGED <<issued, addrs, history>>

GetGivesUp(t) ==
  /\ GetTimeout(t) \/ GetFails(t)
  /\ UNCHANGED <<issued, addrs, history>>

Drop(r) ==
  /\ res[r].life = "held" /\ res[r].event # None /\ ~Busy(r)
  /\ res' = [res EXCEPT ![r].life = "dropped"]
  /\ GivesUp(r, PendingOf(r), {})
  /\ UNCHANGED <<getters, op, pins, events, signaled, winHandle, issued,
                 addrs, crowded>>

FinalizeAddress(o) ==
  /\ o \in addrs
  /\ addrs' = addrs \ {o}
  /\ GivesUp(op[o].owner, {o}, {})
  /\ UNCHANGED <<res, getters, op, pins, events, signaled, winHandle, issued,
                 crowded>>

Collect(r) == Finalize(r) /\ UNCHANGED <<issued, addrs, history>>

CollectEvent(o) == FinalizeEvent(o) /\ UNCHANGED <<issued, addrs, history>>

(* Diversion.Close, its destructor or its finalizer, on any thread.        *)
Close(d) ==
  /\ d \in winHandle
  /\ winHandle' = winHandle \ {d}
  /\ UNCHANGED <<res, getters, op, pins, events, signaled, issued, addrs,
                 history>>

-----------------------------------------------------------------------------
(* The kernel ends a pending I/O: it writes the OVERLAPPED block it was    *)
(* given, configured for another call by now or not, and signals the event *)
(* it holds a reference to.                                                *)
EndIrp(o, outcome) ==
  LET r == op[o].owner
  IN  /\ op[o].irp = "pending"
      /\ op' = [op EXCEPT ![o].irp = outcome]
      /\ res' = IF res[r].status = "freed" THEN res
                ELSE [res EXCEPT ![r] = [@ EXCEPT !.status = outcome,
                                                   !.length = o]]
      /\ signaled' = signaled \cup {o}
      /\ addrs' = addrs \ {o}
      /\ UNCHANGED <<getters, pins, events, winHandle, issued, history>>

(* A packet was captured or injected, or the driver refused it.            *)
Complete(o) ==
  /\ op[o].via \in winHandle
  /\ \E outcome \in {"ok", "error"} : EndIrp(o, outcome)

(* Closing the handle cancels what is pending on it.                       *)
Abort(o) == op[o].via \notin winHandle /\ EndIrp(o, "error")

-----------------------------------------------------------------------------
Start(r, d) ==
  \E o \in Op :
    \/ StartThrows(r, d, o)
    \/ StartPending(r, d, o)
    \/ StartDone(r, d, o)
    \/ StartFailed(r, d, o)

Next ==
  \/ \E r \in Results, d \in Diversions : Start(r, d)
  \/ \E t \in Threads :
       GetStep(t) \/ GetGivesUp(t) \/ \E r \in Results : Get(t, r)
  \/ \E r \in Results : Drop(r) \/ Collect(r)
  \/ \E o \in Op :
       Complete(o) \/ Abort(o) \/ FinalizeAddress(o) \/ CollectEvent(o)
  \/ \E d \in Diversions : Close(d)

Spec == Init /\ [][Next]_vars

(* The scheduler runs a thread that is ready, the kernel finishes a        *)
(* cancellation, the finalizer thread runs.  Neither traffic nor the       *)
(* application owes anything; a wait need not time out, and one on a       *)
(* closed handle need not fail.                                            *)
Fairness ==
  /\ \A t \in Threads : WF_vars(GetStep(t))
  /\ \A r \in Results : WF_vars(Collect(r))
  /\ \A o \in Op : WF_vars(Abort(o)) /\ WF_vars(CollectEvent(o))

FairSpec == Spec /\ Fairness

-----------------------------------------------------------------------------
(* While the kernel may still write to a packet buffer, its OVERLAPPED     *)
(* block or its address block, the buffer is pinned and neither block has  *)
(* been freed.                                                             *)
MemoryOf(o) ==
  /\ o \in pins
  /\ o \in addrs
  /\ res[op[o].owner].status # "freed"

(* Nothing Get, the finalizers, Close or another call does takes the       *)
(* memory of a pending call away, but for the application letting go of    *)
(* that very call: not a time-out, not a call on another result, not the   *)
(* closing of the Diversion.                                               *)
KernelMemoryHeld ==
  \A o \in Op :
    /\ op[o].irp = "pending"
    /\ o \notin forsaken \cup misled
    /\ op[o].owner \notin crowded
    => MemoryOf(o)

(* When Get has answered TRUE, the call the result is configured for has   *)
(* succeeded and Length is the length of that call, not of an earlier one  *)
(* made with the same DivertAsyncResult, if none of those was given up     *)
(* while it was pending.                                                   *)
AnswerIsOwn ==
  \A r \in Results : res[r].ret = "true" /\ ~Spoiled(r) =>
    /\ op[res[r].event].irp = "ok"
    /\ res[r].ioLength = res[r].event

(* The GCHandle in m_buffer is allocated and was made for this result:     *)
(* Get and the finalizer never free a pin twice, and never one that        *)
(* another result relies on, also when calls are given up, used again, or  *)
(* throw.                                                                  *)
PinOwned ==
  \A r \in Results \ crowded : res[r].buffer # None =>
    /\ res[r].buffer \in pins
    /\ op[res[r].buffer].owner = r

(* The buffer of the call a result is configured for never stays pinned    *)
(* out of reach: as long as its pin exists it is the one in m_buffer,      *)
(* where Get or the finalizer will find it, however calls, failed Resets   *)
(* and earlier calls still pending have followed each other.               *)
CurrentPinReachable ==
  \A r \in Results \ crowded :
    res[r].event \in pins => res[r].buffer = res[r].event

(* A thread in Get leaves it once the Diversion is closed, whatever        *)
(* time-out it waits with, if its call was ever handed to the driver: the  *)
(* cancelled I/O signals the event, and nobody else consumes or closes it, *)
(* unless another thread used the result meanwhile.                        *)
CloseWakesGet ==
  \A t \in Threads :
    (/\ getters[t].at # "idle"
     /\ LET call == op[getters[t].event]
        IN  call.irp # "none" /\ call.via \notin winHandle)
      ~> (getters[t].at = "idle" \/ getters[t].on \in crowded)

(* A result that is let go gives back its current pin and every event that *)
(* was created for it.                                                     *)
DroppedReclaimed ==
  \A r \in Results :
    res[r].life = "dropped" ~>
      \A o \in Op : op[o].owner = r =>
        o \notin events /\ (res[r].event = o => o \notin pins)

-----------------------------------------------------------------------------
(* What the clients see is AsyncCall: the phase of a call is read off the  *)
(* kernel's state until Get or the collector closes the event, which ends  *)
(* the life of the call; Get's answer is settled with m_noError.           *)
CallPhase(r) ==
  LET o == res[r].event
  IN  IF o = None THEN "unused"
      ELSE IF o \notin events THEN "spent"
      ELSE CASE op[o].irp = "none"    -> "refused"
             [] op[o].irp = "pending" -> "running"
             [] op[o].irp = "ok"      -> "ok"
             [] op[o].irp = "error"   -> "error"

Answer(r) ==
  IF ~res[r].noError /\ \E t \in Threads : getters[t].on = r
                                          /\ getters[t].at = "judged"
    THEN "false" ELSE res[r].ret

Barred(r) == res[r].event # None /\ op[res[r].event].via \notin winHandle

Promise(r) == INSTANCE AsyncCall WITH
  Calls   <- Op,
  call    <- res[r].event,
  phase   <- CallPhase(r),
  answer  <- Answer(r),
  length  <- res[r].ioLength,
  barred  <- Barred(r),
  spoiled <- Spoiled(r)

(* Of each result every behaviour of AsyncIO is one of AsyncCall: an end   *)
(* is answered once, only after it happened, with its own length, Get      *)
(* gives up nothing that is over unless the Diversion is closed, and what  *)
(* others do with other results does not show.  (This is Promise(r)!Spec   *)
(* for every r, in the form in which TLC checks it.)                       *)
KeepsPromise ==
  /\ \A r \in Results : Promise(r)!Init
  /\ [][\A r \in Results : [Promise(r)!Next]_(Promise(r)!vars)]_vars

-----------------------------------------------------------------------------
(* What comments of the code say and the code does not keep.               *)

(* "Once the user is done with the async result, it will release the       *)
(* handle, unpinning the address" (ReceiveAsync and SendAsync), said of    *)
(* calls that did not throw.                                               *)
DoneUnpinsAll ==
  \A o \in pins \ forsaken : res[op[o].owner].life # "gone"

=============================================================================
