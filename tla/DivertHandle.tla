---------------------------- MODULE DivertHandle ----------------------------
(***************************************************************************)
(* The life of a WinDivert handle: Diversion.Open obtains it and wraps it  *)
(* in a DivertHandle, the calls of Diversion use its value, and Close, the *)
(* destructors and the finalizers of both classes close it.  None of them  *)
(* takes a lock.  Windows names an open object by a value and gives the    *)
(* value of a closed object to the next one that is opened, so a value     *)
(* kept too long names something else.                                     *)
(*                                                                         *)
(* Diversion d and the DivertHandle that Open makes for it carry the same  *)
(* name.  Habits says what the application does beyond one thread closing  *)
(* an object it still refers to: "together", several threads close the     *)
(* same object at once; "letgo", a call on the object is the last thing    *)
(* the application does with it, so that the collector may take the object *)
(* while the call is still running.                                        *)
(***************************************************************************)
EXTENDS FiniteSets

CONSTANTS
  Diversions,  \* Diversion objects, each made by one call of Open
  Threads,     \* threads of the application
  Finalizer,   \* the thread that runs finalizers
  Values,      \* the values Windows gives to handles
  Habits       \* what the application does, see above

Invalid == "invalid"  \* INVALID_HANDLE_VALUE
Free    == "free"     \* a value that names nothing
Other   == "other"    \* a value that names somebody else's object
None    == "none"

ASSUME HandleAssumption ==
  /\ Invalid \notin Values
  /\ Diversions \cap {Invalid, Free, Other, None} = {}
  /\ Finalizer \notin Threads
  /\ Habits \subseteq {"together", "letgo"}

VARIABLES
  kernel,       \* what each value names
  handle,       \* m_handle of each DivertHandle
  life,         \* each Diversion as the application and the collector see it
  finalizable,  \* the finalizers that are registered and have not run
  strings,      \* Diversions whose marshalled filter string is not freed
  thread,       \* the call each thread is in
  shut,         \* history: Close returned TRUE or Dispose returned
  crowded,      \* history: two closes of the object overlapped
  botched       \* history: the native close of the open object failed in a
                \* destructor or a finalizer

vars == <<kernel, handle, life, finalizable, strings, thread, shut, crowded, botched>>

AllThreads == Threads \cup {Finalizer}
Classes == {"Diversion", "DivertHandle"}

(***************************************************************************)
(* at is the next step of the call: "wrap" belongs to Open, "use" to the   *)
(* calls that hand the handle to the driver, the others to Close in the    *)
(* order of its statements.  value is the handle the thread has read.      *)
(***************************************************************************)
CloseSteps == {"enter", "check", "load", "close", "clear", "wipe"}

ThreadState ==
  [at    : {"idle", "wrap", "use"} \cup CloseSteps,
   call  : {None, "open", "use", "close", "dispose"} \cup Classes,
   on    : Diversions \cup {None},
   value : Values \cup {Invalid}]

Idle == [at |-> "idle", call |-> None, on |-> None, value |-> Invalid]

TypeOK ==
  /\ kernel \in [Values -> Diversions \cup {Free, Other}]
  /\ handle \in [Diversions -> Values \cup {Invalid}]
  /\ life \in [Diversions -> {"unopened", "refused", "opening", "held", "dropped"}]
  /\ finalizable \subseteq Classes \X Diversions
  /\ strings \subseteq Diversions
  /\ thread \in [AllThreads -> ThreadState]
  /\ shut \subseteq Diversions
  /\ crowded \subseteq Diversions
  /\ botched \subseteq Diversions

Init ==
  /\ kernel \in [Values -> {Free, Other}]
  /\ handle = [d \in Diversions |-> Invalid]
  /\ life = [d \in Diversions |-> "unopened"]
  /\ finalizable = {}
  /\ strings = {}
  /\ thread = [t \in AllThreads |-> Idle]
  /\ shut = {}
  /\ crowded = {}
  /\ botched = {}

Closing(t, d) == thread[t].on = d /\ thread[t].at \in CloseSteps

IsOpen(d) == \E v \in Values : kernel[v] = d

-----------------------------------------------------------------------------
(* Plausible mistakes, for the runs' counter-checks.                       *)
AfterNativeClears(t, success) ==
  [thread[t] EXCEPT !.at = "clear", !.value = Invalid]

AfterNativeForgets(t, success) ==
  IF thread[t].call = "close" THEN Idle
  ELSE [thread[t] EXCEPT !.at = "wipe", !.value = Invalid]

ClearNothing(t) ==
  LET s == thread[t]
  IN  /\ s.at = "clear"
      /\ IF s.call = "close"
         THEN thread' = [thread EXCEPT ![t] = Idle] /\ shut' = shut \cup {s.on}
         ELSE thread' = [thread EXCEPT ![t].at = "wipe"] /\ UNCHANGED shut
      /\ UNCHANGED <<kernel, handle, life, finalizable, strings, crowded, botched>>

CloseNativeSkipped(t) ==
  /\ thread[t].at = "close"
  /\ thread' = [thread EXCEPT ![t].at = "clear", ![t].value = Invalid]
  /\ UNCHANGED <<kernel, handle, life, finalizable, strings, shut, crowded, botched>>

WipeToNull(t) ==  \* null is not INVALID_HANDLE_VALUE
  LET s == thread[t]
  IN  /\ s.at = "wipe"
      /\ handle' = [handle EXCEPT ![s.on] = None]
      /\ shut' = shut \cup {s.on}
      /\ thread' = [thread EXCEPT ![t] = Idle]
      /\ UNCHANGED <<kernel, life, finalizable, strings, crowded, botched>>

-----------------------------------------------------------------------------
(* Diversion.Open.  An empty filter, or one that cannot be marshalled, is  *)
(* refused before anything is held and leaves the state as it is.  When    *)
(* WinDivertOpen fails Open throws before the string is freed.             *)
OpenRefused(t, d) ==
  /\ thread[t].at = "idle"
  /\ life[d] = "unopened"
  /\ life' = [life EXCEPT ![d] = "refused"]
  /\ strings' = strings \cup {d}
  /\ UNCHANGED <<kernel, handle, finalizable, thread, shut, crowded, botched>>

OpenNative(t, d) ==
  /\ thread[t].at = "idle"
  /\ life[d] = "unopened"
  /\ life' = [life EXCEPT ![d] = "opening"]
  /\ strings' = strings \cup {d}
  /\ \E v \in Values :
       /\ kernel[v] = Free
       /\ kernel' = [kernel EXCEPT ![v] = d]
       /\ thread' = [thread EXCEPT ![t] =
                       [at |-> "wrap", call |-> "open", on |-> d, value |-> v]]
  /\ UNCHANGED <<handle, finalizable, shut, crowded, botched>>

(* The handle goes into a DivertHandle and that into the Diversion; then   *)
(* the string is freed.  Nobody else has a reference to either yet.        *)
OpenWrap(t) ==
  LET d == thread[t].on
  IN  /\ thread[t].at = "wrap"
      /\ handle' = [handle EXCEPT ![d] = thread[t].value]
      /\ finalizable' = finalizable \cup (Classes \X {d})
      /\ strings' = strings \ {d}
      /\ life' = [life EXCEPT ![d] = "held"]
      /\ thread' = [thread EXCEPT ![t] = Idle]
      /\ UNCHANGED <<kernel, shut, crowded, botched>>

-----------------------------------------------------------------------------
(* Receive, Send, SetParam and GetParam read the handle, and then make the *)
(* native call with the value they read.  SetParam and GetParam look       *)
(* whether it is invalid first and read it once more, which leaves the     *)
(* same two steps; with an invalid handle the native call fails.           *)
Use(t, d) ==
  /\ thread[t].at = "idle"
  /\ life[d] = "held"
  /\ thread' = [thread EXCEPT ![t] =
                  [at |-> "use", call |-> "use", on |-> d, value |-> handle[d]]]
  /\ UNCHANGED <<kernel, handle, life, finalizable, strings, shut, crowded, botched>>

UseNative(t) ==
  /\ thread[t].at = "use"
  /\ thread' = [thread EXCEPT ![t] = Idle]
  /\ UNCHANGED <<kernel, handle, life, finalizable, strings, shut, crowded, botched>>

-----------------------------------------------------------------------------
(* A close begins: Diversion.Close looks at Valid before DivertHandle's    *)
(* Close does so again; the destructors call that directly.                *)
Begin(t, d, call) ==
  /\ thread[t].at = "idle"
  /\ thread' = [thread EXCEPT ![t] =
                  [at    |-> IF call = "close" THEN "enter" ELSE "check",
                   call  |-> call, on |-> d, value |-> Invalid]]
  /\ crowded' = IF \E u \in AllThreads : Closing(u, d)
                THEN crowded \cup {d} ELSE crowded
  /\ UNCHANGED <<kernel, handle, life, strings, shut, botched>>

BeginClose(t, d) ==
  /\ life[d] = "held"
  /\ "together" \in Habits \/ \A u \in Threads : ~Closing(u, d)
  /\ \E call \in {"close", "dispose"} : Begin(t, d, call)
  /\ UNCHANGED finalizable

(* The collector has found the object unreachable and its finalizer runs.  *)
(* A thread in Diversion.Close has no more use for the Diversion once it   *)
(* has called DivertHandle's Close; that one needs its object to the end.  *)
(* SuppressFinalize at the end of a destructor needs both objects.  A call *)
(* that has read the value needs neither.                                  *)
NeedsDiversion(t, d) ==
  thread[t].on = d /\ (thread[t].at = "enter" \/ thread[t].call = "dispose")

NeedsHandle(t, d) == Closing(t, d)

CanFinalize(c, d) ==
  /\ <<c, d>> \in finalizable
  /\ life[d] = "dropped"
  /\ \A t \in Threads : ~NeedsDiversion(t, d)
  /\ c = "DivertHandle" => \A t \in Threads : ~NeedsHandle(t, d)

(* A plausible mistake: the class has no finalizer.                        *)
FinalizeNothing(c, d) == CanFinalize(c, d) /\ UNCHANGED vars

Finalize(c, d) ==
  /\ CanFinalize(c, d)
  /\ Begin(Finalizer, d, c)
  /\ finalizable' = finalizable \ {<<c, d>>}

-----------------------------------------------------------------------------
(* The steps of a close.  Both looks at Valid return FALSE at once when    *)
(* the handle is invalid; a destructor then still wipes m_handle.          *)
Look(t, from, to) ==
  LET s == thread[t]
  IN  /\ s.at = from
      /\ thread' = [thread EXCEPT ![t] =
                      IF handle[s.on] # Invalid THEN [s EXCEPT !.at = to]
                      ELSE IF s.call = "close" THEN Idle
                      ELSE [s EXCEPT !.at = "wipe"]]
      /\ UNCHANGED <<kernel, handle, life, finalizable, strings, shut, crowded, botched>>

Enter(t) == Look(t, "enter", "check")
Check(t) == Look(t, "check", "load")

(* The argument of WinDivertClose is read after Valid was.                 *)
Load(t) ==
  /\ thread[t].at = "load"
  /\ thread' = [thread EXCEPT ![t].at = "close",
                              ![t].value = handle[thread[t].on]]
  /\ UNCHANGED <<kernel, handle, life, finalizable, strings, shut, crowded, botched>>

(* What follows the native call: success clears m_handle, failure returns. *)
AfterNative(t, success) ==
  IF success THEN [thread[t] EXCEPT !.at = "clear", !.value = Invalid]
  ELSE IF thread[t].call = "close" THEN Idle
  ELSE [thread[t] EXCEPT !.at = "wipe", !.value = Invalid]

(* WinDivertClose closes whatever the value names.  It fails if that is    *)
(* nothing, and it may fail otherwise and leave it open; what it answers   *)
(* for the invalid value is Windows' choice.                               *)
CloseNative(t) ==
  LET s == thread[t]
      names == IF s.value = Invalid THEN Invalid ELSE kernel[s.value]
  IN  /\ s.at = "close"
      /\ \E success \in BOOLEAN :
           /\ success => names # Free
           /\ kernel' = IF success /\ s.value # Invalid
                          THEN [kernel EXCEPT ![s.value] = Free] ELSE kernel
           /\ thread' = [thread EXCEPT ![t] = AfterNative(t, success)]
           /\ botched' = IF ~success /\ names = s.on /\ s.call # "close"
                           THEN botched \cup {s.on} ELSE botched
      /\ UNCHANGED <<handle, life, finalizable, strings, shut, crowded>>

Clear(t) ==
  LET s == thread[t]
  IN  /\ s.at = "clear"
      /\ handle' = [handle EXCEPT ![s.on] = Invalid]
      /\ IF s.call = "close"
         THEN thread' = [thread EXCEPT ![t] = Idle] /\ shut' = shut \cup {s.on}
         ELSE thread' = [thread EXCEPT ![t].at = "wipe"] /\ UNCHANGED shut
      /\ UNCHANGED <<kernel, life, finalizable, strings, crowded, botched>>

(* DivertHandle's finalizer ends by marking the handle invalid, whatever   *)
(* Close returned: a handle it could not close is lost.  Destructors then  *)
(* suppress the finalizers, the one of Diversion that of both objects, its *)
(* finalizer that of the handle.                                           *)
Suppressed(s) ==
  CASE s.call = "dispose"      -> Classes \X {s.on}
    [] s.call = "Diversion"    -> {<<"DivertHandle", s.on>>}
    [] s.call = "DivertHandle" -> {}

Wipe(t) ==
  LET s == thread[t]
  IN  /\ s.at = "wipe"
      /\ handle' = [handle EXCEPT ![s.on] = Invalid]
      /\ finalizable' = finalizable \ Suppressed(s)
      /\ shut' = shut \cup {s.on}
      /\ thread' = [thread EXCEPT ![t] = Idle]
      /\ UNCHANGED <<kernel, life, strings, crowded, botched>>

CloseStep(t) ==
  Enter(t) \/ Check(t) \/ Load(t) \/ CloseNative(t) \/ Clear(t) \/ Wipe(t)

-----------------------------------------------------------------------------
(* The application gives up its last reference, and the rest of the        *)
(* process opens and closes handles of its own.                            *)
Drop(d) ==
  /\ life[d] = "held"
  /\ "letgo" \in Habits \/ \A t \in Threads : thread[t].on # d
  /\ life' = [life EXCEPT ![d] = "dropped"]
  /\ UNCHANGED <<kernel, handle, finalizable, strings, thread, shut, crowded, botched>>

Elsewhere(v) ==
  /\ kernel[v] \in {Free, Other}
  /\ kernel' = [kernel EXCEPT ![v] = IF @ = Free THEN Other ELSE Free]
  /\ UNCHANGED <<handle, life, finalizable, strings, thread, shut, crowded, botched>>

Next ==
  \/ \E t \in Threads, d \in Diversions :
       OpenRefused(t, d) \/ OpenNative(t, d) \/ Use(t, d) \/ BeginClose(t, d)
  \/ \E t \in Threads : OpenWrap(t) \/ UseNative(t)
  \/ \E t \in AllThreads : CloseStep(t)
  \/ \E c \in Classes, d \in Diversions : Finalize(c, d)
  \/ \E d \in Diversions : Drop(d)
  \/ \E v \in Values : Elsewhere(v)

Spec == Init /\ [][Next]_vars

(* Threads inside a close are scheduled, and the collector gets round to   *)
(* what is unreachable.                                                    *)
Fairness ==
  /\ \A t \in AllThreads : WF_vars(CloseStep(t))
  /\ \A c \in Classes, d \in Diversions : WF_vars(Finalize(c, d))

FairSpec == Spec /\ Fairness

-----------------------------------------------------------------------------
(* A native close by a thread in DivertHandle.Close, of whatever object    *)
(* its value names by then.                                                *)
ClosesForeign(t) ==
  /\ thread[t].at = "close" /\ thread[t].value # Invalid
  /\ kernel[thread[t].value] \notin {Free, thread[t].on}

(* Close, the destructors and the finalizers never close a handle that     *)
(* belongs to somebody else, neither to the process nor to another         *)
(* Diversion, in whatever order and how often they are called, as long as  *)
(* no two closes of one object ever overlapped: Close leaves no value      *)
(* behind that a later one could close again.                              *)
ClosesOwn == (\E t \in AllThreads : ClosesForeign(t)) => crowded # {}

(* A call on a Diversion reaches somebody else's object only if the handle *)
(* was closed while the call was between reading it and using it: m_handle *)
(* never names anything else once a close has finished.                    *)
ReachesOwn ==
  \A t \in Threads :
    LET s == thread[t]
    IN  (/\ s.at = "use" /\ s.value # Invalid
         /\ kernel[s.value] \notin {Free, s.on})
          => \/ handle[s.on] # s.value
             \/ \E u \in AllThreads :
                  thread[u].on = s.on /\ thread[u].at = "clear"
             \/ crowded # {}

(* No handle is lost: as long as the driver's object is open its value is  *)
(* in m_handle, where Close and the finalizers look for it, once Open has  *)
(* put it there, even with closes overlapping and with a native close that *)
(* fails in Close; only a destructor or finalizer whose native close fails *)
(* gives up an open handle.  Of the marshalled filter string only a        *)
(* refused Open leaves anything behind.                                    *)
NothingLost ==
  /\ \A v \in Values, d \in Diversions : kernel[v] = d =>
       \/ handle[d] = v
       \/ \E t \in Threads : /\ thread[t].at = "wrap"
                             /\ thread[t].on = d /\ thread[t].value = v
       \/ d \in botched
  /\ \A d \in strings : life[d] \in {"opening", "refused"}

(* "Once you call Close, this object will no longer be able to receive or  *)
(* send any packets" (Diversion.hpp): when Close has returned TRUE, or a   *)
(* destructor has returned, no call that begins later has a value to reach *)
(* anything with; and the driver's object is closed, unless it was in a    *)
(* destructor or finalizer that the native close failed.                   *)
ShutForGood ==
  \A d \in shut : handle[d] = Invalid /\ (d \in botched \/ ~IsOpen(d))

(* A Diversion that is let go without Close or Dispose, or with either     *)
(* still running, has its handle closed in the end, whichever of the two   *)
(* finalizers the collector runs first, also when native closes failed in  *)
(* Close before; a destructor or finalizer has one try only.               *)
DroppedCloses ==
  \A d \in Diversions :
    life[d] = "dropped" ~> (~IsOpen(d) \/ d \in botched)

(* What the driver's object of a Diversion has come to.                    *)
Opened(d) == life[d] \notin {"unopened", "refused"}

Phase(d) ==
  CASE life[d] = "unopened"      -> "new"
    [] life[d] = "refused"       -> "refused"
    [] Opened(d) /\ IsOpen(d)    -> "open"
    [] Opened(d) /\ ~IsOpen(d)   -> "closed"

Aimed(d) ==
  {v \in Values : \E t \in AllThreads :
     thread[t].at = "close" /\ thread[t].on = d /\ thread[t].value = v}

Promise ==
  INSTANCE OwnedHandle WITH
    Objects <- Diversions, names <- kernel,
    phase <- [d \in Diversions |-> Phase(d)],
    aimed <- [d \in Diversions |-> Aimed(d)],
    reported <- shut, overlapped <- crowded, forsaken <- botched

(* Whatever Open, the calls of other threads, Close, Dispose, both         *)
(* finalizers and the rest of the process do in between, handles keep the  *)
(* promise of OwnedHandle: an object is opened once and closed once, by    *)
(* its own closers, whose value names it from the moment they read it      *)
(* until they close it, as long as no two closes of one object overlapped; *)
(* and Close answers TRUE and Dispose returns only when it is closed or a  *)
(* destructor's native close of it has failed, even if they did.           *)
KeepsOwn == Promise!Spec

(* "If the handle is invalid, this function will always return false"      *)
(* (DivertHandle.hpp, of Close): a Close whose handle another close has    *)
(* closed by the time it gets to the native call does not return TRUE for  *)
(* closing the object that has the value now.                              *)
ClosedReturnsFalse ==
  [][\A t \in Threads :
       (thread[t].call = "close" /\ ClosesForeign(t))
         => thread'[t].at # "clear"]_vars
=============================================================================
