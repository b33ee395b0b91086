-------------------------- MODULE AsyncRefinement --------------------------
(***************************************************************************)
(* AsyncIO implements AsyncCall for each of its results, whatever the      *)
(* client does: one lemma per action of AsyncIO names the action of        *)
(* AsyncCall it is, and PromiseKept puts them together.                    *)
(***************************************************************************)
EXTENDS AsyncIOProofs

USE MaxOpsAssumption, NamesAssumption, UsesAssumption DEF None

(* What the abstract variables of r are before and after a step that does  *)
(* not show there.                                                         *)
Unseen(r) ==
  /\ res'[r].event = res[r].event /\ res'[r].ioLength = res[r].ioLength
  /\ CallPhase(r)' = CallPhase(r) /\ Answer(r)' = Answer(r)
  /\ Barred(r)' = Barred(r) /\ Spoiled(r)' = Spoiled(r)

LEMMA UnseenStutters ==
  ASSUME NEW r \in Results, Unseen(r)
  PROVE  UNCHANGED Promise(r)!vars
  BY DEF Unseen, Promise!vars

(* The abstract variables keep their types, so a spoiled result may do     *)
(* anything.                                                               *)
LEMMA Fields ==
  ASSUME TypeOK, NEW r \in Results
  PROVE  /\ res[r].event \in Op \cup {None}
         /\ res[r].ioLength \in Op \cup {None}
         /\ res[r].ret \in {"none", "true", "false"}
         /\ res[r].noError \in BOOLEAN
         /\ \A o \in Op : op[o].irp \in {"none", "pending", "ok", "error"}
<1>1. res[r] \in ResultState /\ \A o \in Op : op[o] \in OpState
  BY DEF TypeOK
<1> QED BY <1>1 DEF ResultState, OpState

PhaseRead(r) ==
  /\ res[r].event = None => CallPhase(r) = "unused"
  /\ res[r].event # None /\ res[r].event \notin events
       => CallPhase(r) = "spent"
  /\ res[r].event \in events =>
       LET irp == op[res[r].event].irp
       IN  /\ irp = "none" => CallPhase(r) = "refused"
           /\ irp = "pending" => CallPhase(r) = "running"
           /\ irp = "ok" => CallPhase(r) = "ok"
           /\ irp = "error" => CallPhase(r) = "error"

LEMMA PhasesRead == TypeOK => \A r \in Results : PhaseRead(r)
<1> SUFFICES ASSUME TypeOK, NEW r \in Results PROVE PhaseRead(r)
  OBVIOUS
<1>1. None \notin events
  BY DEF TypeOK, Op
<1> QED BY <1>1 DEF PhaseRead, CallPhase

LEMMA PhasesReadNext == TypeOK' => (\A r \in Results : PhaseRead(r))'
  BY PhasesRead, PTL

Shown(r) ==
  /\ res[r].event \in Op \cup {None} /\ res[r].ioLength \in Op \cup {None}
  /\ CallPhase(r) \in {"unused", "refused", "running", "ok", "error", "spent"}
  /\ Answer(r) \in {"none", "true", "false"}
  /\ Barred(r) \in BOOLEAN

LEMMA TypesShown == TypeOK => \A r \in Results : Shown(r)
<1> SUFFICES ASSUME TypeOK, NEW r \in Results PROVE Shown(r)
  OBVIOUS
<1>1. CallPhase(r) \in {"unused", "refused", "running", "ok", "error",
                        "spent"}
  <2>1. res[r].event \in events => res[r].event \in Op
    BY DEF TypeOK
  <2> QED BY <2>1, PhasesRead, Fields DEF PhaseRead
<1>2. Answer(r) \in {"none", "true", "false"} /\ Barred(r) \in BOOLEAN
  BY Fields DEF Answer, Barred
<1> QED BY <1>1, <1>2, Fields DEF Shown

LEMMA TypesShownNext == TypeOK' => (\A r \in Results : Shown(r))'
  BY TypesShown, PTL

LEMMA StrayMaps ==
  ASSUME TypeOK', NEW r \in Results, Spoiled(r)'
  PROVE  Promise(r)!Next
<1>1. Shown(r)'
  BY TypesShownNext
<1>2. Promise(r)!Stray
  BY <1>1 DEF Shown, Promise!Stray, Promise!NoCall
<1> QED BY <1>2 DEF Promise!Next

-----------------------------------------------------------------------------
(* One lemma per action, about a result that is not spoiled.               *)

(* The abstract variables of r depend on nothing else than this.           *)
LEMMA Elsewhere ==
  ASSUME TypeOK, TypeOK', NEW r \in Results, Spoiled(r)' = Spoiled(r),
         res'[r].event = res[r].event, res'[r].ioLength = res[r].ioLength,
         res'[r].ret = res[r].ret, res'[r].noError = res[r].noError,
         \A t \in Threads : getters'[t].on = r \/ getters[t].on = r
                              => getters'[t] = getters[t],
         res[r].event # None =>
           /\ op'[res[r].event].irp = op[res[r].event].irp
           /\ op'[res[r].event].via = op[res[r].event].via
           /\ res[r].event \in events' <=> res[r].event \in events,
         winHandle' = winHandle
  PROVE  UNCHANGED Promise(r)!vars
<1>1. CallPhase(r)' = CallPhase(r)
  <2>1. /\ None \notin events /\ None \notin events'
        /\ events \subseteq Op
    BY DEF TypeOK, Op
  <2>2. PhaseRead(r) /\ PhaseRead(r)'
    BY PhasesRead, PhasesReadNext
  <2> QED BY <2>1, <2>2, Fields DEF PhaseRead
<1>2. Answer(r)' = Answer(r)
  BY DEF Answer
<1>3. Barred(r)' = Barred(r)
  BY DEF Barred
<1> QED BY <1>1, <1>2, <1>3, UnseenStutters DEF Unseen

LEMMA StartMaps ==
  ASSUME IInv, TypeOK', NEW r \in Results, ~Spoiled(r), ~Spoiled(r)',
         NEW q \in Results, NEW o \in Op, Starting(q, o)
  PROVE  [Promise(r)!Next]_(Promise(r)!vars)
<1>1. /\ TypeOK /\ res[r].event \in Op \cup {None}
      /\ res[r].event \in events => res[r].event \in Op
      /\ Spoiled(r)' = Spoiled(r)
      /\ o = issued + 1 /\ issued \in Nat
  BY Fields DEF IInv, TypeOK, Spoiled, Starting
<1>2. res[r].event < o
  <2>1. CASE res[r].event \in Op
    BY <1>1, <2>1 DEF IInv, Unissued, Op
  <2>2. CASE res[r].event = None
    BY <1>1, <2>2
  <2> QED BY <1>1, <2>1, <2>2
<1>3. CASE q # r
  <2>1. /\ res'[r] = res[r] /\ getters' = getters /\ winHandle' = winHandle
        /\ events \subseteq events' /\ events' \subseteq events \cup {o}
        /\ \A p \in Op : p # o => op'[p] = op[p]
    BY <1>3 DEF Starting, Throwing, Configuring
  <2>2. res[r].event # o
    BY <1>1, <1>2
  <2> QED BY <1>1, <2>1, <2>2, Elsewhere
<1>4. CASE q = r
  <2>1. /\ Configuring(r, o) /\ op'[o].owner = r
        /\ PendingOf(r) \subseteq Lost'
    BY <1>4 DEF Starting, Throwing, Spoiled, Lost
  <2>2. /\ res'[r].event = o /\ o \in events'
        /\ res'[r].ret = "none"
        /\ getters' = getters /\ winHandle' = winHandle
    BY <1>4, <2>1 DEF Starting, Configuring
  <2>3. CallPhase(r) # "running"
    <3>1. ASSUME res[r].event \in events, op[res[r].event].irp = "pending"
          PROVE  FALSE
      <4>1. res[r].event \in Op /\ res[r].event # None
        BY <1>1, <3>1 DEF Op
      <4>2. op[res[r].event].owner = r
        BY <4>1 DEF IInv, Owned
      <4>3. res[r].event \in Lost' /\ res[r].event # o
        BY <1>1, <1>2, <2>1, <3>1, <4>1, <4>2 DEF PendingOf
      <4>4. op'[res[r].event].owner = r
        BY <4>1, <4>2, <4>3 DEF Starting
      <4> QED BY <4>3, <4>4 DEF Spoiled, Lost
    <3>2. PhaseRead(r)
      BY <1>1, PhasesRead
    <3> QED BY <1>1, <3>1, <3>2, Fields DEF PhaseRead
  <2>4. Answer(r)' = "none"
    <3>1. \A t \in Threads : getters'[t].on # r
      BY <1>4, <2>2, CrowdsEffect DEF Starting, Spoiled, Busy
    <3> QED BY <2>2, <3>1 DEF Answer
  <2>5. PhaseRead(r)'
    BY PhasesReadNext
  <2>6. \/ /\ CallPhase(r)' = "ok" /\ res'[r].ioLength = o
           /\ op'[o].via \in winHandle
        \/ /\ CallPhase(r)' = "running" /\ res'[r].ioLength = None
           /\ op'[o].via \in winHandle
        \/ CallPhase(r)' = "refused" /\ res'[r].ioLength = None
    BY <2>1, <2>2, <2>5 DEF Configuring, PhaseRead
  <2>7. Barred(r)' => CallPhase(r)' = "refused"
    BY <2>2, <2>6 DEF Barred
  <2>8. Promise(r)!Begin(o)
    BY <1>1, <1>2, <2>2, <2>3, <2>4, <2>6, <2>7
       DEF Promise!Begin, Promise!NoCall
  <2> QED BY <2>8 DEF Promise!Next
<1> QED BY <1>3, <1>4

LEMMA GetMaps ==
  ASSUME IInv, TypeOK', NEW r \in Results, ~Spoiled(r), ~Spoiled(r)',
         NEW t \in Threads, NEW q \in Results, Getting(t, q)
  PROVE  [Promise(r)!Next]_(Promise(r)!vars)
<1>1. /\ TypeOK /\ res[r].event \in Op \cup {None}
      /\ res[r].event \in events => res[r].event \in Op
      /\ Spoiled(r)' = Spoiled(r)
      /\ r \notin crowded /\ r \notin crowded'
      /\ Truth(r)
  BY Fields DEF IInv, TypeOK, Spoiled, Truthful
<1>2. /\ op' = op /\ winHandle' = winHandle
      /\ res'[q].event = res[q].event
      /\ \A p \in Results : p # q => res'[p] = res[p]
      /\ \A u \in Threads : u # t => getters'[u] = getters[u]
      /\ events' \subseteq events /\ events \ {res[q].event} \subseteq events'
  BY GettingShape DEF Getting, GetFrame
<1>3. PhaseRead(r) /\ PhaseRead(r)'
  BY <1>1, PhasesRead, PhasesReadNext
<1>4. CASE q # r
  <2>1. getters[t].on # r /\ getters'[t].on # r
    <3>1. None \notin Results /\ Idle.on = None
      BY DEF Idle
    <3> QED BY <1>4, <3>1 DEF Getting, Refusing, Entering, Settling,
               Returning, Answering
  <2>2. res[r].event # None => res[r].event # res[q].event
    BY <1>4 DEF IInv, Owned
  <2> QED BY <1>1, <1>2, <1>4, <2>1, <2>2, Elsewhere
<1>5. CASE q = r
  <2>1. events' = events => CallPhase(r)' = CallPhase(r)
    BY <1>1, <1>2, <1>3, <1>5, Fields DEF PhaseRead
  <2>2. Barred(r)' = Barred(r)
    BY <1>2, <1>5 DEF Barred
  <2>3. CASE Refusing(t, r)
    <3>1. /\ events' = events /\ Answer(r)' = "false"
          /\ res'[r].ioLength = res[r].ioLength
      BY <2>3 DEF Refusing, Unanswered, Answer
    <3>2. CallPhase(r) \in {"ok", "error"} => Barred(r)
      BY <1>1, <1>3, <2>3 DEF Refusing, EventValid, DivertHandleValid,
         Barred, PhaseRead
    <3>3. Promise(r)!GiveUp
      BY <1>1, <1>2, <1>5, <2>1, <2>2, <3>1, <3>2 DEF Promise!GiveUp
    <3> QED BY <3>3 DEF Promise!Next
  <2>4. CASE Entering(t, r)
    <3>1. \A u \in Threads : getters[u].on # r
      BY <1>1, <2>4, CrowdsEffect DEF Entering, Busy
    <3>2. Answer(r)' = Answer(r)
      BY <1>2, <2>4, <3>1 DEF Entering, Answer
    <3> QED BY <1>1, <1>2, <1>5, <2>1, <2>2, <2>4, <3>2, UnseenStutters
            DEF Entering, Unanswered, Unseen
  <2>5. CASE Settling(t, r)
    <3>1. /\ Alone(t, r)
          /\ \A u \in Threads : getters[u].on = r => getters[u].at # "judged"
      BY <1>1, <2>5 DEF Settling, IInv, Attended, Alone
    <3>2. /\ events' = events /\ res'[r].ioLength = res[r].ioLength
          /\ res'[r].ret = res[r].ret
          /\ getters'[t].on = r /\ getters'[t].at = "judged"
      BY <2>5 DEF Settling, Unanswered
    <3>3. CASE res'[r].noError
      <4>1. Answer(r)' = Answer(r)
        BY <3>1, <3>2, <3>3 DEF Answer
      <4> QED BY <1>1, <1>2, <1>5, <2>1, <2>2, <3>2, <4>1, UnseenStutters
              DEF Unseen
    <3>4. CASE ~res'[r].noError
      <4>1. Answer(r)' = "false"
        BY <3>2, <3>4 DEF Answer
      <4>2. res[r].event \in events /\ res[r].event # None
        BY <1>1, <3>1 DEF Alone, Op
      <4>3. res[r].event \notin signaled
        BY <2>5, <3>1, <3>4, <4>2 DEF Settling, Alone
      <4>4. ~Announced(r)
        BY <3>1, <4>3 DEF Announced
      <4>5. op[res[r].event].irp \notin {"ok", "error"}
        BY <1>1, <4>2, <4>4 DEF Truth
      <4>6. CallPhase(r) \notin {"ok", "error"}
        BY <1>1, <1>3, <4>2, <4>5, Fields DEF PhaseRead
      <4>7. Promise(r)!GiveUp
        BY <1>1, <1>2, <1>5, <2>1, <2>2, <3>2, <4>1, <4>6
           DEF Promise!GiveUp
      <4> QED BY <4>7 DEF Promise!Next
    <3> QED BY <3>3, <3>4
  <2>6. CASE Returning(t, r)
    <3>1. Answer(r) = "false" /\ Answer(r)' = "false"
      BY <2>6 DEF Returning, Answer
    <3> QED BY <1>1, <1>2, <1>5, <2>1, <2>2, <2>6, <3>1, UnseenStutters
            DEF Returning, Unanswered, Unseen
  <2>7. CASE Answering(t, r)
    <3>1. Alone(t, r)
      BY <1>1, <2>7 DEF Answering, IInv, Attended
    <3>2. /\ res[r].event \in events /\ res[r].event # None
          /\ res[r].event \notin events'
      BY <1>1, <2>7, <3>1 DEF Answering, Alone, Op
    <3>3. CallPhase(r)' = "spent"
      BY <1>2, <1>3, <1>5, <3>2 DEF PhaseRead
    <3>4. \A u \in Threads : getters'[u].on # r
      <4>1. None \notin Results /\ Idle.on = None
        BY DEF Idle
      <4> QED BY <1>2, <2>7, <3>1, <4>1 DEF Answering, Alone
    <3>5. Answer(r)' = res'[r].ret
      BY <3>4 DEF Answer
    <3>6. CASE res[r].status = "ok"
      <4>1. /\ CallPhase(r) = "ok" /\ res'[r].ret = "true"
            /\ res'[r].ioLength = res[r].event
        BY <1>1, <1>3, <2>7, <3>2, <3>6 DEF Truth, PhaseRead, Answering
      <4>2. Promise(r)!AnswerTrue
        BY <1>1, <1>2, <1>5, <2>2, <3>3, <3>5, <4>1 DEF Promise!AnswerTrue
      <4> QED BY <4>2 DEF Promise!Next
    <3>7. CASE res[r].status = "error"
      <4>1. /\ CallPhase(r) = "error" /\ res'[r].ret = "false"
            /\ res'[r].ioLength = res[r].ioLength
        BY <1>1, <1>3, <2>7, <3>2, <3>7 DEF Truth, PhaseRead, Answering
      <4>2. Promise(r)!AnswerFalse
        BY <1>1, <1>2, <1>5, <2>2, <3>3, <3>5, <4>1 DEF Promise!AnswerFalse
      <4> QED BY <4>2 DEF Promise!Next
    <3> QED BY <2>7, <3>6, <3>7 DEF Answering
  <2> QED BY <1>5, <2>3, <2>4, <2>5, <2>6, <2>7 DEF Getting
<1> QED BY <1>4, <1>5

(* Letting a result go, reclaiming it or an Address does not show.         *)
LEMMA DropMaps ==
  ASSUME TypeOK, TypeOK', NEW r \in Results, ~Spoiled(r), ~Spoiled(r)',
         NEW q \in Results, Dropping(q) \/ Collecting(q)
  PROVE  [Promise(r)!Next]_(Promise(r)!vars)
<1>1. Spoiled(r)' = Spoiled(r)
  BY DEF Spoiled
<1> QED BY <1>1, Elsewhere DEF Dropping, Collecting

LEMMA AddressMaps ==
  ASSUME TypeOK, TypeOK', NEW r \in Results, ~Spoiled(r), ~Spoiled(r)',
         NEW o \in Op, FinalizeAddress(o)
  PROVE  [Promise(r)!Next]_(Promise(r)!vars)
<1>1. Spoiled(r)' = Spoiled(r)
  BY DEF Spoiled
<1> QED BY <1>1, Elsewhere DEF FinalizeAddress

LEMMA EndMaps ==
  ASSUME IInv, TypeOK', NEW r \in Results, ~Spoiled(r), ~Spoiled(r)',
         NEW o \in Op, NEW q \in Results, Ending(o, q)
  PROVE  [Promise(r)!Next]_(Promise(r)!vars)
<1>1. /\ TypeOK /\ res[r].event \in Op \cup {None}
      /\ Spoiled(r)' = Spoiled(r)
  BY Fields DEF IInv, Spoiled
<1>2. /\ res'[r].event = res[r].event /\ res'[r].ioLength = res[r].ioLength
      /\ res'[r].ret = res[r].ret /\ res'[r].noError = res[r].noError
      /\ getters' = getters /\ winHandle' = winHandle /\ events' = events
      /\ op'[o].irp \in {"ok", "error"} /\ op[o].irp = "pending"
      /\ op'[o].via = op[o].via
      /\ \A p \in Op : p # o => op'[p] = op[p]
  BY DEF Ending
<1>3. CASE res[r].event # o
  BY <1>1, <1>2, <1>3, Elsewhere
<1>4. CASE res[r].event = o
  <2>1. PhaseRead(r) /\ PhaseRead(r)'
    BY <1>1, PhasesRead, PhasesReadNext
  <2>2. Answer(r)' = Answer(r)
    BY <1>2 DEF Answer
  <2>3. Barred(r)' = Barred(r)
    BY <1>2, <1>4 DEF Barred
  <2>4. CASE o \in events
    <3>1. CallPhase(r) = "running" /\ CallPhase(r)' \in {"ok", "error"}
      BY <1>2, <1>4, <2>1, <2>4 DEF PhaseRead
    <3>2. Promise(r)!End
      BY <1>1, <1>2, <2>2, <2>3, <3>1 DEF Promise!End
    <3> QED BY <3>2 DEF Promise!Next
  <2>5. CASE o \notin events
    <3>1. CallPhase(r) = "spent" /\ CallPhase(r)' = "spent"
      BY <1>2, <1>4, <2>1, <2>5 DEF PhaseRead, Op
    <3> QED BY <1>1, <1>2, <2>2, <2>3, <3>1, UnseenStutters DEF Unseen
  <2> QED BY <2>4, <2>5
<1> QED BY <1>3, <1>4

LEMMA EventMaps ==
  ASSUME IInv, TypeOK', NEW r \in Results, ~Spoiled(r), ~Spoiled(r)',
         NEW o \in Op, CollectEvent(o)
  PROVE  [Promise(r)!Next]_(Promise(r)!vars)
<1>1. /\ TypeOK /\ Spoiled(r)' = Spoiled(r)
      /\ res' = res /\ getters' = getters /\ op' = op /\ winHandle' = winHandle
      /\ o \in events /\ events' = events \ {o}
      /\ res[r].event = o => res[r].life # "held"
  BY DEF IInv, Spoiled, CollectEvent, FinalizeEvent
<1>2. CASE res[r].event # o
  BY <1>1, <1>2, Elsewhere
<1>3. CASE res[r].event = o
  <2>1. PhaseRead(r) /\ PhaseRead(r)'
    BY <1>1, PhasesRead, PhasesReadNext
  <2>2. op[o].owner = r
    BY <1>3 DEF IInv, Owned, Op
  <2>3. op[o].irp # "pending"
    <3>1. o \notin Lost
      BY <2>2 DEF Spoiled, Lost
    <3> QED BY <1>1, <1>3, <2>2, <3>1 DEF IInv, Pursued
  <2>4. CallPhase(r) # "running" /\ CallPhase(r)' = "spent"
    BY <1>1, <1>3, <2>1, <2>3, Fields DEF PhaseRead, Op
  <2>5. Answer(r)' = Answer(r) /\ Barred(r)' = Barred(r)
    BY <1>1 DEF Answer, Barred
  <2>6. Promise(r)!Discard
    BY <1>1, <2>4, <2>5 DEF Promise!Discard
  <2> QED BY <2>6 DEF Promise!Next
<1> QED BY <1>2, <1>3

LEMMA CloseMaps ==
  ASSUME TypeOK, TypeOK', NEW r \in Results, ~Spoiled(r), ~Spoiled(r)',
         NEW d \in Diversions, Close(d)
  PROVE  [Promise(r)!Next]_(Promise(r)!vars)
<1>1. /\ Spoiled(r)' = Spoiled(r)
      /\ res' = res /\ getters' = getters /\ op' = op /\ events' = events
      /\ winHandle' = winHandle \ {d}
  BY DEF Spoiled, Close
<1>2. CallPhase(r)' = CallPhase(r) /\ Answer(r)' = Answer(r)
  BY <1>1 DEF CallPhase, Answer
<1>3. CASE Barred(r)' = Barred(r)
  BY <1>1, <1>2, <1>3, UnseenStutters DEF Unseen
<1>4. CASE Barred(r)' # Barred(r)
  <2>1. Barred(r)' = TRUE
    BY <1>1, <1>4 DEF Barred
  <2>2. Promise(r)!Bar
    BY <1>1, <1>2, <2>1 DEF Promise!Bar
  <2> QED BY <2>2 DEF Promise!Next
<1> QED BY <1>3, <1>4

-----------------------------------------------------------------------------
LEMMA InitMaps == Init => \A r \in Results : Promise(r)!Init
<1> SUFFICES ASSUME Init, NEW r \in Results PROVE Promise(r)!Init
  OBVIOUS
<1>1. /\ res[r].event = None /\ res[r].ioLength = None
      /\ res[r].ret = "none"
      /\ \A t \in Threads : getters[t].at = "idle"
      /\ ~Spoiled(r)
  BY DEF Init, ResultsInit, Idle, Spoiled
<1>2. CallPhase(r) = "unused" /\ Answer(r) = "none" /\ Barred(r) = FALSE
  BY <1>1 DEF CallPhase, Answer, Barred
<1> QED BY <1>1, <1>2 DEF Promise!Init, Promise!NoCall, Spoiled

LEMMA NextMaps ==
  ASSUME IInv, TypeOK', Next, NEW r \in Results
  PROVE  [Promise(r)!Next]_(Promise(r)!vars)
<1>1. CASE Spoiled(r)'
  BY <1>1, StrayMaps
<1>2. CASE ~Spoiled(r)'
  <2>1. TypeOK
    BY DEF IInv
  <2>2. \A o \in Op : Complete(o) \/ Abort(o) => op[o].owner \in Results
    BY DEF Complete, Abort, EndIrp, IInv, KernelInv
  <2>3. /\ crowded \subseteq crowded' /\ Lost \subseteq Lost'
        /\ \A o \in Lost : op'[o].owner = op[o].owner
    <3>1. Lost \subseteq Op
      BY <2>1 DEF TypeOK, Lost
    <3>2. CASE \E q \in Results, d \in Diversions : Start(q, d)
      <4>1. PICK q \in Results, o \in Op : Starting(q, o)
        BY <2>1, <3>2, StartEffect
      <4>2. o \notin Lost
        BY <4>1 DEF Starting, IInv, TypeOK, Unissued
      <4> QED BY <3>1, <4>1, <4>2, CrowdsEffect DEF Starting
    <3>3. CASE \E t \in Threads : GetAny(t)
      BY <2>1, <3>3, GetEffect, GettingShape
    <3>4. CASE \E q \in Results : Drop(q) \/ Collect(q)
      BY <2>1, <3>4, DropEffect, CollectEffect DEF Dropping, Collecting
    <3>5. CASE \E o \in Op : Complete(o) \/ Abort(o)
      <4>1. PICK o \in Op : Ending(o, op[o].owner)
        BY <2>1, <2>2, <3>5, EndEffect
      <4> QED BY <3>1, <4>1 DEF Ending
    <3>6. CASE \/ \E o \in Op : FinalizeAddress(o) \/ CollectEvent(o)
               \/ \E d \in Diversions : Close(d)
      BY <2>1, <3>6, AddressEffect, OtherTypeOK
         DEF FinalizeAddress, CollectEvent, FinalizeEvent, Close, history
    <3> QED BY <3>2, <3>3, <3>4, <3>5, <3>6, NextActions
  <2>4. ~Spoiled(r)
    BY <1>2, <2>3, SpoiledStands
  <2>5. CASE \E q \in Results, d \in Diversions : Start(q, d)
    BY <1>2, <2>1, <2>4, <2>5, StartEffect, StartMaps
  <2>6. CASE \E t \in Threads : GetAny(t)
    BY <1>2, <2>1, <2>4, <2>6, GetEffect, GetMaps
  <2>7. CASE \E q \in Results : Drop(q) \/ Collect(q)
    BY <1>2, <2>1, <2>4, <2>7, DropEffect, CollectEffect, DropMaps
  <2>8. CASE \E o \in Op : Complete(o) \/ Abort(o)
    BY <1>2, <2>1, <2>2, <2>4, <2>8, EndEffect, EndMaps
  <2>9. CASE \E o \in Op : FinalizeAddress(o)
    BY <1>2, <2>1, <2>4, <2>9, AddressMaps
  <2>10. CASE \E o \in Op : CollectEvent(o)
    BY <1>2, <2>4, <2>10, EventMaps
  <2>11. CASE \E d \in Diversions : Close(d)
    BY <1>2, <2>1, <2>4, <2>11, CloseMaps
  <2> QED BY <2>5, <2>6, <2>7, <2>8, <2>9, <2>10, <2>11, NextActions
<1> QED BY <1>1, <1>2

LEMMA StepMaps ==
  ASSUME IInv, IInv', [Next]_vars
  PROVE  [\A r \in Results : [Promise(r)!Next]_(Promise(r)!vars)]_vars
<1>1. CASE Next
  <2>1. TypeOK'
    BY DEF IInv
  <2> QED BY <1>1, <2>1, NextMaps
<1>2. CASE UNCHANGED vars
  BY <1>2
<1> QED BY <1>1, <1>2

(* For every client, every number of calls, results, Diversions and        *)
(* threads, what is seen of one result is a behaviour of AsyncCall: Get    *)
(* answers an end once, after it happened and with its own length; it      *)
(* gives up nothing that is over unless the Diversion is closed; and       *)
(* closing, cancelling and collecting elsewhere do not show.               *)
THEOREM PromiseKept == Spec => KeepsPromise
<1>1. Init => \A r \in Results : Promise(r)!Init
  BY InitMaps
<1>2. IInv /\ IInv' /\ [Next]_vars
        => [\A r \in Results : [Promise(r)!Next]_(Promise(r)!vars)]_vars
  BY StepMaps
<1> QED BY <1>1, <1>2, Invariance, PTL DEF Spec, KeepsPromise
=============================================================================
