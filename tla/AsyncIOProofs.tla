--------------------------- MODULE AsyncIOProofs ---------------------------
(***************************************************************************)
(* Theorems about AsyncIO, for every set of results, Diversions and        *)
(* threads, every bound on the calls and every client.                     *)
(***************************************************************************)
EXTENDS AsyncIO, TLAPS

USE MaxOpsAssumption, NamesAssumption, UsesAssumption DEF None

LEMMA FirstCall == 1 \in Op
  BY DEF Op

LEMMA InitTypeOK == Init => TypeOK
  BY DEF Init, ResultsInit, TypeOK, ResultState, GetterState, OpState, Op

(* A record with one field replaced by a value of the field's type is      *)
(* still of its type; Reset and the calls chain such replacements.         *)
LEMMA ResetType ==
  ASSUME NEW s \in ResultState, NEW o \in Op
  PROVE  /\ AfterReset(s, o) \in ResultState
         /\ AfterFailedReset(s) \in ResultState
<1>1. AfterReset(s, o) \in ResultState
  BY DEF ResultState, AfterReset
<1>2. AfterFailedReset(s) \in ResultState
  BY DEF ResultState, AfterFailedReset
<1> QED BY <1>1, <1>2

LEMMA StepType ==
  ASSUME NEW s \in ResultState, NEW o \in Op, NEW outcome \in {"ok", "error"}
  PROVE  /\ AfterAnswer(s) \in ResultState
         /\ [s EXCEPT !.noError = FALSE, !.ret = "false"] \in ResultState
         /\ [s EXCEPT !.ret = "false"] \in ResultState
         /\ \A b \in BOOLEAN : [s EXCEPT !.noError = b] \in ResultState
         /\ [s EXCEPT !.life = "dropped"] \in ResultState
         /\ [s EXCEPT !.life = "gone", !.buffer = None,
                     !.status = "freed"] \in ResultState
         /\ [s EXCEPT !.status = outcome, !.length = o] \in ResultState
<1>1. AfterAnswer(s) \in ResultState
  BY DEF ResultState, AfterAnswer
<1>2. /\ [s EXCEPT !.noError = FALSE, !.ret = "false"] \in ResultState
      /\ [s EXCEPT !.ret = "false"] \in ResultState
  BY DEF ResultState
<1>3. ASSUME NEW b \in BOOLEAN
      PROVE  [s EXCEPT !.noError = b] \in ResultState
  BY DEF ResultState
<1>4. /\ [s EXCEPT !.life = "dropped"] \in ResultState
      /\ [s EXCEPT !.life = "gone", !.buffer = None, !.status = "freed"]
           \in ResultState
  BY DEF ResultState
<1>5. [s EXCEPT !.status = outcome, !.length = o] \in ResultState
  BY DEF ResultState
<1> QED BY <1>1, <1>2, <1>3, <1>4, <1>5

(* The calls that were given up: whether the client was told FALSE first   *)
(* only says in which of the two sets they are.                            *)
Lost == forsaken \cup misled

LEMMA GivesUpEffect ==
  ASSUME NEW r, NEW calls, NEW thrown, GivesUp(r, calls, thrown)
  PROVE  /\ Lost' = Lost \cup calls \cup thrown
         /\ forsaken' \subseteq forsaken \cup calls \cup thrown
         /\ misled' \subseteq misled \cup calls
  BY DEF GivesUp, Lost

LEMMA CrowdsEffect ==
  ASSUME NEW r, Crowds(r)
  PROVE  /\ crowded \subseteq crowded' /\ crowded' \subseteq crowded \cup {r}
         /\ r \notin crowded' => ~Busy(r)
  BY DEF Crowds

-----------------------------------------------------------------------------
(* What each step does to what the invariants speak of.                    *)

(* A call of Diversion: either Reset failed and the call threw, or the     *)
(* result is configured for the new call o.                                *)
Throwing(r, o) ==
  /\ res'[r].event = res[r].event
  /\ res'[r].buffer = res[r].buffer
  /\ op'[o].irp = "none"
  /\ events' = events /\ signaled' = signaled /\ addrs' = addrs
  /\ o \in Lost'

Configuring(r, o) ==
  /\ res'[r].event = o /\ res'[r].buffer = o
  /\ events' = events \cup {o}
  /\ \/ /\ op'[o].irp = "ok" /\ op'[o].via \in winHandle
        /\ signaled' = signaled \cup {o} /\ addrs' = addrs
        /\ res'[r].status = "ok" /\ res'[r].length = o
        /\ res'[r].ioLength = o
     \/ /\ res'[r].status = "pending" /\ res'[r].ioLength = None
        /\ signaled' = signaled
        /\ \/ /\ op'[o].irp = "pending" /\ op'[o].via \in winHandle
              /\ addrs' = addrs \cup {o}
           \/ op'[o].irp = "none" /\ addrs' = addrs

Starting(r, o) ==
  /\ o = issued + 1 /\ issued' = o
  /\ res[r].life = "held" /\ res'[r].life = "held"
  /\ res'[r].ret = "none" /\ res'[r].status # "freed"
  /\ \A q \in Results : q # r => res'[q] = res[q]
  /\ op'[o].owner = r
  /\ \A p \in Op : p # o => op'[p] = op[p]
  /\ pins' = pins \cup {o} /\ getters' = getters /\ winHandle' = winHandle
  /\ Crowds(r)
  /\ Lost \cup PendingOf(r) \subseteq Lost'
  /\ Lost' \subseteq Lost \cup PendingOf(r) \cup {o}
  /\ Throwing(r, o) \/ Configuring(r, o)

LEMMA StartTypeOK ==
  ASSUME TypeOK, NEW r \in Results, NEW d \in Diversions, Start(r, d)
  PROVE  TypeOK'
<1>1. PICK o \in Op : \/ StartThrows(r, d, o) \/ StartPending(r, d, o)
                      \/ StartDone(r, d, o) \/ StartFailed(r, d, o)
  BY DEF Start
<1>2. /\ issued' \in 0 .. MaxOps /\ pins' \subseteq Op
      /\ addrs' \subseteq Op /\ Crowds(r)
  BY <1>1 DEF TypeOK, Op, StartThrows, StartPending, StartDone, StartFailed,
              Configure, BeginCall
<1>3. /\ events' \subseteq Op /\ signaled' \subseteq Op
      /\ winHandle' \subseteq Diversions
      /\ getters' \in [Threads -> GetterState]
  BY <1>1 DEF TypeOK, StartThrows, StartPending, StartDone, StartFailed,
              Configure
<1>4. op' \in [Op -> OpState]
  BY <1>1 DEF TypeOK, OpState, StartThrows, StartPending, StartDone,
              StartFailed
<1>5. res' \in [Results -> ResultState]
  <2>1. PICK s : /\ s \in ResultState
                 /\ res' = [res EXCEPT ![r] = s]
    <3>1. /\ res[r] \in ResultState
          /\ AfterReset(res[r], o) \in ResultState
          /\ AfterFailedReset(res[r]) \in ResultState
      BY ResetType DEF TypeOK
    <3>2. Configured(r, o) \in ResultState
      BY <3>1 DEF Configured, ResultState
    <3>3. /\ [Configured(r, o) EXCEPT !.status = "pending"] \in ResultState
          /\ [Configured(r, o) EXCEPT !.length = o, !.ioLength = o]
               \in ResultState
          /\ [Configured(r, o) EXCEPT !.status = "pending", !.noError = FALSE] \in ResultState
      BY <3>2 DEF ResultState
    <3> QED BY <1>1, <3>1, <3>3 DEF StartThrows, StartPending, StartDone,
                                    StartFailed
  <2> QED BY <2>1 DEF TypeOK
<1>6. crowded' \subseteq Results
  BY <1>2 DEF Crowds, TypeOK
<1>7. forsaken' \subseteq Op /\ misled' \subseteq Op
  <2>1. PICK thrown \in {{}, {o}} : GivesUp(r, PendingOf(r), thrown)
    BY <1>1 DEF StartThrows, StartPending, StartDone, StartFailed, Configure
  <2> QED BY <2>1, GivesUpEffect DEF TypeOK, PendingOf
<1> QED BY <1>2, <1>3, <1>4, <1>5, <1>6, <1>7 DEF TypeOK

LEMMA StartEffect ==
  ASSUME TypeOK, NEW r \in Results, NEW d \in Diversions, Start(r, d)
  PROVE  \E o \in Op : Starting(r, o)
<1>1. PICK o \in Op : \/ StartThrows(r, d, o) \/ StartPending(r, d, o)
                      \/ StartDone(r, d, o) \/ StartFailed(r, d, o)
  BY DEF Start
<1>2. BeginCall(r, o)
  BY <1>1 DEF StartThrows, StartPending, StartDone, StartFailed, Configure
<1>3. /\ o = issued + 1 /\ issued' = o
      /\ res[r].life = "held" /\ Crowds(r)
      /\ pins' = pins \cup {o}
  BY <1>2 DEF BeginCall
<1>4. /\ \A q \in Results : q # r => res'[q] = res[q]
      /\ op'[o].owner = r
      /\ \A p \in Op : p # o => op'[p] = op[p]
      /\ getters' = getters /\ winHandle' = winHandle
  BY <1>1 DEF StartThrows, StartPending, StartDone, StartFailed, Configure,
              TypeOK
<1>5. res[r] \in ResultState
  BY DEF TypeOK
<1>6. CASE StartThrows(r, d, o)
  <2>1. res'[r] = AfterFailedReset(res[r])
    BY <1>6 DEF StartThrows, TypeOK
  <2>2. /\ res'[r].life = "held" /\ res'[r].ret = "none"
        /\ res'[r].status # "freed"
        /\ res'[r].event = res[r].event /\ res'[r].buffer = res[r].buffer
    BY <1>3, <1>5, <2>1 DEF AfterFailedReset, ResultState
  <2>3. Lost' = Lost \cup PendingOf(r) \cup {o}
    BY <1>6, GivesUpEffect DEF StartThrows
  <2>4. Throwing(r, o)
    BY <1>6, <2>2, <2>3 DEF StartThrows, Throwing, TypeOK
  <2> QED BY <1>3, <1>4, <2>2, <2>3, <2>4 DEF Starting
<1>7. CASE StartPending(r, d, o) \/ StartDone(r, d, o) \/ StartFailed(r, d, o)
  <2>0. DEFINE c == Configured(r, o)
  <2>1. /\ c.life = "held" /\ c.ret = "none" /\ c.event = o
        /\ c.buffer = o /\ c.status = "ok" /\ c.ioLength = None
    BY <1>3, <1>5 DEF Configured, AfterReset, ResultState
  <2>2. c \in ResultState
    BY <1>5, ResetType DEF Configured, ResultState
  <2>3. Lost' = Lost \cup PendingOf(r) /\ events' = events \cup {o}
    BY <1>7, GivesUpEffect
       DEF StartPending, StartDone, StartFailed, Configure
  <2>4. PICK s : /\ res'[r] = s
                 /\ \/ /\ s = [c EXCEPT !.length = o, !.ioLength = o]
                       /\ StartDone(r, d, o)
                    \/ /\ s = [c EXCEPT !.status = "pending"]
                       /\ StartPending(r, d, o)
                    \/ /\ s = [c EXCEPT !.status = "pending", !.noError = FALSE]
                       /\ StartFailed(r, d, o)
    BY <1>7 DEF StartPending, StartDone, StartFailed, TypeOK
  <2>5. /\ s.life = "held" /\ s.ret = "none" /\ s.status # "freed"
        /\ s.event = o /\ s.buffer = o
    <3> HIDE DEF c
    <3> QED BY <2>1, <2>2, <2>4 DEF ResultState
  <2>6. Configuring(r, o)
    <3>1. CASE StartDone(r, d, o)
               /\ s = [c EXCEPT !.length = o, !.ioLength = o]
      <4>1. s.status = "ok" /\ s.length = o /\ s.ioLength = o
        BY <2>1, <2>2, <3>1 DEF ResultState
      <4>2. /\ op'[o].irp = "ok" /\ op'[o].via \in winHandle
            /\ signaled' = signaled \cup {o} /\ addrs' = addrs
        BY <3>1 DEF StartDone, TypeOK
      <4> QED BY <2>3, <2>4, <2>5, <4>1, <4>2 DEF Configuring
    <3>2. CASE StartPending(r, d, o) /\ s = [c EXCEPT !.status = "pending"]
      <4>1. s.status = "pending" /\ s.ioLength = None
        BY <2>1, <2>2, <3>2 DEF ResultState
      <4>2. /\ op'[o].irp = "pending" /\ op'[o].via \in winHandle
            /\ signaled' = signaled /\ addrs' = addrs \cup {o}
        BY <3>2 DEF StartPending, TypeOK
      <4> QED BY <2>3, <2>4, <2>5, <4>1, <4>2 DEF Configuring
    <3>3. CASE StartFailed(r, d, o)
               /\ s = [c EXCEPT !.status = "pending", !.noError = FALSE]
      <4>1. s.status = "pending" /\ s.ioLength = None
        BY <2>1, <2>2, <3>3 DEF ResultState
      <4>2. /\ op'[o].irp = "none"
            /\ signaled' = signaled /\ addrs' = addrs
        BY <3>3 DEF StartFailed, TypeOK
      <4> QED BY <2>3, <2>4, <2>5, <4>1, <4>2 DEF Configuring
    <3> QED BY <2>4, <3>1, <3>2, <3>3
  <2> QED BY <1>3, <1>4, <2>3, <2>4, <2>5, <2>6 DEF Starting
<1> QED BY <1>1, <1>6, <1>7

(* A step of thread t in Get of r.                                         *)
GetFrame(t, r) ==
  /\ op' = op /\ addrs' = addrs /\ issued' = issued /\ winHandle' = winHandle
  /\ forsaken' = forsaken /\ misled' = misled
  /\ \A q \in Results : q # r => res'[q] = res[q]
  /\ \A u \in Threads : u # t => getters'[u] = getters[u]
  /\ res'[r].event = res[r].event /\ res'[r].life = res[r].life
  /\ res'[r].status = res[r].status /\ res'[r].length = res[r].length

Unanswered(r) ==
  /\ pins' = pins /\ events' = events
  /\ res'[r].buffer = res[r].buffer /\ res'[r].ioLength = res[r].ioLength

Refusing(t, r) ==
  /\ Unanswered(r) /\ signaled' = signaled /\ Crowds(r)
  /\ getters' = getters /\ getters[t] = Idle /\ res[r].life = "held"
  /\ ~(EventValid(r) /\ DivertHandleValid(r))
  /\ res'[r].ret = "false" /\ ~res'[r].noError

Entering(t, r) ==
  /\ Unanswered(r) /\ signaled' = signaled /\ Crowds(r)
  /\ res[r].event \in events /\ res[r].life = "held"
  /\ getters[t] = Idle
  /\ getters'[t] = [at |-> "waiting", on |-> r, event |-> res[r].event]
  /\ res' = res

Settling(t, r) ==
  /\ Unanswered(r) /\ crowded' = crowded
  /\ getters[t].at = "waiting" /\ getters[t].on = r
  /\ getters'[t] = [at |-> "judged", on |-> r, event |-> getters[t].event]
  /\ res'[r].ret = res[r].ret
  /\ \/ /\ getters[t].event \in signaled
        /\ signaled' = signaled \ {getters[t].event}
        /\ res'[r].noError
     \/ /\ signaled' = signaled
        /\ getters[t].event \notin signaled \/ getters[t].event \notin events
        /\ ~res'[r].noError

Returning(t, r) ==
  /\ Unanswered(r) /\ crowded' = crowded /\ signaled' = signaled
  /\ getters[t].at = "judged" /\ getters[t].on = r /\ getters'[t] = Idle
  /\ ~res[r].noError /\ ~res'[r].noError /\ res'[r].ret = "false"

Answering(t, r) ==
  /\ crowded' = crowded /\ signaled' = signaled
  /\ getters[t].at = "judged" /\ getters[t].on = r /\ getters'[t] = Idle
  /\ res[r].noError
  /\ pins' = pins \ {res[r].buffer} /\ events' = events \ {res[r].event}
  /\ res'[r].buffer = None
  /\ \/ /\ res[r].status = "ok"
        /\ res'[r].ret = "true" /\ res'[r].ioLength = res[r].length
     \/ /\ res[r].status = "error"
        /\ res'[r].ret = "false" /\ res'[r].ioLength = res[r].ioLength

Getting(t, r) ==
  /\ GetFrame(t, r)
  /\ \/ Refusing(t, r) \/ Entering(t, r) \/ Settling(t, r)
     \/ Returning(t, r) \/ Answering(t, r)

GetAny(t) ==
  GetStep(t) \/ GetGivesUp(t) \/ \E r \in Results : Get(t, r)

LEMMA OnResult ==
  ASSUME TypeOK, NEW t \in Threads
  PROVE  /\ getters[t] = Idle <=> getters[t].at = "idle"
         /\ getters[t] # Idle =>
              /\ getters[t].on \in Results /\ getters[t].event \in Op
              /\ getters[t].at \in {"waiting", "judged"}
              /\ getters[t] = [at |-> getters[t].at, on |-> getters[t].on,
                               event |-> getters[t].event]
         /\ getters[t] # Idle <=> getters[t].on \in Results
  BY DEF TypeOK, GetterState, Idle

LEMMA GetEffect ==
  ASSUME TypeOK, NEW t \in Threads, GetAny(t)
  PROVE  \E r \in Results : Getting(t, r)
<1>1. CASE \E r \in Results : Get(t, r)
  <2>1. PICK r \in Results : Get(t, r)
    BY <1>1
  <2>2. res[r] \in ResultState
    BY DEF TypeOK
  <2>3. CASE GetRefused(t, r)
    <3>1. res'[r] = [res[r] EXCEPT !.noError = FALSE, !.ret = "false"]
      BY <2>3 DEF GetRefused, TypeOK
    <3>2. /\ res'[r].event = res[r].event /\ res'[r].life = res[r].life
          /\ res'[r].status = res[r].status /\ res'[r].length = res[r].length
          /\ res'[r].buffer = res[r].buffer
          /\ res'[r].ioLength = res[r].ioLength
          /\ res'[r].ret = "false" /\ ~res'[r].noError
      BY <2>2, <3>1 DEF ResultState
    <3>3. \A q \in Results : q # r => res'[q] = res[q]
      BY <2>3 DEF GetRefused, TypeOK
    <3>4. getters[t] = Idle
      BY <2>3, OnResult DEF GetRefused
    <3> QED BY <2>1, <2>3, <3>2, <3>3, <3>4
            DEF Getting, GetFrame, Refusing, Unanswered, Get, GetRefused
  <2>4. CASE GetWait(t, r)
    <3>1. getters[t] = Idle
      BY <2>4, OnResult DEF GetWait
    <3>2. /\ getters'[t] = [at |-> "waiting", on |-> r, event |-> res[r].event]
          /\ \A u \in Threads : u # t => getters'[u] = getters[u]
      BY <2>4 DEF GetWait, TypeOK
    <3> QED BY <2>1, <2>4, <3>1, <3>2
            DEF Getting, GetFrame, Entering, Unanswered, Get, GetWait,
                EventValid
  <2> QED BY <2>1, <2>3, <2>4 DEF Get
<1>2. CASE GetStep(t) \/ GetGivesUp(t)
  <2>0. DEFINE r == getters[t].on
  <2>1. /\ getters[t] # Idle /\ r \in Results
        /\ getters[t] = [at |-> getters[t].at, on |-> r,
                         event |-> getters[t].event]
    BY <1>2, OnResult DEF GetStep, GetGivesUp, GetWake, GetReturn, GetFinish,
       GetTimeout, GetFails
  <2>2. res[r] \in ResultState
    BY <2>1 DEF TypeOK
  <2>3. /\ \A q \in Results : q # r => res'[q] = res[q]
        /\ \A u \in Threads : u # t => getters'[u] = getters[u]
        /\ op' = op /\ addrs' = addrs /\ issued' = issued
        /\ winHandle' = winHandle /\ crowded' = crowded
        /\ forsaken' = forsaken /\ misled' = misled
    BY <1>2 DEF GetStep, GetGivesUp, GetWake, GetReturn, GetFinish,
       GetTimeout, GetFails, Judge, history, TypeOK
  <2>4. ASSUME NEW b \in BOOLEAN, Judge(t, b), getters[t].at = "waiting"
        PROVE  /\ res'[r].noError = b /\ res'[r].ret = res[r].ret
               /\ GetFrame(t, r) /\ Unanswered(r)
               /\ getters'[t] = [at |-> "judged", on |-> r,
                                 event |-> getters[t].event]
    <3>1. res'[r] = [res[r] EXCEPT !.noError = b]
      BY <2>1, <2>4 DEF Judge, TypeOK
    <3>2. /\ res'[r].event = res[r].event /\ res'[r].life = res[r].life
          /\ res'[r].status = res[r].status /\ res'[r].length = res[r].length
          /\ res'[r].buffer = res[r].buffer
          /\ res'[r].ioLength = res[r].ioLength
          /\ res'[r].ret = res[r].ret /\ res'[r].noError = b
      BY <2>2, <3>1 DEF ResultState
    <3>3. getters'[t] = [getters[t] EXCEPT !.at = "judged"]
      BY <2>4 DEF Judge, TypeOK
    <3>4. getters'[t] = [at |-> "judged", on |-> r,
                         event |-> getters[t].event]
      BY <2>1, <3>3
    <3> QED BY <2>3, <2>4, <3>2, <3>4 DEF GetFrame, Unanswered, Judge
  <2>5. CASE GetWake(t)
    BY <2>1, <2>3, <2>4, <2>5 DEF Getting, Settling, GetWake
  <2>6. CASE GetTimeout(t) \/ GetFails(t)
    BY <2>1, <2>3, <2>4, <2>6 DEF Getting, Settling, GetTimeout, GetFails
  <2>7. CASE GetReturn(t)
    <3>1. res'[r] = [res[r] EXCEPT !.ret = "false"]
      BY <2>1, <2>7 DEF GetReturn, TypeOK
    <3>2. /\ res'[r].event = res[r].event /\ res'[r].life = res[r].life
          /\ res'[r].status = res[r].status /\ res'[r].length = res[r].length
          /\ res'[r].buffer = res[r].buffer
          /\ res'[r].ioLength = res[r].ioLength
          /\ res'[r].ret = "false" /\ res'[r].noError = res[r].noError
      BY <2>2, <3>1 DEF ResultState
    <3>3. getters'[t] = Idle
      BY <2>7 DEF GetReturn, TypeOK
    <3> QED BY <2>1, <2>3, <2>7, <3>2, <3>3
            DEF Getting, GetFrame, Returning, Unanswered, GetReturn
  <2>8. CASE GetFinish(t)
    <3>1. /\ res'[r] = AfterAnswer(res[r])
          /\ getters'[t] = Idle
      BY <2>1, <2>8 DEF GetFinish, TypeOK
    <3>2. /\ res'[r].event = res[r].event /\ res'[r].life = res[r].life
          /\ res'[r].status = res[r].status /\ res'[r].length = res[r].length
          /\ res'[r].buffer = None
      BY <2>2, <3>1 DEF ResultState, AfterAnswer
    <3>3. \/ /\ res[r].status = "ok"
             /\ res'[r].ret = "true" /\ res'[r].ioLength = res[r].length
          \/ /\ res[r].status = "error"
             /\ res'[r].ret = "false" /\ res'[r].ioLength = res[r].ioLength
      <4>1. res[r].status \in {"ok", "error"}
        BY <2>8 DEF GetFinish
      <4> QED BY <2>2, <3>1, <4>1 DEF ResultState, AfterAnswer
    <3> QED BY <2>1, <2>3, <2>8, <3>1, <3>2, <3>3
            DEF Getting, GetFrame, Answering, GetFinish
  <2> QED BY <1>2, <2>5, <2>6, <2>7, <2>8 DEF GetStep, GetGivesUp
<1> QED BY <1>1, <1>2 DEF GetAny

LEMMA GetTypeOK ==
  ASSUME TypeOK, NEW t \in Threads, GetAny(t)
  PROVE  TypeOK'
<1>0. PICK r \in Results : Getting(t, r)
  BY GetEffect
<1>1. getters' \in [Threads -> GetterState]
  <2>1. \/ getters' = getters
        \/ \E s : getters' = [getters EXCEPT ![t] = s]
    BY DEF GetAny, GetStep, GetGivesUp, Get, GetRefused, GetWait, GetWake,
       GetTimeout, GetFails, GetReturn, GetFinish, Judge
  <2>2. getters'[t] \in GetterState
    <3>1. CASE getters'[t] = Idle \/ getters' = getters
      BY <3>1 DEF GetterState, TypeOK
    <3>2. CASE Entering(t, r)
      BY <3>2 DEF Entering, GetterState, TypeOK
    <3>3. CASE Settling(t, r)
      <4>1. getters[t].event \in Op
        BY <3>3, OnResult DEF Settling, Idle
      <4> QED BY <3>3, <4>1 DEF Settling, GetterState
    <3> QED BY <1>0, <3>1, <3>2, <3>3 DEF Getting, Refusing, Returning,
                                           Answering
  <2> QED BY <2>1, <2>2 DEF TypeOK
<1>2. res' \in [Results -> ResultState]
  <2>0. /\ \A q \in Results : res[q] \in ResultState
        /\ DOMAIN res = Results
    BY DEF TypeOK
  <2>1. ASSUME NEW q \in Results
        PROVE  /\ AfterAnswer(res[q]) \in ResultState
               /\ [res[q] EXCEPT !.noError = FALSE, !.ret = "false"]
                    \in ResultState
               /\ [res[q] EXCEPT !.ret = "false"] \in ResultState
               /\ \A b \in BOOLEAN :
                    [res[q] EXCEPT !.noError = b] \in ResultState
    BY <2>0, StepType, FirstCall
  <2>2. CASE \E q \in Results : Get(t, q)
    BY <2>1, <2>2 DEF Get, GetRefused, GetWait, TypeOK
  <2>3. CASE GetStep(t) \/ GetGivesUp(t)
    <3>1. getters[t].on \in Results
      BY <2>3, OnResult DEF GetStep, GetGivesUp, GetWake, GetReturn,
         GetFinish, GetTimeout, GetFails
    <3>2. \/ \E b \in BOOLEAN :
               res' = [res EXCEPT ![getters[t].on].noError = b]
          \/ res' = [res EXCEPT ![getters[t].on].ret = "false"]
          \/ res' = [res EXCEPT ![getters[t].on] = AfterAnswer(@)]
      BY <2>3 DEF GetStep, GetGivesUp, GetWake, GetReturn, GetFinish,
         GetTimeout, GetFails, Judge
    <3>3. PICK s \in ResultState : res' = [res EXCEPT ![getters[t].on] = s]
      BY <2>0, <2>1, <3>1, <3>2
    <3> QED BY <3>3 DEF TypeOK
  <2> QED BY <2>2, <2>3 DEF GetAny
<1>3. /\ pins' \subseteq Op /\ events' \subseteq Op
      /\ signaled' \subseteq Op /\ crowded' \subseteq Results
  BY <1>0 DEF TypeOK, Getting, Unanswered, Refusing, Entering, Settling,
     Returning, Answering, Crowds
<1> QED BY <1>0, <1>1, <1>2, <1>3 DEF TypeOK, Getting, GetFrame

(* The application lets a result go, and the collector reclaims it.        *)
Dropping(r) ==
  /\ op' = op /\ addrs' = addrs /\ issued' = issued /\ winHandle' = winHandle
  /\ getters' = getters /\ pins' = pins /\ events' = events
  /\ signaled' = signaled /\ crowded' = crowded
  /\ res[r].life = "held" /\ ~Busy(r)
  /\ \A q \in Results : q # r => res'[q] = res[q]
  /\ res'[r].life = "dropped" /\ res'[r].event = res[r].event
  /\ res'[r].buffer = res[r].buffer /\ res'[r].status = res[r].status
  /\ res'[r].length = res[r].length /\ res'[r].ioLength = res[r].ioLength
  /\ res'[r].ret = res[r].ret /\ res'[r].noError = res[r].noError
  /\ Lost' = Lost \cup PendingOf(r)

Collecting(r) ==
  /\ op' = op /\ addrs' = addrs /\ issued' = issued /\ winHandle' = winHandle
  /\ getters' = getters /\ events' = events /\ signaled' = signaled
  /\ crowded' = crowded /\ Lost' = Lost
  /\ pins' = pins \ {res[r].buffer}
  /\ res[r].life = "dropped"
  /\ \A q \in Results : q # r => res'[q] = res[q]
  /\ res'[r].life = "gone" /\ res'[r].event = res[r].event
  /\ res'[r].buffer = None /\ res'[r].status = "freed"
  /\ res'[r].ioLength = res[r].ioLength
  /\ res'[r].ret = res[r].ret /\ res'[r].noError = res[r].noError

(* The kernel ends the call o; the block it writes is r's.                 *)
Ending(o, r) ==
  /\ issued' = issued /\ winHandle' = winHandle /\ getters' = getters
  /\ pins' = pins /\ events' = events
  /\ crowded' = crowded /\ Lost' = Lost
  /\ addrs' = addrs \ {o} /\ signaled' = signaled \cup {o}
  /\ op[o].irp = "pending" /\ op[o].owner = r
  /\ op'[o].irp \in {"ok", "error"}
  /\ op'[o].owner = r /\ op'[o].via = op[o].via
  /\ \A p \in Op : p # o => op'[p] = op[p]
  /\ \A q \in Results :
       /\ res'[q].life = res[q].life /\ res'[q].event = res[q].event
       /\ res'[q].buffer = res[q].buffer /\ res'[q].ioLength = res[q].ioLength
       /\ res'[q].ret = res[q].ret /\ res'[q].noError = res[q].noError
       /\ q # r \/ res[q].status = "freed" => res'[q] = res[q]
  /\ res[r].status # "freed" =>
       res'[r].status = op'[o].irp /\ res'[r].length = o

LEMMA DropEffect ==
  ASSUME TypeOK, NEW r \in Results, Drop(r)
  PROVE  Dropping(r) /\ TypeOK'
<1>1. res[r] \in ResultState
  BY DEF TypeOK
<1>2. res'[r] = [res[r] EXCEPT !.life = "dropped"]
  BY DEF Drop, TypeOK
<1>3. /\ res'[r].life = "dropped" /\ res'[r].event = res[r].event
      /\ res'[r].buffer = res[r].buffer /\ res'[r].status = res[r].status
      /\ res'[r].length = res[r].length
      /\ res'[r].ioLength = res[r].ioLength
      /\ res'[r].ret = res[r].ret /\ res'[r].noError = res[r].noError
      /\ res'[r] \in ResultState
  BY <1>1, <1>2 DEF ResultState
<1>4. /\ Lost' = Lost \cup PendingOf(r)
      /\ forsaken' \subseteq forsaken \cup PendingOf(r)
      /\ misled' \subseteq misled \cup PendingOf(r)
  BY GivesUpEffect DEF Drop
<1>5. /\ \A q \in Results : q # r => res'[q] = res[q]
      /\ res' \in [Results -> ResultState]
  BY <1>3 DEF Drop, TypeOK
<1>6. Dropping(r)
  BY <1>3, <1>4, <1>5 DEF Drop, Dropping
<1>7. TypeOK'
  BY <1>4, <1>5, <1>6 DEF Dropping, TypeOK, PendingOf
<1> QED BY <1>6, <1>7

LEMMA CollectEffect ==
  ASSUME TypeOK, NEW r \in Results, Collect(r)
  PROVE  Collecting(r) /\ TypeOK'
<1>1. res[r] \in ResultState
  BY DEF TypeOK
<1>2. res'[r] = [res[r] EXCEPT !.life = "gone", !.buffer = None,
                               !.status = "freed"]
  BY DEF Collect, Finalize, TypeOK
<1>3. /\ res'[r].life = "gone" /\ res'[r].event = res[r].event
      /\ res'[r].buffer = None /\ res'[r].status = "freed"
      /\ res'[r].ioLength = res[r].ioLength
      /\ res'[r].ret = res[r].ret /\ res'[r].noError = res[r].noError
      /\ res'[r] \in ResultState
  BY <1>1, <1>2 DEF ResultState
<1>4. /\ \A q \in Results : q # r => res'[q] = res[q]
      /\ res' \in [Results -> ResultState]
  BY <1>3 DEF Collect, Finalize, TypeOK
<1>5. Collecting(r)
  BY <1>3, <1>4 DEF Collect, Finalize, Collecting, history, Lost
<1>6. TypeOK'
  BY <1>4, <1>5 DEF Collecting, TypeOK, Collect, history
<1> QED BY <1>5, <1>6

LEMMA EndEffect ==
  ASSUME TypeOK, NEW o \in Op, Complete(o) \/ Abort(o),
         op[o].owner \in Results
  PROVE  Ending(o, op[o].owner) /\ TypeOK'
<1>0. PICK outcome \in {"ok", "error"} : EndIrp(o, outcome)
  BY DEF Complete, Abort
<1>1. PICK r \in Results : r = op[o].owner
  OBVIOUS
<1>2. /\ res[r] \in ResultState /\ op[o] \in OpState
  BY DEF TypeOK
<1>3. op'[o] = [op[o] EXCEPT !.irp = outcome]
  BY <1>0 DEF EndIrp, TypeOK
<1>4. /\ op'[o].irp = outcome /\ op'[o].owner = r
      /\ op'[o].via = op[o].via /\ op'[o] \in OpState
  BY <1>1, <1>2, <1>3 DEF OpState
<1>5. /\ \A p \in Op : p # o => op'[p] = op[p]
      /\ op' \in [Op -> OpState]
  BY <1>0, <1>4 DEF EndIrp, TypeOK
<1>6. CASE res[r].status = "freed"
  <2>1. res' = res
    BY <1>0, <1>1, <1>6 DEF EndIrp
  <2>2. Ending(o, r)
    BY <1>0, <1>1, <1>4, <1>5, <1>6, <2>1 DEF EndIrp, Ending, history, Lost
  <2> QED BY <1>0, <1>1, <1>5, <2>1, <2>2 DEF EndIrp, TypeOK, history
<1>7. CASE res[r].status # "freed"
  <2>1. res' = [res EXCEPT ![r] = [@ EXCEPT !.status = outcome,
                                            !.length = o]]
    BY <1>0, <1>1, <1>7 DEF EndIrp
  <2>2. res'[r] = [res[r] EXCEPT !.status = outcome, !.length = o]
    BY <2>1 DEF TypeOK
  <2>3. /\ res'[r].life = res[r].life /\ res'[r].event = res[r].event
        /\ res'[r].buffer = res[r].buffer
        /\ res'[r].ioLength = res[r].ioLength
        /\ res'[r].ret = res[r].ret /\ res'[r].noError = res[r].noError
        /\ res'[r].status = outcome /\ res'[r].length = o
        /\ res'[r] \in ResultState
    BY <1>2, <2>2 DEF ResultState
  <2>4. /\ \A q \in Results : q # r => res'[q] = res[q]
        /\ res' \in [Results -> ResultState]
    BY <2>1, <2>3 DEF TypeOK
  <2>5. Ending(o, r)
    BY <1>0, <1>1, <1>4, <1>5, <1>7, <2>3, <2>4
       DEF EndIrp, Ending, history, Lost
  <2> QED BY <1>0, <1>1, <1>5, <2>4, <2>5 DEF EndIrp, TypeOK, history
<1> QED BY <1>6, <1>7

LEMMA AddressEffect ==
  ASSUME TypeOK, NEW o \in Op, FinalizeAddress(o)
  PROVE  TypeOK' /\ Lost' = Lost \cup {o}
<1>1. /\ Lost' = Lost \cup {o}
      /\ forsaken' \subseteq forsaken \cup {o}
      /\ misled' \subseteq misled \cup {o}
  BY GivesUpEffect DEF FinalizeAddress
<1> QED BY <1>1 DEF FinalizeAddress, TypeOK

LEMMA OtherTypeOK ==
  ASSUME TypeOK,
         \/ \E o \in Op : CollectEvent(o)
         \/ \E d \in Diversions : Close(d)
  PROVE  TypeOK' /\ Lost' = Lost
  BY DEF TypeOK, CollectEvent, FinalizeEvent, Close, history, Lost

(* The owner of every call the kernel ever got is a result.                *)
KernelInv ==
  \A o \in Op :
    /\ op[o].irp # "none" => op[o].owner \in Results
    /\ o \in addrs => op[o].irp = "pending"
    /\ o \in signaled => op[o].irp \in {"ok", "error"}

LEMMA NextActions ==
  ASSUME Next
  PROVE  \/ \E r \in Results, d \in Diversions : Start(r, d)
         \/ \E t \in Threads : GetAny(t)
         \/ \E r \in Results : Drop(r)
         \/ \E r \in Results : Collect(r)
         \/ \E o \in Op : Complete(o) \/ Abort(o)
         \/ \E o \in Op : FinalizeAddress(o)
         \/ \E o \in Op : CollectEvent(o)
         \/ \E d \in Diversions : Close(d)
  BY DEF Next, GetAny

LEMMA NextTypeOK ==
  ASSUME TypeOK, KernelInv, Next
  PROVE  TypeOK'
<1>1. CASE \E o \in Op : Complete(o) \/ Abort(o)
  <2>1. PICK o \in Op : Complete(o) \/ Abort(o)
    BY <1>1
  <2>2. op[o].owner \in Results
    BY <2>1 DEF Complete, Abort, EndIrp, KernelInv
  <2> QED BY <2>1, <2>2, EndEffect
<1> QED BY <1>1, NextActions, StartTypeOK, GetTypeOK, DropEffect,
           CollectEffect, AddressEffect, OtherTypeOK

-----------------------------------------------------------------------------
(* The inductive invariant.  Of a call not yet made there is no trace.     *)
Unissued ==
  \A o \in Op : o > issued =>
    /\ o \notin pins /\ o \notin events /\ o \notin signaled
    /\ o \notin addrs /\ o \notin Lost
    /\ op[o].irp = "none"
    /\ \A r \in Results : res[r].event # o /\ res[r].buffer # o
    /\ \A t \in Threads : getters[t].event # o

(* Event and pin of a result are its own, and the pin of its call is the   *)
(* one it holds; the block goes with the result.                           *)
Owned ==
  \A r \in Results :
    /\ res[r].buffer # None =>
         res[r].buffer \in pins /\ op[res[r].buffer].owner = r
    /\ res[r].event # None => op[res[r].event].owner = r
    /\ res[r].event \in pins => res[r].buffer = res[r].event
    /\ res[r].status = "freed" => res[r].life = "gone"

(* A thread in Get keeps the result alive and waits for an event of it;    *)
(* unless another uses the result, it is the event the result holds, and   *)
(* the thread concludes a success only from the end of that call.          *)
Alone(t, r) ==
  /\ getters[t].event = res[r].event
  /\ res[r].event \in events
  /\ \A u \in Threads : getters[u].on = r => u = t
  /\ getters[t].at = "judged" /\ res[r].noError =>
       op[res[r].event].irp \in {"ok", "error"}

Attended ==
  \A t \in Threads : \A r \in Results : getters[t].on = r =>
    /\ res[r].life = "held" /\ op[getters[t].event].owner = r
    /\ r \notin crowded => Alone(t, r)

(* A pending call nobody gave up is the one its result is configured for.  *)
Pursued ==
  \A o \in Op : \A r \in Results :
    op[o].irp = "pending" /\ o \notin Lost /\ op[o].owner = r =>
      /\ res[r].event = o /\ res[r].life = "held"
      /\ o \in addrs
      /\ r \notin crowded => o \in pins

(* The block of a result that is not spoiled tells of the call the result  *)
(* is configured for, Get has answered TRUE only from it, and the end of   *)
(* the call is announced by the event until a thread has seen it.          *)
Announced(r) ==
  \/ res[r].event \in signaled
  \/ \E t \in Threads :
       getters[t].on = r /\ getters[t].at = "judged" /\ res[r].noError

Truth(r) ==
  LET e == res[r].event
  IN  /\ res[r].ret = "true" =>
           e # None /\ op[e].irp = "ok" /\ res[r].ioLength = e
      /\ e # None =>
           /\ res[r].status = "ok" => op[e].irp = "ok" /\ res[r].length = e
           /\ res[r].status = "error" => op[e].irp = "error"
           /\ e \in events /\ op[e].irp \in {"ok", "error"} => Announced(r)

Truthful == \A r \in Results : ~Spoiled(r) => Truth(r)

IInv ==
  /\ TypeOK /\ Unissued /\ KernelInv /\ Owned
  /\ Attended /\ Pursued /\ Truthful

LEMMA InitIInv == Init => IInv
<1> SUFFICES ASSUME Init PROVE IInv
  OBVIOUS
<1>1. TypeOK
  BY InitTypeOK
<1>2. /\ \A r \in Results : /\ res[r].event = None /\ res[r].buffer = None
                            /\ res[r].status = "fresh"
                            /\ res[r].ret = "none"
      /\ \A o \in Op : op[o].irp = "none"
      /\ \A t \in Threads : getters[t].on = None /\ getters[t].event = None
      /\ pins = {} /\ events = {} /\ signaled = {} /\ addrs = {} /\ Lost = {}
  BY DEF Init, ResultsInit, Idle, Lost
<1>3. Unissued /\ KernelInv /\ Pursued
  BY <1>2 DEF Unissued, KernelInv, Pursued, Op
<1>4. Owned /\ Attended /\ Truthful
  BY <1>2 DEF Owned, Attended, Truthful, Truth
<1> QED BY <1>1, <1>3, <1>4 DEF IInv

(* A spoiled result stays so, as the owner of a call never changes.        *)
LEMMA SpoiledStands ==
  ASSUME NEW r, crowded \subseteq crowded', Lost \subseteq Lost',
         \A o \in Lost : op'[o].owner = op[o].owner,
         Spoiled(r)
  PROVE  Spoiled(r)'
  BY DEF Spoiled, Lost

LEMMA StartIInv ==
  ASSUME IInv, TypeOK', NEW r \in Results, NEW o \in Op, Starting(r, o)
  PROVE  IInv'
<1>0. /\ o > issued /\ issued \in Nat /\ o \in Nat \ {0}
      /\ \A p \in Op : p > issued' => p > issued /\ p # o
      /\ \A p \in Op : p # o => op'[p] = op[p]
      /\ \A q \in Results : q # r => res'[q] = res[q]
      /\ op'[o].owner = r
  BY DEF Starting, IInv, TypeOK, Op
<1>1. /\ o \notin pins /\ o \notin events /\ o \notin signaled
      /\ o \notin addrs /\ o \notin Lost /\ op[o].irp = "none"
      /\ \A q \in Results : res[q].event # o /\ res[q].buffer # o
  BY <1>0 DEF IInv, Unissued
<1>2. \A q \in Results :
        /\ res[q].event \in Op \cup {None} /\ res[q].buffer \in Op \cup {None}
        /\ res[q].event # None =>
             op'[res[q].event] = op[res[q].event] /\ op[res[q].event].owner = q
        /\ res[q].buffer # None => op'[res[q].buffer] = op[res[q].buffer]
  <2> SUFFICES ASSUME NEW q \in Results
               PROVE  /\ res[q].event \in Op \cup {None}
                      /\ res[q].buffer \in Op \cup {None}
                      /\ res[q].event # None =>
                           /\ op'[res[q].event] = op[res[q].event]
                           /\ op[res[q].event].owner = q
                      /\ res[q].buffer # None =>
                           op'[res[q].buffer] = op[res[q].buffer]
    OBVIOUS
  <2>1. res[q] \in ResultState
    BY DEF IInv, TypeOK
  <2>2. res[q].event \in Op \cup {None} /\ res[q].buffer \in Op \cup {None}
    BY <2>1 DEF ResultState
  <2>3. res[q].event # None => op[res[q].event].owner = q
    BY DEF IInv, Owned
  <2> QED BY <1>0, <1>1, <2>2, <2>3
<1>3. /\ pins' = pins \cup {o} /\ getters' = getters
      /\ events \subseteq events' /\ events' \subseteq events \cup {o}
      /\ signaled \subseteq signaled' /\ signaled' \subseteq signaled \cup {o}
      /\ addrs \subseteq addrs' /\ addrs' \subseteq addrs \cup {o}
      /\ Lost \cup PendingOf(r) \subseteq Lost'
      /\ Lost' \subseteq Lost \cup PendingOf(r) \cup {o}
      /\ crowded \subseteq crowded' /\ crowded' \subseteq crowded \cup {r}
      /\ r \notin crowded' => ~Busy(r)
      /\ res[r].life = "held" /\ res'[r].life = "held"
      /\ res'[r].ret = "none" /\ res'[r].status # "freed"
  BY CrowdsEffect DEF Starting, Throwing, Configuring
<1>4. /\ \A p \in PendingOf(r) : p <= issued
      /\ \A p \in Lost : op'[p].owner = op[p].owner
  <2>1. \A p \in Op : op[p].irp # "none" => ~(p > issued)
    BY DEF IInv, Unissued
  <2>2. \A p \in Lost : p \in Op /\ p # o
    BY <1>1 DEF IInv, TypeOK, Lost
  <2> QED BY <1>0, <2>1, <2>2 DEF PendingOf, Op
<1>5. Unissued'
  <2> SUFFICES ASSUME NEW p \in Op, p > issued'
               PROVE  /\ p \notin pins' /\ p \notin events'
                      /\ p \notin signaled' /\ p \notin addrs'
                      /\ p \notin Lost'
                      /\ op'[p].irp = "none"
                      /\ \A q \in Results :
                           res'[q].event # p /\ res'[q].buffer # p
                      /\ \A t \in Threads : getters'[t].event # p
    BY DEF Unissued
  <2>1. p > issued /\ p # o /\ p \notin PendingOf(r)
    BY <1>0, <1>4 DEF Op
  <2>2. /\ p \notin pins /\ p \notin events /\ p \notin signaled
        /\ p \notin addrs /\ p \notin Lost /\ op[p].irp = "none"
        /\ \A q \in Results : res[q].event # p /\ res[q].buffer # p
        /\ \A t \in Threads : getters[t].event # p
    BY <2>1 DEF IInv, Unissued
  <2>3. res'[r].event # p /\ res'[r].buffer # p
    BY <2>1, <2>2 DEF Starting, Throwing, Configuring
  <2> QED BY <1>0, <1>3, <2>1, <2>2, <2>3
<1>6. KernelInv'
  <2>1. /\ op'[o].irp # "none" => op'[o].owner \in Results
        /\ o \in addrs' => op'[o].irp = "pending"
        /\ o \in signaled' => op'[o].irp \in {"ok", "error"}
    BY <1>0, <1>1 DEF Starting, Throwing, Configuring
  <2> QED BY <1>0, <1>3, <2>1 DEF IInv, KernelInv
<1>7. Owned'
  <2>1. ASSUME NEW q \in Results, q # r
        PROVE  /\ res'[q].buffer # None => /\ res'[q].buffer \in pins'
                                           /\ op'[res'[q].buffer].owner = q
               /\ res'[q].event # None => op'[res'[q].event].owner = q
               /\ res'[q].event \in pins' => res'[q].buffer = res'[q].event
               /\ res'[q].status = "freed" => res'[q].life = "gone"
    BY <1>0, <1>1, <1>2, <1>3, <2>1 DEF IInv, Owned
  <2>2. /\ res'[r].buffer # None => /\ res'[r].buffer \in pins'
                                    /\ op'[res'[r].buffer].owner = r
        /\ res'[r].event # None => op'[res'[r].event].owner = r
        /\ res'[r].event \in pins' => res'[r].buffer = res'[r].event
    <3>1. CASE Throwing(r, o)
      BY <1>1, <1>2, <1>3, <3>1 DEF Throwing, IInv, Owned
    <3>2. CASE Configuring(r, o)
      BY <1>0, <1>3, <3>2 DEF Configuring
    <3> QED BY <3>1, <3>2 DEF Starting
  <2> QED BY <1>3, <2>1, <2>2 DEF Owned
<1>8. Attended'
  <2> SUFFICES ASSUME NEW t \in Threads, NEW q \in Results,
                      getters[t].on = q
               PROVE  /\ res'[q].life = "held"
                      /\ op'[getters[t].event].owner = q
                      /\ q \notin crowded' => Alone(t, q)'
    BY <1>3 DEF Attended
  <2>0. op'[getters[t].event].owner = q
    <3>1. getters[t].event \in Op
      BY OnResult DEF IInv
    <3>2. getters[t].event # o
      BY <1>0, <3>1 DEF IInv, Unissued
    <3> QED BY <1>0, <3>1, <3>2 DEF IInv, Attended
  <2>1. CASE q = r
    BY <1>3, <2>0, <2>1 DEF Busy
  <2>2. CASE q # r
    <3>1. res[q].life = "held" /\ (q \notin crowded => Alone(t, q))
      BY DEF IInv, Attended
    <3>2. ASSUME Alone(t, q) PROVE Alone(t, q)'
      <4>1. res[q].event \in Op
        BY <3>2 DEF Alone, IInv, TypeOK
      <4>2. op'[res[q].event] = op[res[q].event]
        BY <1>0, <1>2, <4>1 DEF Op
      <4> QED BY <1>0, <1>3, <2>2, <3>2, <4>2 DEF Alone
    <3> QED BY <1>0, <1>3, <2>0, <2>2, <3>1, <3>2
  <2> QED BY <2>1, <2>2
<1>9. Pursued'
  <2> SUFFICES ASSUME NEW p \in Op, NEW q \in Results,
                      op'[p].irp = "pending", p \notin Lost',
                      op'[p].owner = q
               PROVE  /\ res'[q].event = p /\ res'[q].life = "held"
                      /\ p \in addrs'
                      /\ q \notin crowded' => p \in pins'
    BY DEF Pursued
  <2>1. CASE p = o
    <3>1. Configuring(r, o) /\ q = r
      BY <1>0, <2>1 DEF Starting, Throwing
    <3> QED BY <1>0, <1>3, <2>1, <3>1 DEF Configuring
  <2>2. CASE p # o
    <3>1. op[p].irp = "pending" /\ op[p].owner = q /\ p \notin Lost
      BY <1>0, <1>3, <2>2
    <3>2. q # r
      BY <1>3, <3>1 DEF PendingOf
    <3>3. /\ res[q].event = p /\ res[q].life = "held" /\ p \in addrs
          /\ q \notin crowded => p \in pins
      BY <3>1 DEF IInv, Pursued
    <3> QED BY <1>0, <1>3, <3>2, <3>3
  <2> QED BY <2>1, <2>2
<1>10. Truthful'
  <2> SUFFICES ASSUME NEW q \in Results, ~Spoiled(q)'
               PROVE  Truth(q)'
    BY DEF Truthful
  <2>1. ~Spoiled(q)
    BY <1>3, <1>4, SpoiledStands
  <2>2. Truth(q)
    BY <2>1 DEF IInv, Truthful
  <2>3. CASE q # r
    <3>1. /\ res'[q] = res[q]
          /\ res[q].event # None => op'[res[q].event] = op[res[q].event]
          /\ res[q].event \in events' => res[q].event \in events
          /\ Announced(q) => Announced(q)'
      BY <1>0, <1>1, <1>2, <1>3, <2>3 DEF Announced
    <3> HIDE DEF Announced
    <3> QED BY <2>2, <3>1 DEF Truth
  <2>4. CASE q = r
    <3>1. Configuring(r, o)
      <4>1. o \notin Lost'
        BY <1>0, <2>4 DEF Spoiled, Lost
      <4> QED BY <4>1 DEF Starting, Throwing
    <3>2. /\ res'[r].event = o
          /\ \/ /\ op'[o].irp = "ok" /\ o \in signaled'
                /\ res'[r].status = "ok" /\ res'[r].length = o
             \/ /\ res'[r].status = "pending"
                /\ op'[o].irp \in {"pending", "none"}
      BY <3>1 DEF Configuring
    <3> QED BY <1>3, <2>4, <3>2 DEF Truth, Announced
  <2> QED BY <2>3, <2>4
<1> QED BY <1>5, <1>6, <1>7, <1>8, <1>9, <1>10 DEF IInv

(* What every step of a thread in Get has in common.                       *)
LEMMA GettingShape ==
  ASSUME IInv, NEW t \in Threads, NEW r \in Results, Getting(t, r)
  PROVE  /\ op' = op /\ addrs' = addrs /\ issued' = issued /\ Lost' = Lost
         /\ \A q \in Results : /\ res'[q].event = res[q].event
                               /\ res'[q].life = res[q].life
                               /\ res'[q].status = res[q].status
                               /\ res'[q].length = res[q].length
                               /\ q # r => res'[q] = res[q]
         /\ \A u \in Threads : u # t => getters'[u] = getters[u]
         /\ crowded \subseteq crowded' /\ crowded' \subseteq crowded \cup {r}
         /\ res[r].life = "held"
         /\ pins' \subseteq pins /\ events' \subseteq events
         /\ signaled' \subseteq signaled
         /\ events \ {res[r].event} \subseteq events'
         /\ \/ pins' = pins /\ res'[r].buffer = res[r].buffer
            \/ pins' = pins \ {res[r].buffer} /\ res'[r].buffer = None
<1>1. res[r].life = "held"
  <2>1. CASE getters[t].on = r
    BY <2>1 DEF IInv, Attended
  <2> QED BY <2>1 DEF Getting, Refusing, Entering, Settling, Returning,
                      Answering
<1>2. crowded \subseteq crowded' /\ crowded' \subseteq crowded \cup {r}
  BY CrowdsEffect DEF Getting, Refusing, Entering, Settling, Returning,
     Answering
<1>3. /\ op' = op /\ addrs' = addrs /\ issued' = issued /\ Lost' = Lost
      /\ \A q \in Results : /\ res'[q].event = res[q].event
                            /\ res'[q].life = res[q].life
                            /\ res'[q].status = res[q].status
                            /\ res'[q].length = res[q].length
                            /\ q # r => res'[q] = res[q]
      /\ \A u \in Threads : u # t => getters'[u] = getters[u]
  BY DEF Getting, GetFrame, Lost
<1>4. /\ pins' \subseteq pins /\ events' \subseteq events
      /\ signaled' \subseteq signaled
      /\ events \ {res[r].event} \subseteq events'
      /\ \/ pins' = pins /\ res'[r].buffer = res[r].buffer
         \/ pins' = pins \ {res[r].buffer} /\ res'[r].buffer = None
  BY DEF Getting, Unanswered, Refusing, Entering, Settling, Returning,
     Answering
<1> QED BY <1>1, <1>2, <1>3, <1>4

LEMMA GetAttended ==
  ASSUME IInv, NEW t \in Threads, NEW r \in Results, Getting(t, r)
  PROVE  Attended'
<1>1. /\ op' = op
      /\ \A q \in Results : /\ res'[q].event = res[q].event
                            /\ res'[q].life = res[q].life
                            /\ q # r => res'[q] = res[q]
      /\ \A u \in Threads : u # t => getters'[u] = getters[u]
      /\ crowded \subseteq crowded'
      /\ res[r].life = "held"
      /\ events \ {res[r].event} \subseteq events'
  BY GettingShape
<1>2. None \notin Results /\ Idle.on = None
  BY DEF Idle
<1> SUFFICES ASSUME NEW u \in Threads, NEW q \in Results,
                    getters'[u].on = q
             PROVE  /\ res'[q].life = "held"
                    /\ op'[getters'[u].event].owner = q
                    /\ q \notin crowded' => Alone(u, q)'
  BY DEF Attended
<1>3. CASE q # r
  <2>1. u # t
    BY <1>2, <1>3 DEF Getting, Refusing, Entering, Settling, Returning,
       Answering, IInv, Attended
  <2>2. /\ getters[u].on = q /\ getters'[u] = getters[u]
        /\ res[q].life = "held" /\ op[getters[u].event].owner = q
        /\ q \notin crowded => Alone(u, q)
    BY <1>1, <2>1 DEF IInv, Attended
  <2>3. ASSUME Alone(u, q) PROVE Alone(u, q)'
    <3>1. res[q].event \in events' /\ res'[q] = res[q]
      <4>1. res[q].event # res[r].event
        <5>1. res[q].event \in Op
          BY <2>3 DEF Alone, IInv, TypeOK
        <5> QED BY <1>3, <5>1 DEF IInv, Owned, Op
      <4> QED BY <1>1, <1>3, <2>3, <4>1 DEF Alone
    <3>2. getters'[t].on # q
      BY <1>2, <1>3, <2>1, <2>3, <2>2 DEF Getting, Refusing, Entering,
         Settling, Returning, Answering, Alone
    <3> QED BY <1>1, <2>2, <2>3, <3>1, <3>2 DEF Alone
  <2> QED BY <1>1, <1>3, <2>2, <2>3
<1>4. CASE q = r
  <2>0. op[getters'[u].event].owner = q
    <3>1. CASE getters'[u] = getters[u]
      BY <3>1 DEF IInv, Attended
    <3>2. CASE Entering(t, r) /\ u = t
      BY <1>4, <3>2 DEF Entering, IInv, TypeOK, Owned, Op
    <3>3. CASE Settling(t, r) /\ u = t
      BY <1>4, <3>3 DEF Settling, IInv, Attended
    <3> QED BY <1>1, <1>2, <1>4, <3>1, <3>2, <3>3
            DEF Getting, Refusing, Returning, Answering
  <2> SUFFICES ASSUME q \notin crowded'
               PROVE  Alone(u, q)'
    BY <1>1, <1>4, <2>0
  <2>1. CASE Refusing(t, r)
    <3>1. getters[u].on = r /\ Busy(r)
      BY <1>4, <2>1 DEF Refusing, Busy
    <3> QED BY <1>4, <2>1, <3>1, CrowdsEffect DEF Refusing
  <2>2. CASE Entering(t, r)
    <3>1. \A v \in Threads : getters[v].on # r
      BY <1>4, <2>2, CrowdsEffect DEF Entering, Busy
    <3>2. u = t /\ \A v \in Threads : getters'[v].on = r => v = t
      BY <1>1, <1>4, <3>1
    <3>3. events' = events
      BY <2>2 DEF Entering, Unanswered
    <3> QED BY <1>4, <2>2, <3>2, <3>3 DEF Entering, Alone
  <2>3. CASE Settling(t, r)
    <3>1. Alone(t, r)
      BY <1>1, <1>4, <2>3 DEF Settling, IInv, Attended
    <3>2. u = t /\ \A v \in Threads : getters'[v].on = r => v = t
      BY <1>1, <1>4, <3>1 DEF Alone
    <3>3. res'[r].noError => op[res[r].event].irp \in {"ok", "error"}
      <4>1. res[r].event \in Op
        BY <3>1 DEF Alone, IInv, TypeOK
      <4> QED BY <2>3, <3>1, <4>1 DEF Settling, Alone, IInv, KernelInv
    <3> QED BY <1>1, <1>4, <2>3, <3>1, <3>2, <3>3
            DEF Settling, Unanswered, Alone
  <2>4. CASE Returning(t, r) \/ Answering(t, r)
    <3>1. Alone(t, r) /\ getters'[t] = Idle
      BY <1>1, <1>4, <2>4 DEF Returning, Answering, IInv, Attended
    <3>2. u # t
      BY <1>2, <1>4, <3>1
    <3> QED BY <1>1, <1>4, <3>1, <3>2 DEF Alone
  <2> QED BY <2>1, <2>2, <2>3, <2>4 DEF Getting
<1> QED BY <1>3, <1>4

LEMMA GetTruthful ==
  ASSUME IInv, NEW t \in Threads, NEW r \in Results, Getting(t, r)
  PROVE  Truthful'
<1>1. /\ op' = op /\ Lost' = Lost
      /\ \A q \in Results : /\ res'[q].event = res[q].event
                            /\ res'[q].status = res[q].status
                            /\ res'[q].length = res[q].length
                            /\ q # r => res'[q] = res[q]
      /\ \A u \in Threads : u # t => getters'[u] = getters[u]
      /\ crowded \subseteq crowded'
      /\ events' \subseteq events
  BY GettingShape
<1> SUFFICES ASSUME NEW q \in Results, ~Spoiled(q)'
             PROVE  Truth(q)'
  BY DEF Truthful
<1>2. ~Spoiled(q)
  BY <1>1, SpoiledStands
<1>3. /\ Truth(q)
      /\ q \notin crowded /\ q \notin crowded'
  BY <1>2 DEF IInv, Truthful, Spoiled
<1>4. CASE q # r
  <2>1. res[q].event \in signaled /\ res[q].event # None
          => res[q].event \in signaled'
    <3>1. CASE Settling(t, r)
      <4>1. op[getters[t].event].owner = r
        BY <3>1 DEF Settling, IInv, Attended
      <4>2. res[q].event # None => op[res[q].event].owner = q
        BY DEF IInv, Owned
      <4> QED BY <1>4, <3>1, <4>1, <4>2 DEF Settling
    <3> QED BY <3>1 DEF Getting, Refusing, Entering, Returning, Answering
  <2>2. getters[t].on # q
    <3>1. None \notin Results /\ Idle.on = None
      BY DEF Idle
    <3> QED BY <1>4, <3>1 DEF Getting, Refusing, Entering, Settling,
               Returning, Answering
  <2>3. res[q].event # None /\ Announced(q) => Announced(q)'
    BY <1>1, <1>4, <2>1, <2>2 DEF Announced
  <2> HIDE DEF Announced
  <2> QED BY <1>1, <1>3, <1>4, <2>3 DEF Truth
<1>5. CASE q = r
  <2>1. CASE Refusing(t, r)
    <3>1. \A u \in Threads : getters[u].on # r
      BY <1>3, <1>5, <2>1, CrowdsEffect DEF Refusing, Busy
    <3>2. Announced(r) => Announced(r)'
      BY <1>1, <2>1, <3>1 DEF Refusing, Announced
    <3> HIDE DEF Announced
    <3> QED BY <1>1, <1>3, <1>5, <2>1, <3>2 DEF Refusing, Truth
  <2>2. CASE Entering(t, r)
    <3>1. Announced(r) => Announced(r)'
      <4>1. \A u \in Threads : getters[u].on # r
        BY <1>3, <1>5, <2>2, CrowdsEffect DEF Entering, Busy
      <4> QED BY <1>1, <2>2, <4>1 DEF Entering, Announced
    <3> HIDE DEF Announced
    <3> QED BY <1>1, <1>3, <1>5, <2>2, <3>1 DEF Entering, Truth
  <2>3. CASE Settling(t, r)
    <3>1. Alone(t, r)
      BY <1>3, <1>5, <2>3 DEF Settling, IInv, Attended
    <3>2. /\ getters[t].event = res[r].event /\ res[r].event \in events
          /\ getters'[t].on = r /\ getters'[t].at = "judged"
          /\ getters[t].at # "judged"
          /\ \A u \in Threads : getters[u].on = r => u = t
      BY <2>3, <3>1 DEF Settling, Alone
    <3>3. Announced(r) => Announced(r)'
      BY <1>1, <2>3, <3>2 DEF Settling, Announced
    <3> HIDE DEF Announced
    <3> QED BY <1>1, <1>3, <1>5, <2>3, <3>3 DEF Settling, Unanswered, Truth
  <2>4. CASE Returning(t, r)
    <3>1. Announced(r) => Announced(r)'
      BY <1>1, <2>4 DEF Returning, Announced
    <3> HIDE DEF Announced
    <3> QED BY <1>1, <1>3, <1>5, <2>4, <3>1 DEF Returning, Unanswered, Truth
  <2>5. CASE Answering(t, r)
    <3>1. Alone(t, r)
      BY <1>3, <1>5, <2>5 DEF Answering, IInv, Attended
    <3>2. res[r].event # None /\ res[r].event \notin events'
      <4>1. res[r].event \in Op
        BY <3>1 DEF Alone, IInv, TypeOK
      <4> QED BY <2>5, <4>1 DEF Answering, Op
    <3>3. res'[r].ret = "true" =>
            op[res[r].event].irp = "ok" /\ res'[r].ioLength = res[r].event
      BY <1>3, <1>5, <2>5, <3>2 DEF Answering, Truth
    <3> HIDE DEF Announced
    <3> QED BY <1>1, <1>3, <1>5, <3>2, <3>3 DEF Truth
  <2> QED BY <2>1, <2>2, <2>3, <2>4, <2>5 DEF Getting
<1> QED BY <1>4, <1>5

LEMMA GetIInv ==
  ASSUME IInv, TypeOK', NEW t \in Threads, NEW r \in Results, Getting(t, r)
  PROVE  IInv'
<1>1. /\ op' = op /\ addrs' = addrs /\ issued' = issued /\ Lost' = Lost
      /\ \A q \in Results : /\ res'[q].event = res[q].event
                            /\ res'[q].life = res[q].life
                            /\ res'[q].status = res[q].status
                            /\ q # r => res'[q] = res[q]
      /\ \A u \in Threads : u # t => getters'[u] = getters[u]
      /\ crowded \subseteq crowded' /\ crowded' \subseteq crowded \cup {r}
      /\ pins' \subseteq pins /\ events' \subseteq events
      /\ signaled' \subseteq signaled
      /\ \/ pins' = pins /\ res'[r].buffer = res[r].buffer
         \/ pins' = pins \ {res[r].buffer} /\ res'[r].buffer = None
  BY GettingShape
<1>2. Unissued'
  <2>1. \A o \in Op : o > issued => getters'[t].event # o
    <3>1. \A o \in Op : o > issued =>
            getters[t].event # o /\ res[r].event # o /\ o # None
      BY DEF IInv, Unissued, Op
    <3>2. \/ getters'[t].event = None \/ getters'[t].event = getters[t].event
          \/ getters'[t].event = res[r].event
      BY DEF Getting, Refusing, Entering, Settling, Returning, Answering, Idle
    <3> QED BY <3>1, <3>2
  <2>2. \A o \in Op : o > issued =>
          \A q \in Results : res'[q].buffer # o
    BY <1>1 DEF IInv, Unissued, Op
  <2> QED BY <1>1, <2>1, <2>2 DEF IInv, Unissued
<1>3. KernelInv'
  BY <1>1 DEF IInv, KernelInv
<1>4. Owned'
  <2> SUFFICES ASSUME NEW q \in Results
               PROVE  /\ res'[q].buffer # None =>
                           /\ res'[q].buffer \in pins'
                           /\ op[res'[q].buffer].owner = q
                      /\ res[q].event # None => op[res[q].event].owner = q
                      /\ res[q].event \in pins' =>
                           res'[q].buffer = res[q].event
                      /\ res[q].status = "freed" => res[q].life = "gone"
    BY <1>1 DEF Owned
  <2>1. /\ res[q].buffer # None =>
             res[q].buffer \in pins /\ op[res[q].buffer].owner = q
        /\ res[q].event # None => op[res[q].event].owner = q
        /\ res[q].event \in pins => res[q].buffer = res[q].event
        /\ res[q].status = "freed" => res[q].life = "gone"
    BY DEF IInv, Owned
  <2>2. None \notin pins
    BY DEF IInv, TypeOK, Op
  <2>3. CASE q = r
    BY <1>1, <2>1, <2>3
  <2>4. CASE q # r
    <3>1. res[q].buffer # None => res[q].buffer # res[r].buffer
      BY <2>4 DEF IInv, Owned
    <3> QED BY <1>1, <2>1, <2>4, <3>1
  <2> QED BY <2>3, <2>4
<1>5. Attended' /\ Truthful'
  BY GetAttended, GetTruthful
<1>6. Pursued'
  <2> SUFFICES ASSUME NEW p \in Op, NEW q \in Results,
                      op[p].irp = "pending", p \notin Lost, op[p].owner = q
               PROVE  /\ res[q].event = p /\ res[q].life = "held"
                      /\ p \in addrs
                      /\ q \notin crowded' => p \in pins'
    BY <1>1 DEF Pursued
  <2>1. /\ res[q].event = p /\ res[q].life = "held" /\ p \in addrs
        /\ q \notin crowded => p \in pins
    BY DEF IInv, Pursued
  <2>2. CASE pins' = pins
    BY <1>1, <2>1, <2>2
  <2>3. CASE Answering(t, r)
    <3>1. CASE q = r /\ q \notin crowded'
      <4>1. Alone(t, r)
        BY <1>1, <2>3, <3>1 DEF Answering, IInv, Attended
      <4> QED BY <2>1, <2>3, <3>1, <4>1 DEF Answering, Alone
    <3>2. CASE q # r
      <4>1. res[r].buffer # p
        BY <3>2 DEF IInv, Owned, Op
      <4> QED BY <1>1, <2>1, <2>3, <4>1 DEF Answering
    <3> QED BY <2>1, <3>1, <3>2
  <2> QED BY <2>2, <2>3 DEF Getting, Unanswered, Refusing, Entering,
                            Settling, Returning
<1> QED BY <1>2, <1>3, <1>4, <1>5, <1>6 DEF IInv

LEMMA DropIInv ==
  ASSUME IInv, TypeOK', NEW r \in Results, Dropping(r)
  PROVE  IInv'
<1>1. /\ op' = op /\ addrs' = addrs /\ issued' = issued
      /\ getters' = getters /\ pins' = pins /\ events' = events
      /\ signaled' = signaled /\ crowded' = crowded
      /\ Lost' = Lost \cup PendingOf(r)
      /\ res[r].life = "held" /\ ~Busy(r) /\ res'[r].life = "dropped"
      /\ \A q \in Results : q # r => res'[q] = res[q]
      /\ \A q \in Results :
           /\ res'[q].event = res[q].event /\ res'[q].buffer = res[q].buffer
           /\ res'[q].status = res[q].status /\ res'[q].length = res[q].length
           /\ res'[q].ioLength = res[q].ioLength /\ res'[q].ret = res[q].ret
           /\ res'[q].noError = res[q].noError
  BY DEF Dropping
<1>2. Unissued' /\ KernelInv'
  BY <1>1 DEF IInv, Unissued, KernelInv, PendingOf
<1>3. Owned'
  BY <1>1 DEF IInv, Owned
<1>4. Attended'
  BY <1>1 DEF IInv, Attended, Alone, Busy
<1>5. Pursued'
  <2> SUFFICES ASSUME NEW p \in Op, NEW q \in Results,
                      op[p].irp = "pending", p \notin Lost',
                      op[p].owner = q
               PROVE  /\ res[q].event = p /\ res'[q].life = "held"
                      /\ p \in addrs
                      /\ q \notin crowded => p \in pins
    BY <1>1 DEF Pursued
  <2>1. q # r /\ p \notin Lost
    BY <1>1 DEF PendingOf
  <2> QED BY <1>1, <2>1 DEF IInv, Pursued
<1>6. Truthful'
  <2> SUFFICES ASSUME NEW q \in Results, ~Spoiled(q)'
               PROVE  Truth(q)'
    BY DEF Truthful
  <2>1. Truth(q)
    BY <1>1, SpoiledStands DEF IInv, Truthful
  <2> QED BY <1>1, <2>1 DEF Truth, Announced
<1> QED BY <1>2, <1>3, <1>4, <1>5, <1>6 DEF IInv

LEMMA CollectIInv ==
  ASSUME IInv, TypeOK', NEW r \in Results, Collecting(r)
  PROVE  IInv'
<1>1. /\ op' = op /\ addrs' = addrs /\ issued' = issued
      /\ getters' = getters /\ events' = events
      /\ signaled' = signaled /\ crowded' = crowded /\ Lost' = Lost
      /\ pins' = pins \ {res[r].buffer} /\ pins' \subseteq pins
      /\ res[r].life = "dropped" /\ res'[r].life = "gone"
      /\ res'[r].buffer = None /\ res'[r].status = "freed"
      /\ \A q \in Results : q # r => res'[q] = res[q]
      /\ \A q \in Results :
           /\ res'[q].event = res[q].event
           /\ res'[q].ioLength = res[q].ioLength /\ res'[q].ret = res[q].ret
           /\ res'[q].noError = res[q].noError
  BY DEF Collecting
<1>2. Unissued' /\ KernelInv'
  BY <1>1 DEF IInv, Unissued, KernelInv, Op
<1>3. Owned'
  <2>1. \A q \in Results : q # r /\ res[q].buffer # None =>
          res[q].buffer # res[r].buffer
    BY DEF IInv, Owned
  <2>2. None \notin pins
    BY DEF IInv, TypeOK, Op
  <2> QED BY <1>1, <2>1, <2>2 DEF IInv, Owned
<1>4. Attended'
  BY <1>1 DEF IInv, Attended, Alone
<1>5. Pursued'
  <2> SUFFICES ASSUME NEW p \in Op, NEW q \in Results,
                      op[p].irp = "pending", p \notin Lost,
                      op[p].owner = q
               PROVE  /\ res[q].event = p /\ res'[q].life = "held"
                      /\ p \in addrs
                      /\ q \notin crowded => p \in pins'
    BY <1>1 DEF Pursued
  <2>1. /\ res[q].event = p /\ res[q].life = "held" /\ p \in addrs
        /\ q \notin crowded => p \in pins
    BY DEF IInv, Pursued
  <2>2. q # r
    BY <1>1, <2>1
  <2>3. res[r].buffer # p
    BY <2>2 DEF IInv, Owned, Op
  <2> QED BY <1>1, <2>1, <2>2, <2>3
<1>6. Truthful'
  <2> SUFFICES ASSUME NEW q \in Results, ~Spoiled(q)'
               PROVE  Truth(q)'
    BY DEF Truthful
  <2>1. Truth(q)
    BY <1>1, SpoiledStands DEF IInv, Truthful
  <2>2. Announced(q) => Announced(q)'
    BY <1>1 DEF Announced
  <2> HIDE DEF Announced
  <2> QED BY <1>1, <2>1, <2>2 DEF Truth
<1> QED BY <1>2, <1>3, <1>4, <1>5, <1>6 DEF IInv

LEMMA EndIInv ==
  ASSUME IInv, TypeOK', NEW o \in Op, NEW r \in Results, Ending(o, r)
  PROVE  IInv'
<1>1. /\ issued' = issued /\ getters' = getters
      /\ pins' = pins /\ events' = events
      /\ crowded' = crowded /\ Lost' = Lost
      /\ addrs' = addrs \ {o} /\ signaled' = signaled \cup {o}
      /\ op[o].irp = "pending" /\ op[o].owner = r
      /\ op'[o].irp \in {"ok", "error"} /\ op'[o].owner = r
      /\ \A p \in Op : p # o => op'[p] = op[p]
      /\ \A q \in Results :
           /\ res'[q].life = res[q].life /\ res'[q].event = res[q].event
           /\ res'[q].buffer = res[q].buffer
           /\ res'[q].ioLength = res[q].ioLength
           /\ res'[q].ret = res[q].ret /\ res'[q].noError = res[q].noError
           /\ q # r \/ res[q].status = "freed" => res'[q] = res[q]
      /\ res[r].status # "freed" =>
           res'[r].status = op'[o].irp /\ res'[r].length = o
  BY DEF Ending
<1>2. /\ \A p \in Op : op'[p].owner = op[p].owner
      /\ Lost \subseteq Op
  BY <1>1 DEF IInv, TypeOK, Lost
<1>3. Unissued' /\ KernelInv'
  BY <1>1 DEF IInv, Unissued, KernelInv
<1>4. Owned'
  <2>1. res'[r].status = "freed" => res[r].status = "freed"
    BY <1>1
  <2>2. \A q \in Results : /\ res[q].buffer # None => res[q].buffer \in Op
                           /\ res[q].event # None => res[q].event \in Op
    <3>1. \A q \in Results : res[q] \in ResultState
      BY DEF IInv, TypeOK
    <3> QED BY <3>1 DEF ResultState
  <2> QED BY <1>1, <1>2, <2>1, <2>2 DEF IInv, Owned
<1>5. Attended'
  <2>1. \A t \in Threads, q \in Results : Alone(t, q) => Alone(t, q)'
    <3>1. \A p \in Op : op[p].irp \in {"ok", "error"} =>
            op'[p].irp \in {"ok", "error"}
      BY <1>1
    <3>2. \A q \in Results : res[q].event \in events => res[q].event \in Op
      BY DEF IInv, TypeOK
    <3> QED BY <1>1, <3>1, <3>2 DEF Alone
  <2>2. \A t \in Threads : getters[t].on \in Results =>
          getters[t].event \in Op
    BY OnResult DEF IInv
  <2> QED BY <1>1, <1>2, <2>1, <2>2 DEF IInv, Attended
<1>6. Pursued'
  BY <1>1, <1>2 DEF IInv, Pursued
<1>7. Truthful'
  <2> SUFFICES ASSUME NEW q \in Results, ~Spoiled(q)'
               PROVE  Truth(q)'
    BY DEF Truthful
  <2>1. Truth(q) /\ ~Spoiled(q)
    BY <1>1, <1>2, SpoiledStands DEF IInv, Truthful
  <2>2. Announced(q) => Announced(q)'
    BY <1>1 DEF Announced
  <2>3. CASE q # r
    <3>1. res[q].event # o
      BY <1>1, <2>3 DEF IInv, Owned, Op
    <3>2. res[q].event # None => op'[res[q].event] = op[res[q].event]
      <4>1. res[q] \in ResultState
        BY DEF IInv, TypeOK
      <4>2. res[q].event \in Op \cup {None}
        BY <4>1 DEF ResultState
      <4> QED BY <1>1, <3>1, <4>2
    <3> HIDE DEF Announced
    <3> QED BY <1>1, <2>1, <2>2, <2>3, <3>2 DEF Truth
  <2>4. CASE q = r
    <3>1. o \notin Lost
      BY <1>1, <2>1, <2>4 DEF Spoiled, Lost
    <3>2. res[r].event = o /\ res[r].life = "held"
      BY <1>1, <3>1 DEF IInv, Pursued
    <3>3. res[r].status # "freed"
      BY <3>2 DEF IInv, Owned
    <3>4. res[r].ret # "true"
      BY <1>1, <2>1, <2>4, <3>2 DEF Truth
    <3> QED BY <1>1, <2>4, <3>2, <3>3, <3>4 DEF Truth, Announced
  <2> QED BY <2>3, <2>4
<1> QED BY <1>3, <1>4, <1>5, <1>6, <1>7 DEF IInv

LEMMA AddressIInv ==
  ASSUME IInv, NEW o \in Op, FinalizeAddress(o)
  PROVE  IInv'
<1>1. TypeOK' /\ Lost' = Lost \cup {o} /\ o \in addrs
  BY AddressEffect DEF IInv, FinalizeAddress
<1>2. /\ res' = res /\ getters' = getters /\ op' = op /\ pins' = pins
      /\ events' = events /\ signaled' = signaled /\ issued' = issued
      /\ crowded' = crowded /\ addrs' = addrs \ {o}
  BY DEF FinalizeAddress
<1>3. Unissued' /\ KernelInv'
  BY <1>1, <1>2 DEF IInv, Unissued, KernelInv
<1>4. Owned' /\ Attended'
  BY <1>2 DEF IInv, Owned, Attended, Alone
<1>5. Pursued'
  BY <1>1, <1>2 DEF IInv, Pursued
<1>6. Truthful'
  <2> SUFFICES ASSUME NEW q \in Results, ~Spoiled(q)'
               PROVE  Truth(q)'
    BY DEF Truthful
  <2>1. Truth(q)
    BY <1>1, <1>2, SpoiledStands DEF IInv, Truthful
  <2> QED BY <1>2, <2>1 DEF Truth, Announced
<1> QED BY <1>1, <1>3, <1>4, <1>5, <1>6 DEF IInv

(* Closing an unreachable event or a Diversion disturbs nothing of this.   *)
LEMMA OtherIInv ==
  ASSUME IInv, \/ \E o \in Op : CollectEvent(o)
               \/ \E d \in Diversions : Close(d)
  PROVE  IInv'
<1>1. TypeOK' /\ Lost' = Lost
  BY OtherTypeOK DEF IInv
<1>2. /\ res' = res /\ getters' = getters /\ op' = op /\ pins' = pins
      /\ signaled' = signaled /\ issued' = issued /\ crowded' = crowded
      /\ addrs' = addrs /\ events' \subseteq events
      /\ \A r \in Results : res[r].life = "held" /\ res[r].event \in events
                              => res[r].event \in events'
  BY DEF CollectEvent, FinalizeEvent, Close, history
<1>3. Unissued' /\ KernelInv' /\ Owned' /\ Pursued'
  BY <1>1, <1>2 DEF IInv, Unissued, KernelInv, Owned, Pursued
<1>4. Attended'
  BY <1>2 DEF IInv, Attended, Alone
<1>5. Truthful'
  <2> SUFFICES ASSUME NEW q \in Results, ~Spoiled(q)'
               PROVE  Truth(q)'
    BY DEF Truthful
  <2>1. Truth(q)
    BY <1>1, <1>2, SpoiledStands DEF IInv, Truthful
  <2>2. Announced(q) => Announced(q)'
    BY <1>2 DEF Announced
  <2> HIDE DEF Announced
  <2> QED BY <1>2, <2>1, <2>2 DEF Truth
<1> QED BY <1>1, <1>3, <1>4, <1>5 DEF IInv

LEMMA NextIInv == IInv /\ [Next]_vars => IInv'
<1> SUFFICES ASSUME IInv, [Next]_vars PROVE IInv'
  OBVIOUS
<1>1. CASE UNCHANGED vars
  BY <1>1 DEF vars, history, IInv, TypeOK, Unissued, KernelInv, Owned,
     Attended, Alone, Pursued, Truthful, Truth, Announced, Spoiled, Lost
<1>2. CASE Next
  <2>1. TypeOK /\ TypeOK'
    BY <1>2, NextTypeOK DEF IInv
  <2>2. CASE \E r \in Results, d \in Diversions : Start(r, d)
    BY <2>1, <2>2, StartEffect, StartIInv
  <2>3. CASE \E t \in Threads : GetAny(t)
    BY <2>1, <2>3, GetEffect, GetIInv
  <2>4. CASE \E r \in Results : Drop(r)
    BY <2>1, <2>4, DropEffect, DropIInv
  <2>5. CASE \E r \in Results : Collect(r)
    BY <2>1, <2>5, CollectEffect, CollectIInv
  <2>6. CASE \E o \in Op : Complete(o) \/ Abort(o)
    <3>1. PICK o \in Op : Complete(o) \/ Abort(o)
      BY <2>6
    <3>2. op[o].owner \in Results
      BY <3>1 DEF Complete, Abort, EndIrp, IInv, KernelInv
    <3> QED BY <2>1, <3>1, <3>2, EndEffect, EndIInv
  <2>7. CASE \E o \in Op : FinalizeAddress(o)
    BY <2>7, AddressIInv
  <2>8. CASE \/ \E o \in Op : CollectEvent(o)
             \/ \E d \in Diversions : Close(d)
    BY <2>8, OtherIInv
  <2> QED BY <1>2, <2>2, <2>3, <2>4, <2>5, <2>6, <2>7, <2>8, NextActions
<1> QED BY <1>1, <1>2

LEMMA Invariance == Spec => []IInv
BY InitIInv, NextIInv, PTL DEF Spec

-----------------------------------------------------------------------------
(* The model's variables keep their types: no call's number, and no length *)
(* the kernel writes, leaves its bounds.                                   *)
THEOREM TypeCorrect == Spec => []TypeOK
<1>1. IInv => TypeOK
  BY DEF IInv
<1> QED BY <1>1, Invariance, PTL

(* Whatever the client does, unless it uses a result on two threads at a   *)
(* time, the memory of a pending I/O is taken from the kernel only by the  *)
(* client letting go of that very call: never by a time-out, by Close, by  *)
(* a failed Reset or by what happens to another result.                    *)
THEOREM MemoryHeld == Spec => []KernelMemoryHeld
<1>1. IInv => KernelMemoryHeld
  <2> SUFFICES ASSUME IInv, NEW o \in Op, op[o].irp = "pending",
                      o \notin forsaken \cup misled,
                      op[o].owner \notin crowded
               PROVE  MemoryOf(o)
    BY DEF KernelMemoryHeld
  <2>1. op[o].owner \in Results /\ o \notin Lost
    BY DEF IInv, KernelInv, Lost
  <2>2. /\ res[op[o].owner].life = "held" /\ o \in addrs /\ o \in pins
    BY <2>1 DEF IInv, Pursued
  <2> QED BY <2>1, <2>2 DEF MemoryOf, IInv, Owned
<1> QED BY <1>1, Invariance, PTL

(* TRUE from Get comes with the success and the length of the call the     *)
(* result is configured for, however the object was used before.           *)
THEOREM AnswersOwn == Spec => []AnswerIsOwn
<1>1. IInv => AnswerIsOwn
  BY DEF IInv, Truthful, Truth, AnswerIsOwn
<1> QED BY <1>1, Invariance, PTL

(* m_buffer never holds a pin that is freed or that another result made.   *)
THEOREM PinsOwned == Spec => []PinOwned
<1>1. IInv => PinOwned
  BY DEF IInv, Owned, PinOwned
<1> QED BY <1>1, Invariance, PTL

(* The current call's pin, while it exists, is the one in m_buffer.        *)
THEOREM PinsReachable == Spec => []CurrentPinReachable
<1>1. IInv => CurrentPinReachable
  BY DEF IInv, Owned, CurrentPinReachable
<1> QED BY <1>1, Invariance, PTL
=============================================================================
