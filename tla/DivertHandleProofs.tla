------------------------- MODULE DivertHandleProofs -------------------------
(***************************************************************************)
(* Theorems about DivertHandle, for any number of Diversions, threads and  *)
(* handle values and every habit of the application.                       *)
(***************************************************************************)
EXTENDS DivertHandle, TLAPS

USE HandleAssumption DEF Invalid, Free, Other, None

-----------------------------------------------------------------------------
(* The inductive invariant.  What a Diversion that was not opened, or not  *)
(* wrapped yet, has: no handle; and only others are ever shut.             *)
LifeInv ==
  /\ \A d \in Diversions :
       /\ life[d] \in {"unopened", "refused"} =>
            handle[d] = Invalid /\ ~IsOpen(d)
       /\ life[d] = "opening" => handle[d] = Invalid
  /\ \A d \in shut : life[d] \in {"held", "dropped"}

(* What each thread knows of the object its call is on.                    *)
ThreadInv ==
  \A t \in AllThreads :
    LET s == thread[t]
    IN  /\ s.at # "idle" => s.on \in Diversions
        /\ s.at = "wrap" => /\ t \in Threads
                            /\ life[s.on] = "opening"
                            /\ s.value \in Values
        /\ s.at \in CloseSteps \cup {"use"} =>
             life[s.on] \in {"held", "dropped"}
        /\ s.at \in {"use", "close"} => handle[s.on] \in {s.value, Invalid}
        /\ s.at \in {"clear", "wipe"} => s.on \in botched \/ ~IsOpen(s.on)

(* Only one call of Open makes a Diversion.                                *)
OpenedOnce ==
  \A t, u \in Threads :
    (/\ thread[t].at = "wrap" /\ thread[u].at = "wrap"
     /\ thread[t].on = thread[u].on) => t = u

(* Windows never gives a Diversion more than one value.                    *)
OneValue ==
  \A v, w \in Values : kernel[v] = kernel[w] /\ kernel[v] \in Diversions
    => v = w

KeptInv ==
  /\ TypeOK /\ LifeInv /\ ThreadInv /\ OpenedOnce /\ OneValue
  /\ NothingLost /\ ShutForGood

(* While no two closes of an object have overlapped: it has one closer at  *)
(* most, m_handle names the object or is about to be cleared, and what a   *)
(* closer has seen of m_handle is still there.                             *)
OneCloser ==
  \A d \in Diversions \ crowded : \A t, u \in AllThreads :
    Closing(t, d) /\ Closing(u, d) => t = u

NamesOwn ==
  \A d \in Diversions : handle[d] # Invalid =>
    \/ kernel[handle[d]] = d
    \/ \E t \in AllThreads : thread[t].on = d /\ thread[t].at = "clear"

SeenStands ==
  \A t \in AllThreads :
    LET s == thread[t]
    IN  /\ s.at \in {"load", "close"} => handle[s.on] # Invalid
        /\ s.at = "close" => s.value = handle[s.on]
        /\ s.at = "wrap" => kernel[s.value] = s.on

OwnInv == KeptInv /\ OneCloser /\ (crowded = {} => NamesOwn /\ SeenStands)

LEMMA InitOwnInv == Init => OwnInv
<1> SUFFICES ASSUME Init PROVE OwnInv
  OBVIOUS
<1> USE DEF Init, Idle
<1>1. TypeOK
  BY DEF TypeOK, ThreadState, CloseSteps, AllThreads
<1>2. LifeInv
  BY DEF LifeInv, IsOpen
<1>3. ThreadInv /\ OpenedOnce
  BY DEF ThreadInv, OpenedOnce, CloseSteps, AllThreads
<1>4. OneValue /\ NothingLost /\ ShutForGood
  BY DEF OneValue, NothingLost, ShutForGood
<1>5. OneCloser /\ NamesOwn /\ SeenStands
  BY DEF OneCloser, Closing, CloseSteps, NamesOwn, SeenStands
<1> QED BY <1>1, <1>2, <1>3, <1>4, <1>5 DEF OwnInv, KeptInv

-----------------------------------------------------------------------------
(* Each step keeps it.                                                     *)
LEMMA OpenRefusedStep ==
  ASSUME OwnInv, NEW t \in Threads, NEW d \in Diversions,
         OpenRefused(t, d)
  PROVE  OwnInv'
<1> USE DEF OwnInv, KeptInv, TypeOK, ThreadState, AllThreads, CloseSteps,
            OpenRefused
<1>1. TypeOK'
  OBVIOUS
<1>2. LifeInv' /\ OneValue' /\ NothingLost' /\ ShutForGood'
  BY DEF LifeInv, OneValue, NothingLost, ShutForGood, ThreadInv, IsOpen
<1>3. ThreadInv'
  BY DEF ThreadInv, LifeInv, NothingLost, IsOpen
<1>4. OpenedOnce'
  BY DEF OpenedOnce, ThreadInv, LifeInv
<1>5. OneCloser' /\ (crowded' = {} => NamesOwn' /\ SeenStands')
  BY DEF OneCloser, Closing, NamesOwn, SeenStands
<1> QED BY <1>1, <1>2, <1>3, <1>4, <1>5

(* The value is one that named nothing, and the Diversion had no handle.    *)
LEMMA OpenNativeStep ==
  ASSUME OwnInv, NEW t \in Threads, NEW d \in Diversions,
         OpenNative(t, d)
  PROVE  OwnInv'
<1> USE DEF OwnInv, KeptInv, TypeOK, ThreadState, AllThreads, CloseSteps,
            OpenNative
<1>1. TypeOK'
  OBVIOUS
<1>2. LifeInv'
  BY DEF LifeInv, ThreadInv, IsOpen
<1>3. ThreadInv'
  BY DEF ThreadInv, LifeInv, NothingLost, IsOpen
<1>4. OpenedOnce' /\ OneValue'
  BY DEF OpenedOnce, OneValue, ThreadInv, LifeInv, IsOpen
<1>5. NothingLost'
  BY DEF NothingLost, LifeInv, ThreadInv, OpenedOnce, IsOpen
<1>6. ShutForGood'
  BY DEF ShutForGood, LifeInv, ThreadInv, IsOpen
<1>7. OneCloser'
  BY DEF OneCloser, Closing
<1>8. crowded' = {} => NamesOwn'
  BY DEF NamesOwn, SeenStands, ThreadInv, LifeInv, IsOpen
<1>9. crowded' = {} => SeenStands'
  BY DEF SeenStands, NamesOwn, OneCloser, Closing, ThreadInv, LifeInv
<1> QED BY <1>1, <1>2, <1>3, <1>4, <1>5, <1>6, <1>7, <1>8, <1>9

(* The steps that change no more than where a thread is: it takes up the   *)
(* call of an open or once open Diversion, and notes m_handle as it is.    *)
LEMMA UseStep ==
  ASSUME OwnInv, NEW t \in Threads, NEW d \in Diversions,
         Use(t, d)
  PROVE  OwnInv'
<1> USE DEF OwnInv, KeptInv, TypeOK, ThreadState, AllThreads, CloseSteps,
            Use
<1>1. TypeOK'
  OBVIOUS
<1>2. LifeInv' /\ OneValue' /\ NothingLost' /\ ShutForGood'
  BY DEF LifeInv, OneValue, NothingLost, ShutForGood, ThreadInv, IsOpen
<1>3. ThreadInv'
  BY DEF ThreadInv, LifeInv, NothingLost, IsOpen
<1>4. OpenedOnce'
  BY DEF OpenedOnce, ThreadInv, LifeInv
<1>5. OneCloser'
  BY DEF OneCloser, Closing
<1>6. crowded' = {} => NamesOwn'
  BY DEF NamesOwn, SeenStands, ThreadInv, LifeInv, IsOpen
<1>7. crowded' = {} => SeenStands'
  BY DEF SeenStands, NamesOwn, OneCloser, Closing, ThreadInv, LifeInv
<1> QED BY <1>1, <1>2, <1>3, <1>4, <1>5, <1>6, <1>7

LEMMA UseNativeStep ==
  ASSUME OwnInv, NEW t \in Threads,
         UseNative(t)
  PROVE  OwnInv'
<1> USE DEF OwnInv, KeptInv, TypeOK, ThreadState, AllThreads, CloseSteps,
            UseNative, Idle
<1>1. TypeOK'
  OBVIOUS
<1>2. LifeInv' /\ OneValue' /\ NothingLost' /\ ShutForGood'
  BY DEF LifeInv, OneValue, NothingLost, ShutForGood, ThreadInv, IsOpen
<1>3. ThreadInv'
  BY DEF ThreadInv, LifeInv, NothingLost, IsOpen
<1>4. OpenedOnce'
  BY DEF OpenedOnce, ThreadInv, LifeInv
<1>5. OneCloser'
  BY DEF OneCloser, Closing
<1>6. crowded' = {} => NamesOwn'
  BY DEF NamesOwn, SeenStands, ThreadInv, LifeInv, IsOpen
<1>7. crowded' = {} => SeenStands'
  BY DEF SeenStands, NamesOwn, OneCloser, Closing, ThreadInv, LifeInv
<1> QED BY <1>1, <1>2, <1>3, <1>4, <1>5, <1>6, <1>7

(* A close that begins beside another makes the object crowded.            *)
LEMMA BeginStep ==
  ASSUME OwnInv, NEW t \in AllThreads, NEW d \in Diversions,
         NEW call \in {"close", "dispose"} \cup Classes,
         life[d] \in {"held", "dropped"}, finalizable' \subseteq finalizable,
         Begin(t, d, call)
  PROVE  OwnInv'
<1> USE DEF OwnInv, KeptInv, TypeOK, ThreadState, AllThreads, CloseSteps,
            Begin, Classes
<1>1. TypeOK'
  OBVIOUS
<1>2. LifeInv' /\ OneValue' /\ NothingLost' /\ ShutForGood'
  BY DEF LifeInv, OneValue, NothingLost, ShutForGood, ThreadInv, IsOpen
<1>3. ThreadInv'
  BY DEF ThreadInv, LifeInv, NothingLost, IsOpen
<1>4. OpenedOnce'
  BY DEF OpenedOnce, ThreadInv, LifeInv
<1>5. OneCloser'
  BY DEF OneCloser, Closing
<1>6. crowded' = {} => NamesOwn'
  BY DEF NamesOwn, SeenStands, ThreadInv, LifeInv, IsOpen
<1>7. crowded' = {} => SeenStands'
  BY DEF SeenStands, NamesOwn, OneCloser, Closing, ThreadInv, LifeInv
<1> QED BY <1>1, <1>2, <1>3, <1>4, <1>5, <1>6, <1>7

LEMMA LookStep ==
  ASSUME OwnInv, NEW t \in AllThreads,
         NEW from, NEW to,
         <<from, to>> \in {<<"enter", "check">>, <<"check", "load">>},
         Look(t, from, to)
  PROVE  OwnInv'
<1> USE DEF OwnInv, KeptInv, TypeOK, ThreadState, AllThreads, CloseSteps,
            Look, Idle
<1>1. TypeOK'
  OBVIOUS
<1>2. LifeInv' /\ OneValue' /\ NothingLost' /\ ShutForGood'
  BY DEF LifeInv, OneValue, NothingLost, ShutForGood, ThreadInv, IsOpen
<1>3. ThreadInv'
  BY DEF ThreadInv, LifeInv, NothingLost, IsOpen
<1>4. OpenedOnce'
  BY DEF OpenedOnce, ThreadInv, LifeInv
<1>5. OneCloser'
  BY DEF OneCloser, Closing
<1>6. crowded' = {} => NamesOwn'
  BY DEF NamesOwn, SeenStands, ThreadInv, LifeInv, IsOpen
<1>7. crowded' = {} => SeenStands'
  BY DEF SeenStands, NamesOwn, OneCloser, Closing, ThreadInv, LifeInv
<1> QED BY <1>1, <1>2, <1>3, <1>4, <1>5, <1>6, <1>7

LEMMA LoadStep ==
  ASSUME OwnInv, NEW t \in AllThreads,
         Load(t)
  PROVE  OwnInv'
<1> USE DEF OwnInv, KeptInv, TypeOK, ThreadState, AllThreads, CloseSteps,
            Load
<1>1. TypeOK'
  OBVIOUS
<1>2. LifeInv' /\ OneValue' /\ NothingLost' /\ ShutForGood'
  BY DEF LifeInv, OneValue, NothingLost, ShutForGood, ThreadInv, IsOpen
<1>3. ThreadInv'
  BY DEF ThreadInv, LifeInv, NothingLost, IsOpen
<1>4. OpenedOnce'
  BY DEF OpenedOnce, ThreadInv, LifeInv
<1>5. OneCloser'
  BY DEF OneCloser, Closing
<1>6. crowded' = {} => NamesOwn'
  BY DEF NamesOwn, SeenStands, ThreadInv, LifeInv, IsOpen
<1>7. crowded' = {} => SeenStands'
  BY DEF SeenStands, NamesOwn, OneCloser, Closing, ThreadInv, LifeInv
<1> QED BY <1>1, <1>2, <1>3, <1>4, <1>5, <1>6, <1>7

(* The application and the rest of the process leave what threads know.    *)
LEMMA DropStep ==
  ASSUME OwnInv, NEW d \in Diversions,
         Drop(d)
  PROVE  OwnInv'
<1> USE DEF OwnInv, KeptInv, TypeOK, ThreadState, AllThreads, CloseSteps,
            Drop
<1>1. TypeOK'
  OBVIOUS
<1>2. LifeInv' /\ OneValue' /\ NothingLost' /\ ShutForGood'
  BY DEF LifeInv, OneValue, NothingLost, ShutForGood, ThreadInv, IsOpen
<1>3. ThreadInv'
  BY DEF ThreadInv, LifeInv, NothingLost, IsOpen
<1>4. OpenedOnce'
  BY DEF OpenedOnce, ThreadInv, LifeInv
<1>5. OneCloser' /\ (crowded' = {} => NamesOwn' /\ SeenStands')
  BY DEF OneCloser, Closing, NamesOwn, SeenStands
<1> QED BY <1>1, <1>2, <1>3, <1>4, <1>5

LEMMA ElsewhereStep ==
  ASSUME OwnInv, NEW v \in Values,
         Elsewhere(v)
  PROVE  OwnInv'
<1> USE DEF OwnInv, KeptInv, TypeOK, ThreadState, AllThreads, CloseSteps,
            Elsewhere
<1>1. TypeOK'
  OBVIOUS
<1>2. LifeInv' /\ OneValue' /\ NothingLost' /\ ShutForGood'
  BY DEF LifeInv, OneValue, NothingLost, ShutForGood, ThreadInv, IsOpen
<1>3. ThreadInv'
  BY DEF ThreadInv, LifeInv, NothingLost, IsOpen
<1>4. OpenedOnce'
  BY DEF OpenedOnce, ThreadInv, LifeInv
<1>5. OneCloser'
  BY DEF OneCloser, Closing
<1>6. crowded' = {} => NamesOwn'
  BY DEF NamesOwn, SeenStands, ThreadInv, LifeInv, IsOpen
<1>7. crowded' = {} => SeenStands'
  BY DEF SeenStands, NamesOwn, OneCloser, Closing, ThreadInv, LifeInv
<1> QED BY <1>1, <1>2, <1>3, <1>4, <1>5, <1>6, <1>7

(* The wrapper is of a Diversion that no other call is on.                 *)
LEMMA OpenWrapStep ==
  ASSUME OwnInv, NEW t \in Threads, OpenWrap(t)
  PROVE  OwnInv'
<1> USE DEF OwnInv, KeptInv, TypeOK, ThreadState, AllThreads, CloseSteps,
            OpenWrap, Idle
<1>1. /\ thread[t].on \in Diversions /\ thread[t].value \in Values
      /\ life[thread[t].on] = "opening"
      /\ \A u \in AllThreads \ {t} :
           thread[u].at # "idle" => thread[u].on # thread[t].on
  BY DEF ThreadInv, OpenedOnce
<1>2. TypeOK'
  <2>1. finalizable' \subseteq Classes \X Diversions
    BY <1>1
  <2>2. handle' \in [Diversions -> Values \cup {Invalid}]
    BY <1>1
  <2>3. thread' \in [AllThreads -> ThreadState]
    OBVIOUS
  <2> QED BY <1>1, <2>1, <2>2, <2>3
<1>3. LifeInv'
  BY <1>1 DEF LifeInv, IsOpen
<1>4. ThreadInv'
  BY <1>1 DEF ThreadInv, IsOpen
<1>5. OpenedOnce' /\ OneValue'
  BY DEF OpenedOnce, OneValue
<1>6. NothingLost'
  BY <1>1 DEF NothingLost, LifeInv
<1>7. ShutForGood'
  BY <1>1 DEF ShutForGood, LifeInv, IsOpen
<1>8. OneCloser'
  BY DEF OneCloser, Closing
<1>9. crowded' = {} => NamesOwn' /\ SeenStands'
  BY <1>1 DEF NamesOwn, SeenStands
<1> QED BY <1>2, <1>3, <1>4, <1>5, <1>6, <1>7, <1>8, <1>9

(* Where a thread is after the native close.                               *)
LEMMA AfterNativeType ==
  ASSUME TypeOK, NEW t \in AllThreads, NEW success \in BOOLEAN
  PROVE  /\ AfterNative(t, success) \in ThreadState
         /\ \/ AfterNative(t, success) = Idle /\ ~success
            \/ /\ AfterNative(t, success).on = thread[t].on
               /\ \/ AfterNative(t, success).at = "clear" /\ success
                  \/ /\ AfterNative(t, success).at = "wipe"
                     /\ ~success /\ thread[t].call # "close"
<1>1. thread[t] \in ThreadState
  BY DEF TypeOK
<1>2. CASE success
  BY <1>1, <1>2 DEF AfterNative, ThreadState, CloseSteps
<1>3. CASE ~success /\ thread[t].call = "close"
  BY <1>3 DEF AfterNative, ThreadState, Idle
<1>4. CASE ~success /\ thread[t].call # "close"
  BY <1>1, <1>4 DEF AfterNative, ThreadState, CloseSteps
<1> QED BY <1>2, <1>3, <1>4

(* A native close that succeeds closes the object, if it was open at all:  *)
(* m_handle is that value still, or nothing is left to close.              *)
LEMMA CloseNativeStep ==
  ASSUME OwnInv, NEW t \in AllThreads, CloseNative(t)
  PROVE  OwnInv'
<1> USE DEF OwnInv, KeptInv, TypeOK, ThreadState, AllThreads, CloseSteps,
            Idle
<1> DEFINE d == thread[t].on
           v == thread[t].value
           s == thread'[t]
<1>1. /\ d \in Diversions /\ v \in Values \cup {Invalid}
      /\ thread[t].at = "close"
      /\ UNCHANGED <<handle, life, finalizable, strings, shut, crowded>>
  BY DEF CloseNative, ThreadInv
<1>2. PICK success \in BOOLEAN :
        /\ thread' = [thread EXCEPT ![t] = AfterNative(t, success)]
        /\ kernel' = IF success /\ v # Invalid
                       THEN [kernel EXCEPT ![v] = Free] ELSE kernel
        /\ v # Invalid /\ success => kernel[v] # Free
        /\ botched' = IF /\ ~success /\ thread[t].call # "close"
                         /\ (IF v = Invalid THEN Invalid ELSE kernel[v]) = d
                        THEN botched \cup {d} ELSE botched
  BY <1>1 DEF CloseNative
<1>3. /\ thread' \in [AllThreads -> ThreadState]
      /\ \A u \in AllThreads \ {t} : thread'[u] = thread[u]
      /\ \/ s = Idle /\ ~success
         \/ s.on = d /\ s.at = "clear" /\ success
         \/ s.on = d /\ s.at = "wipe" /\ ~success /\ thread[t].call # "close"
  <2>1. thread'[t] = AfterNative(t, success)
    BY <1>2
  <2>2. AfterNative(t, success) \in ThreadState
    BY AfterNativeType
  <2> QED BY <1>2, <2>1, <2>2, AfterNativeType
<1>4. /\ kernel' \in [Values -> Diversions \cup {Free, Other}]
      /\ \A w \in Values : kernel'[w] \in {kernel[w], Free}
      /\ success /\ v \in Values =>
           kernel'[v] = Free /\ \A w \in Values \ {v} : kernel'[w] = kernel[w]
      /\ ~success \/ v = Invalid => kernel' = kernel
  BY <1>1, <1>2
<1>5. botched \subseteq botched' /\ botched' \subseteq Diversions
  BY <1>1, <1>2
<1>6. TypeOK'
  BY <1>1, <1>3, <1>4, <1>5
<1>7. ASSUME s.at \in {"clear", "wipe"}
      PROVE  d \in botched' \/ \A w \in Values : kernel'[w] # d
  <2> SUFFICES ASSUME NEW w \in Values, kernel[w] = d, kernel'[w] = d,
                      d \notin botched'
               PROVE  FALSE
    BY <1>4, <1>1
  <2>1. life[d] \in {"held", "dropped"} /\ handle[d] \in {v, Invalid}
    BY <1>1 DEF ThreadInv
  <2>2. handle[d] = w
    BY <1>1, <1>5, <2>1 DEF NothingLost, ThreadInv
  <2>3. v = w /\ ~success
    BY <1>1, <1>4, <2>1, <2>2
  <2>4. thread[t].call # "close"
    BY <1>3, <1>7, <2>3
  <2>5. v # Invalid
    BY <2>3
  <2> QED BY <1>2, <2>3, <2>4, <2>5
<1>8. LifeInv' /\ ShutForGood'
  BY <1>1, <1>4, <1>5 DEF LifeInv, ShutForGood, IsOpen
<1>9. ThreadInv'
  <2> SUFFICES ASSUME NEW u \in AllThreads PROVE ThreadInv!(u)'
    BY DEF ThreadInv
  <2>1. CASE u = t
    BY <1>1, <1>3, <1>7, <2>1 DEF ThreadInv, IsOpen
  <2>2. CASE u # t
    BY <1>1, <1>3, <1>4, <1>5, <2>2 DEF ThreadInv, IsOpen
  <2> QED BY <2>1, <2>2
<1>10. OpenedOnce' /\ OneValue'
  BY <1>3, <1>4 DEF OpenedOnce, OneValue
<1>11. NothingLost'
  BY <1>1, <1>3, <1>4, <1>5 DEF NothingLost
<1>12. OneCloser'
  BY <1>1, <1>3, <1>4 DEF OneCloser, Closing
<1>13. ASSUME crowded' = {} PROVE NamesOwn' /\ SeenStands'
  <2>1. v = handle[d] /\ v \in Values /\ kernel[v] = d
    BY <1>1, <1>13 DEF SeenStands, NamesOwn, OneCloser, Closing
  <2>2. NamesOwn'
    BY <1>1, <1>3, <1>4, <1>13, <2>1 DEF NamesOwn
  <2>3. SeenStands'
    <3>1. \A u \in Threads : u # t /\ thread[u].at = "wrap" =>
            thread[u].value # v
      BY <1>1, <1>13, <2>1 DEF SeenStands, ThreadInv
    <3>2. s.at # "wrap" /\ s.at \notin {"load", "close"}
      BY <1>3
    <3> QED BY <1>1, <1>3, <1>4, <1>13, <2>1, <3>1, <3>2
            DEF SeenStands, ThreadInv, LifeInv
  <2> QED BY <2>2, <2>3
<1> QED BY <1>6, <1>8, <1>9, <1>10, <1>11, <1>12, <1>13

(* m_handle becomes invalid only when the object is closed already.        *)
LEMMA ClearStep ==
  ASSUME OwnInv, NEW t \in AllThreads, Clear(t)
  PROVE  OwnInv'
<1> USE DEF OwnInv, KeptInv, TypeOK, ThreadState, AllThreads, CloseSteps,
            Clear, Idle
<1>1. thread[t].on \in Diversions
  BY DEF ThreadInv
<1>2. TypeOK'
  <2>1. thread' \in [AllThreads -> ThreadState]
    OBVIOUS
  <2>2. /\ handle' \in [Diversions -> Values \cup {Invalid}]
        /\ shut' \subseteq Diversions
        /\ finalizable' \subseteq finalizable
    BY <1>1
  <2> QED BY <2>1, <2>2
<1>3. LifeInv'
  BY <1>1 DEF LifeInv, ThreadInv, IsOpen
<1>4. ThreadInv'
  BY <1>1 DEF ThreadInv, LifeInv, NothingLost, IsOpen
<1>5. OpenedOnce' /\ OneValue'
  BY <1>1 DEF OpenedOnce, OneValue, ThreadInv, LifeInv
<1>6. NothingLost'
  BY <1>1 DEF NothingLost, LifeInv, ThreadInv, OpenedOnce, IsOpen
<1>7. ShutForGood'
  BY <1>1 DEF ShutForGood, LifeInv, ThreadInv, IsOpen
<1>8. OneCloser'
  BY <1>1 DEF OneCloser, Closing
<1>9. crowded' = {} => NamesOwn'
  BY <1>1 DEF NamesOwn, SeenStands, ThreadInv, LifeInv, IsOpen
<1>10. crowded' = {} => SeenStands'
  BY <1>1 DEF SeenStands, NamesOwn, OneCloser, Closing, ThreadInv, LifeInv
<1> QED BY <1>2, <1>3, <1>4, <1>5, <1>6, <1>7, <1>8, <1>9, <1>10

LEMMA WipeStep ==
  ASSUME OwnInv, NEW t \in AllThreads, Wipe(t)
  PROVE  OwnInv'
<1> USE DEF OwnInv, KeptInv, TypeOK, ThreadState, AllThreads, CloseSteps,
            Wipe, Idle
<1>1. thread[t].on \in Diversions
  BY DEF ThreadInv
<1>2. TypeOK'
  <2>1. thread' \in [AllThreads -> ThreadState]
    OBVIOUS
  <2>2. /\ handle' \in [Diversions -> Values \cup {Invalid}]
        /\ shut' \subseteq Diversions
        /\ finalizable' \subseteq finalizable
    BY <1>1
  <2> QED BY <2>1, <2>2
<1>3. LifeInv'
  BY <1>1 DEF LifeInv, ThreadInv, IsOpen
<1>4. ThreadInv'
  BY <1>1 DEF ThreadInv, LifeInv, NothingLost, IsOpen
<1>5. OpenedOnce' /\ OneValue'
  BY <1>1 DEF OpenedOnce, OneValue, ThreadInv, LifeInv
<1>6. NothingLost'
  BY <1>1 DEF NothingLost, LifeInv, ThreadInv, OpenedOnce, IsOpen
<1>7. ShutForGood'
  BY <1>1 DEF ShutForGood, LifeInv, ThreadInv, IsOpen
<1>8. OneCloser'
  BY <1>1 DEF OneCloser, Closing
<1>9. crowded' = {} => NamesOwn'
  BY <1>1 DEF NamesOwn, SeenStands, ThreadInv, LifeInv, IsOpen
<1>10. crowded' = {} => SeenStands'
  BY <1>1 DEF SeenStands, NamesOwn, OneCloser, Closing, ThreadInv, LifeInv
<1> QED BY <1>2, <1>3, <1>4, <1>5, <1>6, <1>7, <1>8, <1>9, <1>10

-----------------------------------------------------------------------------
LEMMA CloseStepKeeps ==
  ASSUME OwnInv, NEW t \in AllThreads, CloseStep(t)
  PROVE  OwnInv'
BY LookStep, LoadStep, CloseNativeStep, ClearStep, WipeStep
   DEF CloseStep, Enter, Check

LEMMA NextOwnInv == OwnInv /\ [Next]_vars => OwnInv'
<1> SUFFICES ASSUME OwnInv, [Next]_vars PROVE OwnInv'
  OBVIOUS
<1>1. CASE UNCHANGED vars
  BY <1>1 DEF vars, OwnInv, KeptInv, TypeOK, LifeInv, ThreadInv, OpenedOnce,
              OneValue, NothingLost, ShutForGood, OneCloser, NamesOwn, SeenStands,
              IsOpen, Closing
<1>2. ASSUME NEW t \in Threads, NEW d \in Diversions, BeginClose(t, d)
      PROVE  OwnInv'
  BY <1>2, BeginStep DEF BeginClose, AllThreads
<1>3. ASSUME NEW c \in Classes, NEW d \in Diversions, Finalize(c, d)
      PROVE  OwnInv'
  BY <1>3, BeginStep DEF Finalize, CanFinalize, AllThreads
<1>4. CASE Next
  BY <1>2, <1>3, <1>4, OpenRefusedStep, OpenNativeStep, OpenWrapStep, UseStep,
     UseNativeStep, CloseStepKeeps, DropStep, ElsewhereStep DEF Next
<1> QED BY <1>1, <1>4

LEMMA OwnInvHolds == Spec => []OwnInv
BY InitOwnInv, NextOwnInv, PTL DEF Spec

(* Every component of the state keeps its type.                            *)
THEOREM TypeCorrect == Spec => []TypeOK
<1>1. OwnInv => TypeOK
  BY DEF OwnInv, KeptInv
<1> QED BY <1>1, OwnInvHolds, PTL

(* However calls of Open, Close, Dispose and the finalizers interleave and *)
(* overlap, and whichever native closes fail, the driver's object stays    *)
(* reachable through m_handle as long as it is open, unless the native     *)
(* close failed in a destructor or finalizer, the only ones that give an   *)
(* open handle up; and only a refused Open leaves a filter string behind.  *)
THEOREM HandlesKept == Spec => []NothingLost
<1>1. OwnInv => NothingLost
  BY DEF OwnInv, KeptInv
<1> QED BY <1>1, OwnInvHolds, PTL

(* After a Close that answered TRUE, or a destructor, m_handle is invalid  *)
(* for good and the driver's object closed, overlapping closes or not,     *)
(* unless it was in a destructor or finalizer that the native close failed.*)
THEOREM ShutStaysShut == Spec => []ShutForGood
<1>1. OwnInv => ShutForGood
  BY DEF OwnInv, KeptInv
<1> QED BY <1>1, OwnInvHolds, PTL

(* As long as no two closes of one object overlap, no close ever closes a  *)
(* handle that belongs to somebody else.                                   *)
THEOREM OwnClosed == Spec => []ClosesOwn
<1>1. ASSUME OwnInv PROVE ClosesOwn
  <2> SUFFICES ASSUME NEW t \in AllThreads, ClosesForeign(t), crowded = {}
               PROVE  FALSE
    BY <1>1 DEF ClosesOwn, OwnInv, KeptInv, TypeOK
  <2>1. thread[t].on \in Diversions
    BY <1>1 DEF OwnInv, KeptInv, ThreadInv, ClosesForeign
  <2>2. \A u \in AllThreads :
          ~(thread[u].on = thread[t].on /\ thread[u].at = "clear")
    BY <1>1, <2>1 DEF OwnInv, OneCloser, Closing, CloseSteps, ClosesForeign
  <2> QED BY <1>1, <2>1, <2>2 DEF OwnInv, NamesOwn, SeenStands, ClosesForeign
<1> QED BY <1>1, OwnInvHolds, PTL

(* A call that has read m_handle uses it on somebody else's object only    *)
(* when the handle was closed since, or closes overlapped.                 *)
THEOREM OwnReached == Spec => []ReachesOwn
<1>1. ASSUME OwnInv PROVE ReachesOwn
  BY <1>1 DEF ReachesOwn, OwnInv, KeptInv, TypeOK, ThreadInv, NamesOwn,
              AllThreads, ThreadState, CloseSteps
<1> QED BY <1>1, OwnInvHolds, PTL

-----------------------------------------------------------------------------
(* An application without habits: what it has let go of none of its calls  *)
(* is on, and the finalizer thread only closes what was let go, so that no *)
(* two closes of an object ever overlap.                                   *)
Alone ==
  /\ crowded = {}
  /\ \A d \in Diversions :
       /\ life[d] = "dropped" => \A t \in Threads : thread[t].on # d
       /\ Closing(Finalizer, d) => life[d] = "dropped"

AloneInv == OwnInv /\ Alone

LEMMA NextAlone ==
  ASSUME Habits = {}, AloneInv, [Next]_vars
  PROVE  Alone'
<1> USE DEF AloneInv, Alone, AllThreads, CloseSteps
<1> USE DEF OwnInv, KeptInv, TypeOK, ThreadState, Idle
<1>1. CASE UNCHANGED vars
  BY <1>1 DEF vars, Closing
<1>2. ASSUME NEW t \in Threads, NEW d \in Diversions,
             OpenRefused(t, d) \/ OpenNative(t, d) \/ Use(t, d)
      PROVE  Alone'
  BY <1>2 DEF OpenRefused, OpenNative, Use, Closing, ThreadInv
<1>3. ASSUME NEW t \in Threads, NEW d \in Diversions, BeginClose(t, d)
      PROVE  Alone'
  <2>1. PICK call \in {"close", "dispose"} : Begin(t, d, call)
    BY <1>3 DEF BeginClose
  <2>2. \A u \in AllThreads : ~Closing(u, d)
    BY <1>3 DEF BeginClose
  <2> QED BY <1>3, <2>1, <2>2 DEF BeginClose, Begin, Closing
<1>4. ASSUME NEW t \in Threads, OpenWrap(t) \/ UseNative(t)
      PROVE  Alone'
  BY <1>4 DEF OpenWrap, UseNative, Closing, ThreadInv
<1>5. ASSUME NEW t \in AllThreads, CloseStep(t)
      PROVE  Alone'
  <2>1. PICK s \in ThreadState :
          /\ UNCHANGED <<crowded, life>>
          /\ thread' = [thread EXCEPT ![t] = s]
          /\ thread[t].at \in CloseSteps
          /\ s.on \in {thread[t].on, None}
    <3>1. CASE Enter(t) \/ Check(t)
      BY <3>1 DEF Enter, Check, Look
    <3>2. CASE Load(t)
      <4> DEFINE s == [thread[t] EXCEPT !.at = "close",
                                        !.value = handle[thread[t].on]]
      <4>1. handle[thread[t].on] \in Values \cup {Invalid}
        BY <3>2 DEF Load, ThreadInv
      <4>2. s \in ThreadState /\ s.on = thread[t].on
        <5>1. thread[t] \in ThreadState
          BY DEF AllThreads
        <5> QED BY <4>1, <5>1 DEF ThreadState
      <4>3. thread' = [thread EXCEPT ![t] = s]
        BY <3>2 DEF Load
      <4> HIDE DEF s
      <4> QED BY <3>2, <4>2, <4>3 DEF Load
    <3>3. CASE CloseNative(t)
      <4>1. PICK success \in BOOLEAN :
              thread' = [thread EXCEPT ![t] = AfterNative(t, success)]
        BY <3>3 DEF CloseNative
      <4>2. /\ AfterNative(t, success) \in ThreadState
            /\ AfterNative(t, success).on \in {thread[t].on, None}
        BY AfterNativeType
      <4>3. thread[t].at \in CloseSteps /\ UNCHANGED <<crowded, life>>
        BY <3>3 DEF CloseNative
      <4> QED BY <4>1, <4>2, <4>3
    <3>4. CASE Clear(t) \/ Wipe(t)
      BY <3>4 DEF Clear, Wipe
    <3> QED BY <1>5, <3>1, <3>2, <3>3, <3>4 DEF CloseStep
  <2> QED BY <2>1 DEF Closing
<1>6. ASSUME NEW c \in Classes, NEW d \in Diversions, Finalize(c, d)
      PROVE  Alone'
  <2>1. \A u \in AllThreads : ~Closing(u, d)
    BY <1>6 DEF Finalize, CanFinalize, Begin, Closing
  <2> QED BY <1>6, <2>1 DEF Finalize, CanFinalize, Begin, Closing
<1>7. ASSUME NEW d \in Diversions, Drop(d)
      PROVE  Alone'
  BY <1>7 DEF Drop, Closing
<1>8. ASSUME NEW v \in Values, Elsewhere(v)
      PROVE  Alone'
  BY <1>8 DEF Elsewhere, Closing
<1> QED BY <1>1, <1>2, <1>3, <1>4, <1>5, <1>6, <1>7, <1>8 DEF Next

(* With an application that closes a Diversion on one thread at a time and *)
(* lets go of it after its calls, no two closes of an object ever overlap, *)
(* those of the finalizer thread included.                                 *)
THEOREM NeverCrowded == ASSUME Habits = {} PROVE Spec => [](crowded = {})
<1>1. Init => AloneInv
  BY InitOwnInv DEF AloneInv, Alone, Init, Closing, Idle, CloseSteps, AllThreads
<1>2. AloneInv /\ [Next]_vars => AloneInv'
  BY NextOwnInv, NextAlone DEF AloneInv
<1>3. AloneInv => crowded = {}
  BY DEF AloneInv, Alone
<1> QED BY <1>1, <1>2, <1>3, PTL DEF Spec

-----------------------------------------------------------------------------
(* The mapping onto OwnedHandle.  A step shows there when it changes what  *)
(* the values name, whether a Diversion was opened, what a closer is about *)
(* to close, what is reported, given up or which closes have overlapped.   *)
LEMMA PhaseSame ==
  ASSUME NEW d \in Diversions, IsOpen(d)' <=> IsOpen(d),
         life'[d] = life[d] \/ (Opened(d) /\ Opened(d)')
  PROVE  Phase(d)' = Phase(d)
<1>1. CASE life[d] = "unopened"
  BY <1>1 DEF Phase, Opened
<1>2. CASE life[d] = "refused"
  BY <1>2 DEF Phase, Opened
<1>3. CASE Opened(d) /\ IsOpen(d)
  BY <1>3 DEF Phase, Opened
<1>4. CASE Opened(d) /\ ~IsOpen(d)
  BY <1>4 DEF Phase, Opened
<1> QED BY <1>1, <1>2, <1>3, <1>4 DEF Opened

(* Only a thread that gets to the native close, or leaves it, changes what *)
(* closers are aimed at.                                                   *)
Steady(u) ==
  \/ thread'[u] = thread[u]
  \/ thread[u].at # "close" /\ thread'[u].at # "close"

LEMMA AimedKept ==
  ASSUME \A u \in AllThreads : Steady(u)
  PROVE  \A d \in Diversions : Aimed(d)' = Aimed(d)
BY DEF Aimed, Steady

LEMMA SteadySteps ==
  ASSUME OwnInv, NEW t \in AllThreads, NEW d \in Diversions,
         \/ t \in Threads /\ (OpenNative(t, d) \/ Use(t, d))
         \/ \E call : Begin(t, d, call)
         \/ OpenWrap(t) \/ UseNative(t) \/ Enter(t) \/ Check(t)
         \/ Clear(t) \/ Wipe(t)
  PROVE  \A u \in AllThreads : Steady(u)
<1> USE DEF OwnInv, KeptInv, TypeOK, Steady, Idle
<1>1. CASE OpenNative(t, d) \/ Use(t, d)
  BY <1>1 DEF OpenNative, Use
<1>2. CASE \E call : Begin(t, d, call)
  BY <1>2 DEF Begin
<1>3. CASE OpenWrap(t) \/ UseNative(t)
  BY <1>3 DEF OpenWrap, UseNative
<1>4. CASE Enter(t) \/ Check(t)
  BY <1>4 DEF Enter, Check, Look, ThreadState
<1>5. CASE Clear(t) \/ Wipe(t)
  BY <1>5 DEF Clear, Wipe, ThreadState
<1> QED BY <1>1, <1>2, <1>3, <1>4, <1>5

LEMMA Hidden ==
  ASSUME UNCHANGED <<kernel, shut, crowded, botched>>,
         \A d \in Diversions :
           life'[d] = life[d] \/ (Opened(d) /\ Opened(d)'),
         \A u \in AllThreads : Steady(u)
  PROVE  UNCHANGED Promise!vars
<1>1. \A d \in Diversions : Phase(d)' = Phase(d)
  BY PhaseSame DEF IsOpen
<1>2. \A d \in Diversions : Aimed(d)' = Aimed(d)
  BY AimedKept
<1> QED BY <1>1, <1>2 DEF Promise!vars

LEMMA OpenMaps ==
  ASSUME OwnInv, NEW t \in Threads, NEW d \in Diversions,
         OpenRefused(t, d) \/ OpenNative(t, d)
  PROVE  Promise!Next
<1> USE DEF OwnInv, KeptInv, TypeOK
<1>1. Phase(d) = "new"
  BY DEF OpenRefused, OpenNative, Phase, Opened
<1>2. \A e \in Diversions : Aimed(e)' = Aimed(e)
  <2>1. \A u \in AllThreads : Steady(u)
    BY SteadySteps DEF OpenRefused, Steady, AllThreads
  <2> QED BY <2>1, AimedKept
<1>3. CASE OpenRefused(t, d)
  <2>1. Phase(d)' = "refused"
    BY <1>3 DEF OpenRefused, Phase, Opened
  <2>2. \A e \in Diversions : e # d => Phase(e)' = Phase(e)
    BY <1>3, PhaseSame DEF OpenRefused, IsOpen
  <2>3. Promise!Refuse(d)
    BY <1>1, <1>2, <1>3, <2>1, <2>2 DEF OpenRefused, Promise!Refuse
  <2> QED BY <2>3 DEF Promise!Next
<1>4. CASE OpenNative(t, d)
  <2>1. PICK v \in Values :
          kernel[v] = Free /\ kernel' = [kernel EXCEPT ![v] = d]
    BY <1>4 DEF OpenNative
  <2>2. /\ life' = [life EXCEPT ![d] = "opening"]
        /\ UNCHANGED <<shut, crowded, botched>>
    BY <1>4 DEF OpenNative
  <2>3. kernel'[v] = d /\ life'[d] = "opening"
    BY <2>1, <2>2
  <2>4. Phase(d)' = "open"
    BY <2>3 DEF Phase, IsOpen, Opened
  <2>5. ASSUME NEW e \in Diversions, e # d PROVE Phase(e)' = Phase(e)
    <3>1. IsOpen(e)' <=> IsOpen(e)
      BY <2>1, <2>5 DEF IsOpen
    <3>2. life'[e] = life[e]
      BY <2>2, <2>5
    <3> QED BY <3>1, <3>2, PhaseSame
  <2>6. Promise!Open(d, v)
    BY <1>1, <1>2, <2>1, <2>2, <2>4, <2>5 DEF Promise!Open
  <2> QED BY <2>6 DEF Promise!Next
<1> QED BY <1>3, <1>4

(* A closer reads the value that names its object, unless closes have      *)
(* overlapped.                                                             *)
LEMMA LoadMaps ==
  ASSUME OwnInv, NEW t \in AllThreads, Load(t)
  PROVE  [Promise!Next]_Promise!vars
<1> USE DEF OwnInv, KeptInv, TypeOK
<1>1. PICK d \in Diversions : d = thread[t].on
  BY DEF Load, ThreadInv, CloseSteps
<1>2. /\ UNCHANGED <<kernel, life, shut, crowded, botched>>
      /\ thread[t].at = "load"
      /\ thread'[t].at = "close" /\ thread'[t].on = d
      /\ thread'[t].value = handle[d]
      /\ \A u \in AllThreads \ {t} : thread'[u] = thread[u]
  BY <1>1 DEF Load, ThreadState
<1>3. \A e \in Diversions : Phase(e)' = Phase(e)
  BY <1>2, PhaseSame DEF IsOpen
<1>4. \A e \in Diversions \ {d} : Aimed(e)' = Aimed(e)
  BY <1>2 DEF Aimed
<1>5. CASE handle[d] = Invalid
  <2>1. Aimed(d)' = Aimed(d)
    BY <1>2, <1>5 DEF Aimed
  <2>2. UNCHANGED Promise!vars
    BY <1>2, <1>3, <1>4, <2>1 DEF Promise!vars
  <2> QED BY <2>2
<1>6. CASE handle[d] # Invalid
  <2>1. PICK v \in Values : v = handle[d]
    BY <1>6
  <2>2. Aimed(d)' = Aimed(d) \cup {v}
    BY <1>2, <2>1 DEF Aimed
  <2>3. kernel[v] = d \/ crowded # {}
    BY <1>1, <1>2, <1>6, <2>1 DEF NamesOwn, OneCloser, Closing, CloseSteps
  <2>4. [e \in Diversions |-> Aimed(e)']
          = [[e \in Diversions |-> Aimed(e)] EXCEPT ![d] = @ \cup {v}]
    BY <1>4, <2>2
  <2>5. Promise!Aim(d, v)
    BY <1>2, <1>3, <2>3, <2>4 DEF Promise!Aim
  <2> QED BY <2>5 DEF Promise!Next
<1> QED BY <1>5, <1>6

(* A native close that fails leaves what there is, and a destructor then   *)
(* gives its object up.                                                    *)
LEMMA FailMaps ==
  ASSUME OwnInv, NEW t \in AllThreads, CloseNative(t), kernel' = kernel,
         NEW v \in Values, v = thread[t].value,
         botched' \in {botched, botched \cup {thread[t].on}},
         botched' = botched \/ kernel[v] = thread[t].on,
         thread'[t].at # "close",
         \A u \in AllThreads \ {t} : thread'[u] = thread[u]
  PROVE  Promise!Next
<1> USE DEF OwnInv, KeptInv, TypeOK
<1>1. PICK d \in Diversions : d = thread[t].on
  BY DEF CloseNative, ThreadInv, CloseSteps
<1>2. thread[t].at = "close" /\ UNCHANGED <<kernel, life, shut, crowded>>
  BY DEF CloseNative
<1>3. \A e \in Diversions : Phase(e)' = Phase(e)
  BY <1>2, PhaseSame DEF IsOpen
<1>4. \A e \in Diversions \ {d} : Aimed(e)' = Aimed(e)
  BY <1>1 DEF Aimed
<1>5. v \in Aimed(d) /\ Aimed(d)' \in {Aimed(d), Aimed(d) \ {v}}
  BY <1>1, <1>2 DEF Aimed
<1>6. [e \in Diversions |-> Aimed(e)']
        \in {[e \in Diversions |-> Aimed(e)],
             [[e \in Diversions |-> Aimed(e)] EXCEPT ![d] = @ \ {v}]}
  BY <1>4, <1>5
<1>7. \/ UNCHANGED botched
      \/ kernel[v] = d /\ botched' = botched \cup {d}
  BY <1>1
<1>8. Promise!Fail(d, v)
  BY <1>2, <1>3, <1>5, <1>6, <1>7 DEF Promise!Fail
<1> QED BY <1>8 DEF Promise!Next

(* One that succeeds closes what it aimed at, its own object unless closes *)
(* have overlapped; whose ever it was, it is closed then.                  *)
LEMMA SuccessMaps ==
  ASSUME OwnInv, NEW t \in AllThreads, CloseNative(t),
         NEW v \in Values, v = thread[t].value,
         kernel' = [kernel EXCEPT ![v] = Free], botched' = botched,
         thread'[t].at # "close",
         \A u \in AllThreads \ {t} : thread'[u] = thread[u]
  PROVE  Promise!Next
<1> USE DEF OwnInv, KeptInv, TypeOK
<1>1. PICK d \in Diversions : d = thread[t].on
  BY DEF CloseNative, ThreadInv, CloseSteps
<1>2. thread[t].at = "close" /\ UNCHANGED <<life, shut, crowded, botched>>
  BY DEF CloseNative
<1>3. \A e \in Diversions \ {d} : Aimed(e)' = Aimed(e)
  BY <1>1 DEF Aimed
<1>4. v \in Aimed(d) /\ Aimed(d)' \in {Aimed(d), Aimed(d) \ {v}}
  BY <1>1, <1>2 DEF Aimed
<1>5. ASSUME NEW e \in Diversions, e # kernel[v] PROVE Phase(e)' = Phase(e)
  <2>1. IsOpen(e)' <=> IsOpen(e)
    BY <1>5 DEF IsOpen
  <2> QED BY <1>2, <2>1, PhaseSame
<1>6. ASSUME NEW e \in Diversions, e = kernel[v]
      PROVE  Phase(e) = "open" /\ Phase(e)' = "closed"
  <2>1. IsOpen(e) /\ Opened(e)
    BY <1>6 DEF IsOpen, Opened, LifeInv
  <2>2. ~IsOpen(e)'
    BY <1>6 DEF IsOpen, OneValue
  <2>3. Opened(e)'
    BY <1>2, <2>1 DEF Opened
  <2>4. Phase(e) = "open"
    BY <2>1 DEF Phase, Opened
  <2>5. Phase(e)' = "closed"
    BY <2>2, <2>3 DEF Phase, Opened
  <2> QED BY <2>4, <2>5
<1>7. CASE crowded = {}
  <2>1. kernel[v] = d
    BY <1>1, <1>2, <1>7 DEF SeenStands, NamesOwn, OneCloser, Closing, CloseSteps
  <2>2. \A u \in AllThreads \ {t} :
          ~(thread[u].at = "close" /\ thread[u].on = d)
    BY <1>1, <1>2, <1>7 DEF OneCloser, Closing, CloseSteps
  <2>3. Aimed(d)' = Aimed(d) \ {v}
    BY <1>1, <1>2, <2>2 DEF Aimed
  <2>4. Promise!Close(d, v)
    BY <1>2, <1>3, <1>4, <1>5, <1>6, <2>1, <2>3 DEF Promise!Close
  <2> QED BY <2>4 DEF Promise!Next
<1>8. CASE crowded # {}
  <2>1. [e \in Diversions |-> Aimed(e)']
          \in {[e \in Diversions |-> Aimed(e)],
               [[e \in Diversions |-> Aimed(e)] EXCEPT ![d] = @ \ {v}]}
    <3>1. CASE Aimed(d)' = Aimed(d)
      <4>1. [e \in Diversions |-> Aimed(e)'] = [e \in Diversions |-> Aimed(e)]
        BY <1>3, <3>1
      <4> QED BY <4>1
    <3>2. CASE Aimed(d)' = Aimed(d) \ {v}
      <4>1. [e \in Diversions |-> Aimed(e)']
              = [[e \in Diversions |-> Aimed(e)] EXCEPT ![d] = @ \ {v}]
        BY <1>3, <3>2
      <4> QED BY <4>1
    <3> QED BY <1>4, <3>1, <3>2
  <2>2. [e \in Diversions |-> Phase(e)']
          = [p \in Diversions |-> IF kernel[v] = p THEN "closed" ELSE Phase(p)]
    BY <1>5, <1>6
  <2>3. Promise!Stray(d, v)
    <3> USE <1>2, <1>8
    <3>1. v \in Aimed(d)
      BY <1>4
    <3>2. UNCHANGED <<shut, crowded, botched>>
      OBVIOUS
    <3> QED BY <2>1, <2>2, <3>1, <3>2 DEF Promise!Stray
  <2> QED BY <2>3 DEF Promise!Next
<1> QED BY <1>7, <1>8

LEMMA CloseMaps ==
  ASSUME OwnInv, NEW t \in AllThreads, CloseNative(t)
  PROVE  [Promise!Next]_Promise!vars
<1> USE DEF OwnInv, KeptInv, TypeOK
<1> DEFINE d == thread[t].on
<1>1. d \in Diversions
  BY DEF CloseNative, ThreadInv, CloseSteps
<1>2. PICK v \in Values \cup {Invalid} : v = thread[t].value
  BY DEF ThreadState
<1>3. PICK success \in BOOLEAN :
        /\ thread' = [thread EXCEPT ![t] = AfterNative(t, success)]
        /\ kernel' = IF success /\ v # Invalid
                       THEN [kernel EXCEPT ![v] = Free] ELSE kernel
        /\ botched' = IF /\ ~success /\ thread[t].call # "close"
                         /\ (IF v = Invalid THEN Invalid ELSE kernel[v]) = d
                        THEN botched \cup {d} ELSE botched
  BY <1>2 DEF CloseNative
<1>4. /\ thread[t].at = "close" /\ UNCHANGED <<life, shut, crowded>>
      /\ thread'[t].at # "close"
      /\ \A u \in AllThreads \ {t} : thread'[u] = thread[u]
  <2>1. thread'[t].at # "close"
    BY <1>3, AfterNativeType DEF Idle
  <2> QED BY <1>3, <2>1 DEF CloseNative
<1>5. CASE v = Invalid
  <2>1. UNCHANGED <<kernel, botched>>
    BY <1>1, <1>3, <1>5
  <2>2. \A e \in Diversions : Phase(e)' = Phase(e)
    BY <1>4, <2>1, PhaseSame DEF IsOpen
  <2>3. \A w \in Values, u \in AllThreads :
          (thread[u].at = "close" /\ thread[u].value = w) => u # t
    BY <1>2, <1>5
  <2>4. \A e \in Diversions : Aimed(e)' = Aimed(e)
    BY <1>4, <2>3 DEF Aimed
  <2>5. UNCHANGED Promise!vars
    BY <1>4, <2>1, <2>2, <2>4 DEF Promise!vars
  <2> QED BY <2>5
<1>6. CASE v \in Values /\ success
  BY <1>2, <1>3, <1>4, <1>6, SuccessMaps
<1>7. CASE v \in Values /\ ~success
  BY <1>2, <1>3, <1>4, <1>7, FailMaps
<1> QED BY <1>5, <1>6, <1>7

LEMMA BeginMaps ==
  ASSUME OwnInv, NEW t \in AllThreads, NEW d \in Diversions, NEW call,
         life[d] \in {"held", "dropped"}, Begin(t, d, call)
  PROVE  [Promise!Next]_Promise!vars
<1>1. /\ UNCHANGED <<kernel, life, shut, botched>>
      /\ crowded' \in {crowded, crowded \cup {d}}
  BY DEF Begin
<1>2. \A e \in Diversions : Phase(e)' = Phase(e)
  BY <1>1, PhaseSame DEF IsOpen
<1>3. \A u \in AllThreads : Steady(u)
  BY SteadySteps
<1>4. CASE crowded' = crowded
  BY <1>1, <1>3, <1>4, Hidden
<1>5. CASE crowded' = crowded \cup {d}
  <2>1. Phase(d) \in {"open", "closed"}
    <3>1. CASE IsOpen(d)
      BY <3>1 DEF Phase, Opened
    <3>2. CASE ~IsOpen(d)
      BY <3>2 DEF Phase, Opened
    <3> QED BY <3>1, <3>2
  <2>2. Promise!Overlap(d)
    BY <1>1, <1>2, <1>3, <1>5, <2>1, AimedKept DEF Promise!Overlap
  <2> QED BY <2>2 DEF Promise!Next
<1> QED BY <1>1, <1>4, <1>5

LEMMA ReportMaps ==
  ASSUME OwnInv, NEW t \in AllThreads, Clear(t) \/ Wipe(t)
  PROVE  [Promise!Next]_Promise!vars
<1> USE DEF OwnInv, KeptInv, TypeOK
<1> DEFINE d == thread[t].on
<1>1. /\ d \in Diversions /\ UNCHANGED <<kernel, life, crowded, botched>>
      /\ Opened(d) /\ (d \in botched \/ ~IsOpen(d))
  BY DEF Clear, Wipe, ThreadInv, CloseSteps, Opened
<1>2. shut' \in {shut, shut \cup {d}}
  BY DEF Clear, Wipe
<1>3. \A e \in Diversions : Phase(e)' = Phase(e)
  BY <1>1, PhaseSame DEF IsOpen
<1>4. Phase(d) = "closed" \/ d \in botched
  BY <1>1 DEF Phase, Opened
<1>5. \A u \in AllThreads : Steady(u)
  BY <1>1, SteadySteps
<1>6. CASE shut' = shut
  BY <1>1, <1>5, <1>6, Hidden
<1>7. CASE shut' = shut \cup {d}
  <2>1. Promise!Report(d)
    BY <1>1, <1>3, <1>4, <1>5, <1>7, AimedKept DEF Promise!Report
  <2> QED BY <1>1, <2>1 DEF Promise!Next
<1> QED BY <1>2, <1>6, <1>7

LEMMA ElsewhereMaps ==
  ASSUME OwnInv, NEW v \in Values, Elsewhere(v)
  PROVE  Promise!Next
<1> USE DEF OwnInv, KeptInv, TypeOK
<1>1. ASSUME NEW d \in Diversions PROVE Phase(d)' = Phase(d)
  <2>1. IsOpen(d)' <=> IsOpen(d)
    BY DEF Elsewhere, IsOpen
  <2> QED BY <2>1, PhaseSame DEF Elsewhere
<1>2. Promise!Elsewhere(v)
  BY <1>1, AimedKept DEF Elsewhere, Promise!Elsewhere, Steady
<1> QED BY <1>2 DEF Promise!Next

LEMMA NextMaps ==
  ASSUME OwnInv, [Next]_vars
  PROVE  [Promise!Next]_Promise!vars
<1>1. CASE UNCHANGED vars
  BY <1>1, Hidden DEF vars, Steady
<1>2. ASSUME NEW t \in Threads, NEW d \in Diversions,
             Use(t, d) \/ BeginClose(t, d)
      PROVE  [Promise!Next]_Promise!vars
  BY <1>2, SteadySteps, Hidden, BeginMaps DEF Use, BeginClose, AllThreads
<1>3. ASSUME NEW t \in Threads, OpenWrap(t)
      PROVE  UNCHANGED Promise!vars
  <2>1. thread[t].on \in Diversions /\ life[thread[t].on] = "opening"
    BY <1>3 DEF OpenWrap, OwnInv, KeptInv, ThreadInv, AllThreads
  <2>2. /\ UNCHANGED <<kernel, shut, crowded, botched>>
        /\ life' = [life EXCEPT ![thread[t].on] = "held"]
    BY <1>3 DEF OpenWrap
  <2>3. life \in [Diversions -> {"unopened", "refused", "opening", "held",
                                 "dropped"}]
    BY DEF OwnInv, KeptInv, TypeOK
  <2>4. ASSUME NEW d \in Diversions
        PROVE  life'[d] = life[d] \/ (Opened(d) /\ Opened(d)')
    BY <2>1, <2>2, <2>3 DEF Opened
  <2>5. \A u \in AllThreads : Steady(u)
    BY <1>3, <2>1, SteadySteps DEF AllThreads
  <2> QED BY <2>2, <2>4, <2>5, Hidden
<1>4. ASSUME NEW t \in Threads, UseNative(t)
      PROVE  UNCHANGED Promise!vars
  <2>1. thread[t].on \in Diversions
    BY <1>4 DEF UseNative, OwnInv, KeptInv, ThreadInv, AllThreads
  <2>2. \A u \in AllThreads : Steady(u)
    BY <1>4, <2>1, SteadySteps DEF AllThreads
  <2> QED BY <1>4, <2>2, Hidden DEF UseNative
<1>5. ASSUME NEW t \in AllThreads, Enter(t) \/ Check(t)
      PROVE  UNCHANGED Promise!vars
  <2>1. thread[t].on \in Diversions
    BY <1>5 DEF Enter, Check, Look, OwnInv, KeptInv, ThreadInv
  <2>2. \A u \in AllThreads : Steady(u)
    BY <1>5, <2>1, SteadySteps
  <2> QED BY <1>5, <2>2, Hidden DEF Enter, Check, Look
<1>6. ASSUME NEW c \in Classes, NEW d \in Diversions, Finalize(c, d)
      PROVE  [Promise!Next]_Promise!vars
  BY <1>6, BeginMaps DEF Finalize, CanFinalize, AllThreads
<1>7. ASSUME NEW d \in Diversions, Drop(d)
      PROVE  UNCHANGED Promise!vars
  <2>1. /\ UNCHANGED <<kernel, shut, crowded, botched>> /\ life[d] = "held"
        /\ life' = [life EXCEPT ![d] = "dropped"]
    BY <1>7 DEF Drop
  <2>2. life \in [Diversions -> {"unopened", "refused", "opening", "held",
                                 "dropped"}]
    BY DEF OwnInv, KeptInv, TypeOK
  <2>3. ASSUME NEW e \in Diversions
        PROVE  life'[e] = life[e] \/ (Opened(e) /\ Opened(e)')
    BY <2>1, <2>2 DEF Opened
  <2>4. \A u \in AllThreads : Steady(u)
    BY <1>7 DEF Drop, Steady
  <2> QED BY <2>1, <2>3, <2>4, Hidden
<1> QED
  BY <1>1, <1>2, <1>3, <1>4, <1>5, <1>6, <1>7, OpenMaps, LoadMaps, CloseMaps,
     ReportMaps, ElsewhereMaps DEF Next, CloseStep

LEMMA InitMaps == Init => Promise!Init
<1> SUFFICES ASSUME Init PROVE Promise!Init
  OBVIOUS
<1>1. \A d \in Diversions : Phase(d) = "new"
  BY DEF Init, Phase, Opened
<1>2. \A d \in Diversions : Aimed(d) = {}
  BY DEF Init, Aimed, Idle
<1> QED BY <1>1, <1>2 DEF Init, Promise!Init

(* Any number of Diversions and threads keep the promise of OwnedHandle:   *)
(* each handle is opened and closed once, and by its own closers unless    *)
(* closes have overlapped, whatever values Windows uses again; and it is   *)
(* reported closed only when it is, or when a destructor gave it up.       *)
THEOREM OwnKept == Spec => KeepsOwn
<1>1. OwnInv /\ [Next]_vars => [Promise!Next]_Promise!vars
  BY NextMaps
<1> QED
  BY <1>1, OwnInvHolds, InitMaps, PTL DEF Spec, KeepsOwn, Promise!Spec
=============================================================================
