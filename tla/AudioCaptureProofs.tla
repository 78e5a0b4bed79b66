------------------------- MODULE AudioCaptureProofs -------------------------
(***************************************************************************)
(* The microphone, for any number of calls, hardware changes and retries:  *)
(* the handler takes no lock, and still leaves the engine it finds as the  *)
(* caller believes it to be, or gives up.                                  *)
(***************************************************************************)
EXTENDS AudioCapture, TLAPS

\* The caller believes its microphone on, and is not about to stop it.
MicOn == micRunning /\ ownerPc = "idle"

\* The caller's belief lasts until its stop() is over, an engine that is let go is
\* no longer observed, and an attempt is left when one is awaited.
Counted ==
  /\ micRunning => ownerPc = "idle" \/ (ownerPc \in ResetPcs /\ resetFor = "stop")
  /\ ownerPc \in {"untap", "halt", "release", "create", "install"} => observer = 0
  /\ handlerPc = "sleep" => attempt < MaxRetries

\* Between two calls of start() and stop() there is no engine, or a running one.
NoEngineLeft ==
  ownerPc \in {"idle", "permission", "create"} /\ ~micRunning => engine = 0

\* An engine the caller is starting or has started is tapped, or the handler is
\* going to tap it, or has given up.
TapKept ==
  ownerPc \in {"observe", "start"} \/ MicOn =>
    /\ engine # 0
    /\ engine \in tapped \/ gaveUp
         \/ handlerPc \in {"remove", "install", "sleep", "giveUp"}

\* An engine the caller has started runs, or the handler will hear that it does
\* not, or has heard it, or has given up.
EngineKept ==
  /\ ownerPc = "start" \/ MicOn => observer = engine
  /\ MicOn => engine \in started \/ notified \/ gaveUp
                \/ handlerPc \in {"remove", "install", "start", "sleep", "giveUp"}

\* The inductive invariant.
CaptureInv == TypeOK /\ Counted /\ NoEngineLeft /\ TapKept /\ EngineKept

\* The first numbers of each kind.
LEMMA Bounds ==
  /\ 0 \in 0..0 /\ 0 \in 0..MaxStarts /\ 0 \in 0..MaxChanges
  /\ 0 \in 0..MaxRetries /\ 1 \in 0..MaxRetries
  BY CaptureAssumption

\* It holds at first.
LEMMA CaptureInitInv == Init => CaptureInv
  <1>1. Init => TypeOK
    BY Bounds DEF Init, TypeOK, Engines
  <1>2. Init => Counted /\ NoEngineLeft /\ TapKept /\ EngineKept
    BY DEF Init, Counted, NoEngineLeft, TapKept, EngineKept, MicOn
  <1> QED
    BY <1>1, <1>2 DEF CaptureInv

\* start() and stop() keep it.
LEMMA OwnerInv ==
  ASSUME CaptureInv, Owner
  PROVE  CaptureInv'
  <1> USE CaptureAssumption
  <1> USE DEF CaptureInv, TypeOK, Counted, NoEngineLeft, TapKept, EngineKept, MicOn,
              Engines, ResetPcs, engineVars, handlerVars
  <1>1. CASE StartCalled
    BY <1>1 DEF StartCalled
  <1>2. ASSUME NEW answer \in {"granted", "denied"}, AskPermission(answer)
        PROVE  CaptureInv'
    BY <1>2 DEF AskPermission, Resets
  <1>3. CASE CreateEngine
    <2>1. starts \in 0..starts /\ observer = 0
      BY <1>3 DEF CreateEngine
    <2>2. TypeOK'
      BY <1>3, <2>1 DEF CreateEngine
    <2>3. Counted' /\ NoEngineLeft'
      BY <1>3, <2>1 DEF CreateEngine
    <2>4. TapKept' /\ EngineKept'
      BY <1>3 DEF CreateEngine
    <2> QED
      BY <2>2, <2>3, <2>4
  <1>4. CASE OwnerInstalls
    <2>1. CASE InstallTap /\ ownerPc' = "observe"
      BY <1>4, <2>1 DEF OwnerInstalls, InstallTap
    <2>2. CASE Resets("failed") /\ UNCHANGED engineVars
      BY <1>4, <2>2 DEF OwnerInstalls, Resets
    <2> QED
      BY <1>4, <2>1, <2>2 DEF OwnerInstalls
  <1>5. CASE OwnerObserves
    BY <1>5 DEF OwnerObserves
  <1>6. CASE OwnerStartsEngine
    <2>1. CASE /\ ownerPc' = "idle"
               /\ started' = started \union {engine} /\ micRunning' = TRUE
               /\ UNCHANGED <<engine, tapped, observer, resetFor>>
      <3>1. engine \in Engines
        BY <1>6 DEF OwnerStartsEngine
      <3> QED
        BY <1>6, <2>1, <3>1 DEF OwnerStartsEngine
    <2>2. CASE Resets("failed") /\ UNCHANGED <<engineVars, micRunning>>
      BY <1>6, <2>2 DEF OwnerStartsEngine, Resets
    <2> QED
      BY <1>6, <2>1, <2>2 DEF OwnerStartsEngine
  <1>7. CASE StopCalled
    BY <1>7 DEF StopCalled, Resets
  <1>8. CASE ResetUnobserves
    BY <1>8 DEF ResetUnobserves
  <1>9. CASE ResetUntaps
    BY <1>9 DEF ResetUntaps
  <1>10. CASE ResetHalts
    BY <1>10 DEF ResetHalts
  <1>11. CASE ResetReleases
    <2>1. 0 \in 0..starts /\ observer = 0
      BY <1>11 DEF ResetReleases
    <2>2. TypeOK'
      BY <1>11, <2>1 DEF ResetReleases
    <2>3. Counted' /\ NoEngineLeft'
      BY <1>11, <2>1 DEF ResetReleases
    <2>4. TapKept' /\ EngineKept'
      BY <1>11 DEF ResetReleases
    <2> QED
      BY <2>2, <2>3, <2>4
  <1> QED
    BY <1>1, <1>2, <1>3, <1>4, <1>5, <1>6, <1>7, <1>8, <1>9, <1>10, <1>11 DEF Owner

\* The hardware and the handler keep it.
LEMMA HandlerInv ==
  ASSUME CaptureInv, Handler \/ HardwareChanges
  PROVE  CaptureInv'
  <1> USE CaptureAssumption
  <1> USE DEF CaptureInv, TypeOK, Counted, NoEngineLeft, TapKept, EngineKept, MicOn,
              Engines, ResetPcs, engineVars, callerVars
  <1>1. CASE HardwareChanges
    BY <1>1 DEF HardwareChanges
  <1>2. CASE HandlerCalled
    <2>1. TypeOK'
      BY <1>2, Bounds DEF HandlerCalled
    <2>2. Counted' /\ NoEngineLeft'
      BY <1>2 DEF HandlerCalled
    <2>3. TapKept'
      BY <1>2 DEF HandlerCalled
    <2>4. EngineKept'
      BY <1>2 DEF HandlerCalled
    <2> QED
      BY <2>1, <2>2, <2>3, <2>4
  <1>3. CASE HandlerRemovesTap
    BY <1>3 DEF HandlerRemovesTap
  <1>4. CASE HandlerInstalls
    <2>1. CASE InstallTap /\ handlerPc' = "start"
      BY <1>4, <2>1 DEF HandlerInstalls, InstallTap
    <2>2. CASE NextAttempt /\ UNCHANGED engineVars
      BY <1>4, <2>2 DEF HandlerInstalls, NextAttempt
    <2> QED
      BY <1>4, <2>1, <2>2 DEF HandlerInstalls
  <1>5. CASE HandlerRestartsEngine
    <2>1. TypeOK'
      <3>1. started' \subseteq started \union ({engine} \ {0}) /\ engine \in 0..MaxStarts
        BY <1>5 DEF HandlerRestartsEngine
      <3>2. started' \subseteq Engines
        BY <3>1
      <3>3. handlerPc' \in {"report", "sleep", "giveUp"}
        BY <1>5 DEF HandlerRestartsEngine, NextAttempt
      <3> QED
        BY <1>5, <3>2, <3>3 DEF HandlerRestartsEngine
    <2>2. Counted' /\ NoEngineLeft'
      BY <1>5 DEF HandlerRestartsEngine, NextAttempt
    <2>3. TapKept'
      BY <1>5 DEF HandlerRestartsEngine, NextAttempt
    <2>4. EngineKept'
      BY <1>5 DEF HandlerRestartsEngine, NextAttempt
    <2> QED
      BY <2>1, <2>2, <2>3, <2>4
  <1>6. CASE HandlerRetries
    BY <1>6 DEF HandlerRetries
  <1>7. CASE HandlerGivesUp \/ HandlerReports
    <2>1. TypeOK'
      BY <1>7, Bounds DEF HandlerGivesUp, HandlerReports
    <2>2. Counted' /\ NoEngineLeft'
      BY <1>7 DEF HandlerGivesUp, HandlerReports
    <2>3. TapKept'
      BY <1>7 DEF HandlerGivesUp, HandlerReports
    <2>4. EngineKept'
      BY <1>7 DEF HandlerGivesUp, HandlerReports
    <2> QED
      BY <2>1, <2>2, <2>3, <2>4
  <1> QED
    BY <1>1, <1>2, <1>3, <1>4, <1>5, <1>6, <1>7 DEF Handler

\* The inductive invariant holds in every state.
THEOREM CaptureInvariant == Spec => []CaptureInv
  <1>1. CaptureInv /\ [Next]_vars => CaptureInv'
    <2> SUFFICES ASSUME CaptureInv, [Next]_vars PROVE CaptureInv'
      OBVIOUS
    <2>1. CASE UNCHANGED vars
      BY <2>1 DEF vars, engineVars, callerVars, handlerVars, CaptureInv, TypeOK, Counted,
                  NoEngineLeft, TapKept, EngineKept, MicOn
    <2> QED
      BY <2>1, OwnerInv, HandlerInv DEF Next
  <1> QED
    BY <1>1, CaptureInitInv, PTL DEF Spec

\* Every variable has its type: no attempt beyond kMaxRetries, no tap and no
\* running engine that is not one of start()'s.
THEOREM CaptureTyped == Spec => []TypeOK
  BY CaptureInvariant, PTL DEF CaptureInv

\* After stop() (audio_capture.mm:242) nothing is delivered, wherever the handler
\* is in its retries: it has no engine to tap or to start.
THEOREM SilentWhenStoppedAlways == Spec => []SilentWhenStopped
  <1>1. CaptureInv => SilentWhenStopped
    BY DEF CaptureInv, NoEngineLeft, TypeOK, Engines, SilentWhenStopped, Delivering
  <1> QED
    BY <1>1, CaptureInvariant, PTL

\* However the handler's steps (audio_capture.mm:62) fall between those of start()
\* and stop(), and on whichever engine, a microphone that is on in its caller's
\* eyes delivers when the handler has nothing left to do and has not given up.
THEOREM CaptureAgreesAlways == Spec => []CaptureAgrees
  <1>1. CaptureInv => CaptureAgrees
    BY DEF CaptureInv, TapKept, EngineKept, MicOn, CaptureAgrees, Delivering
  <1> QED
    BY <1>1, CaptureInvariant, PTL

=============================================================================
