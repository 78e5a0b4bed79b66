---------------------------- MODULE AudioCapture ----------------------------
(***************************************************************************)
(* The microphone (src/src/audio_capture.mm).  start() and stop() are      *)
(* called under the controller's mic_mutex; when the audio hardware        *)
(* changes, the engine stops itself and the notification's thread runs a   *)
(* handler that reinstalls the tap and restarts the engine, with no lock   *)
(* at all, so that it may find another engine, or none, at every step.     *)
(*                                                                         *)
(* Engines are numbered; 0 is nil.  Messages to nil do nothing and return  *)
(* nothing: no format, so installTap() fails, and no error, so a restart   *)
(* succeeds.  A released engine delivers nothing.                          *)
(***************************************************************************)
EXTENDS Naturals

CONSTANTS
  MaxStarts,    \* bound: calls of start()
  MaxChanges,   \* bound: changes of the hardware
  MaxRetries,   \* kMaxRetries
  DeviceFails   \* the device may not be ready: no format, no restart

ASSUME CaptureAssumption ==
  /\ MaxStarts \in Nat /\ MaxChanges \in Nat /\ MaxRetries \in Nat \ {0}
  /\ DeviceFails \in BOOLEAN

VARIABLES
  engine,       \* engine
  tapped,       \* the engines with a tap on their input node
  started,      \* the engines that run
  observer,     \* the engine configObserver is registered for
  permission,   \* permission_checked, permission_granted
  micRunning,   \* the caller's mic_running
  ownerPc,      \* where start() or stop() is
  resetFor,     \* what its resetEngineState() is for
  handlerPc,    \* where the handler is
  attempt,      \* its attempt
  notified,     \* a notification waits for the handler
  gaveUp,       \* history: the handler gave up since the engine was made
  starts,       \* history: calls of start()
  changes       \* history: changes so far

engineVars == <<engine, tapped, started, observer>>
callerVars == <<permission, micRunning, ownerPc, resetFor, starts>>
handlerVars == <<handlerPc, attempt, notified, gaveUp, changes>>
vars == <<engineVars, callerVars, handlerVars>>

Engines  == 1..MaxStarts
ResetPcs == {"unobserve", "untap", "halt", "release"}

TypeOK ==
  /\ engine \in 0..starts /\ observer \in {0, engine}
  /\ tapped \subseteq Engines /\ started \subseteq Engines
  /\ permission \in {"unknown", "granted", "denied"}
  /\ micRunning \in BOOLEAN
  /\ ownerPc \in {"idle", "permission", "create", "install", "observe", "start"} \union ResetPcs
  /\ resetFor \in {"start", "failed", "stop"}
  /\ handlerPc \in {"none", "remove", "install", "start", "sleep", "giveUp", "report"}
  /\ attempt \in 0..MaxRetries
  /\ notified \in BOOLEAN /\ gaveUp \in BOOLEAN
  /\ starts \in 0..MaxStarts /\ changes \in 0..MaxChanges

Init ==
  /\ engine = 0 /\ tapped = {} /\ started = {} /\ observer = 0
  /\ permission = "unknown" /\ micRunning = FALSE /\ ownerPc = "idle" /\ starts = 0
  /\ resetFor = "start"
  /\ handlerPc = "none" /\ attempt = 0 /\ notified = FALSE
  /\ gaveUp = FALSE /\ changes = 0

\* Blocks reach on_block.
Delivering == engine \in tapped \intersect started

-----------------------------------------------------------------------------
(***************************************************************************)
(* start() and stop().                                                     *)
(***************************************************************************)

\* resetEngineState() begins.
Resets(what) == ownerPc' = "unobserve" /\ resetFor' = what

ResetUnobserves ==
  /\ ownerPc = "unobserve"
  /\ observer' = 0
  /\ ownerPc' = IF engine = 0 THEN "release" ELSE "untap"
  /\ UNCHANGED <<handlerVars, engine, tapped, started, permission, micRunning, resetFor,
                 starts>>

ResetUntaps ==
  /\ ownerPc = "untap"
  /\ tapped' = tapped \ {engine}
  /\ ownerPc' = "halt"
  /\ UNCHANGED <<handlerVars, engine, started, observer, permission, micRunning, resetFor,
                 starts>>

ResetHalts ==
  /\ ownerPc = "halt"
  /\ started' = started \ {engine}
  /\ ownerPc' = "release"
  /\ UNCHANGED <<handlerVars, engine, tapped, observer, permission, micRunning, resetFor,
                 starts>>

\* Mutant: the engine is stopped and not let go.
ResetKeepsEngine ==
  /\ ownerPc = "release"
  /\ ownerPc' = IF resetFor = "start" THEN "create" ELSE "idle"
  /\ micRunning' = FALSE
  /\ UNCHANGED <<handlerVars, engineVars, permission, resetFor, starts>>

\* The engine is let go, whatever the handler has made of it meanwhile, and start()
\* goes on, or start() or stop() is over.
ResetReleases ==
  /\ ownerPc = "release"
  /\ engine' = 0
  /\ ownerPc' = IF resetFor = "start" THEN "create" ELSE "idle"
  /\ micRunning' = FALSE
  /\ UNCHANGED <<handlerVars, tapped, started, observer, permission, resetFor, starts>>

StartCalled ==
  /\ ownerPc = "idle" /\ ~micRunning /\ starts < MaxStarts
  /\ ownerPc' = "permission"
  /\ starts' = starts + 1
  /\ UNCHANGED <<engineVars, handlerVars, permission, micRunning, resetFor>>

\* Asked once per process; start() returns false when it was denied.  Otherwise it
\* clears whatever an earlier start() left.
AskPermission(answer) ==
  /\ ownerPc = "permission"
  /\ permission \in {"unknown", answer}
  /\ permission' = answer
  /\ IF answer = "granted" THEN Resets("start") ELSE ownerPc' = "idle" /\ UNCHANGED resetFor
  /\ UNCHANGED <<engineVars, handlerVars, micRunning, starts>>

CreateEngine ==
  /\ ownerPc = "create"
  /\ engine' = starts /\ gaveUp' = FALSE
  /\ ownerPc' = "install"
  /\ UNCHANGED <<handlerPc, attempt, notified, changes, tapped, started, observer,
                 permission, micRunning, resetFor, starts>>

\* installTap() succeeds: there is an engine, and no tap on it.
InstallTap ==
  /\ engine # 0 /\ engine \notin tapped
  /\ tapped' = tapped \union {engine}
  /\ UNCHANGED <<engine, started, observer>>

\* It fails: no engine or no format, or an exception because of a tap.
InstallTapFails == engine = 0 \/ engine \in tapped \/ DeviceFails

OwnerInstalls ==
  /\ ownerPc = "install"
  /\ \/ InstallTap /\ ownerPc' = "observe" /\ UNCHANGED resetFor
     \/ InstallTapFails /\ Resets("failed") /\ UNCHANGED engineVars
  /\ UNCHANGED <<handlerVars, permission, micRunning, starts>>

OwnerObserves ==
  /\ ownerPc = "observe"
  /\ observer' = engine
  /\ ownerPc' = "start"
  /\ UNCHANGED <<handlerVars, engine, tapped, started, permission, micRunning, resetFor,
                 starts>>

\* startAndReturnError:, and start() returns whether it succeeded.
OwnerStartsEngine ==
  /\ ownerPc = "start"
  /\ \/ /\ ownerPc' = "idle"
        /\ started' = started \union {engine}
        /\ micRunning' = TRUE
        /\ UNCHANGED <<engine, tapped, observer, resetFor>>
     \/ /\ DeviceFails
        /\ Resets("failed")
        /\ UNCHANGED <<engineVars, micRunning>>
  /\ UNCHANGED <<handlerVars, permission, starts>>

StopCalled ==
  /\ ownerPc = "idle" /\ micRunning
  /\ Resets("stop")
  /\ UNCHANGED <<handlerVars, engineVars, permission, micRunning, starts>>

-----------------------------------------------------------------------------
(***************************************************************************)
(* The handler of AVAudioEngineConfigurationChangeNotification.            *)
(***************************************************************************)

\* The hardware changes under a running engine, which stops and notifies.
HardwareChanges ==
  /\ engine \in started /\ changes < MaxChanges
  /\ changes' = changes + 1
  /\ started' = started \ {engine}
  /\ notified' = (observer = engine)
  /\ UNCHANGED <<callerVars, engine, tapped, observer, handlerPc, attempt, gaveUp>>

\* The handler is called, unless the observer was removed before.
HandlerCalled ==
  /\ handlerPc = "none" /\ notified
  /\ notified' = FALSE
  /\ IF observer # 0
       THEN handlerPc' = "remove" /\ attempt' = 1 /\ gaveUp' = FALSE
       ELSE UNCHANGED <<handlerPc, attempt, gaveUp>>
  /\ UNCHANGED <<engineVars, callerVars, changes>>

HandlerRemovesTap ==
  /\ handlerPc = "remove"
  /\ handlerPc' = "install"
  /\ tapped' = tapped \ {engine}
  /\ UNCHANGED <<callerVars, engine, started, observer, attempt, notified, gaveUp, changes>>

\* Mutant: one attempt too many.
NextAttemptOnceMore ==
  handlerPc' = IF attempt <= MaxRetries THEN "sleep" ELSE "giveUp"

\* The next attempt, after a pause, or none.
NextAttempt ==
  handlerPc' = IF attempt < MaxRetries THEN "sleep" ELSE "giveUp"

HandlerInstalls ==
  /\ handlerPc = "install"
  /\ \/ InstallTap /\ handlerPc' = "start"
     \/ InstallTapFails /\ NextAttempt /\ UNCHANGED engineVars
  /\ UNCHANGED <<callerVars, attempt, notified, gaveUp, changes>>

\* Mutant: the tap is back and the engine is not restarted.
HandlerForgetsEngine ==
  /\ handlerPc = "start"
  /\ handlerPc' = "report"
  /\ UNCHANGED <<callerVars, engineVars, attempt, notified, gaveUp, changes>>

HandlerRestartsEngine ==
  /\ handlerPc = "start"
  /\ \/ /\ handlerPc' = "report"
        /\ started' = started \union ({engine} \ {0})
     \/ /\ DeviceFails /\ engine # 0
        /\ NextAttempt
        /\ UNCHANGED started
  /\ UNCHANGED <<callerVars, engine, tapped, observer, attempt, notified, gaveUp, changes>>

\* After the pause: the tap is removed from whichever engine there is.
HandlerRetries ==
  /\ handlerPc = "sleep"
  /\ handlerPc' = "install"
  /\ attempt' = attempt + 1
  /\ tapped' = tapped \ {engine}
  /\ UNCHANGED <<callerVars, engine, started, observer, notified, gaveUp,
                 changes>>

\* on_recovery_failed
HandlerGivesUp ==
  /\ handlerPc = "giveUp"
  /\ handlerPc' = "report"
  /\ gaveUp' = TRUE
  /\ UNCHANGED <<callerVars, engineVars, attempt, notified, changes>>

\* on_config_change, in any case
HandlerReports ==
  /\ handlerPc = "report"
  /\ handlerPc' = "none" /\ attempt' = 0
  /\ UNCHANGED <<callerVars, engineVars, notified, gaveUp, changes>>

Owner ==
  \/ StartCalled \/ \E answer \in {"granted", "denied"} : AskPermission(answer)
  \/ CreateEngine \/ OwnerInstalls \/ OwnerObserves \/ OwnerStartsEngine
  \/ StopCalled
  \/ ResetUnobserves \/ ResetUntaps \/ ResetHalts \/ ResetReleases

Handler ==
  \/ HandlerCalled \/ HandlerRemovesTap \/ HandlerInstalls \/ HandlerRestartsEngine
  \/ HandlerRetries \/ HandlerGivesUp \/ HandlerReports

Next == Owner \/ Handler \/ HardwareChanges

Spec == Init /\ [][Next]_vars

-----------------------------------------------------------------------------
(***************************************************************************)
(* Properties.                                                             *)
(***************************************************************************)

\* Once stop() has returned nothing is delivered, wherever the handler is.
SilentWhenStopped == ownerPc = "idle" /\ ~micRunning => ~Delivering

\* Whatever the handler and the calls of start() and stop() did to each other's
\* engines, in the end the microphone is on when its caller thinks it is, unless
\* the handler gave up.
CaptureAgrees ==
  ownerPc = "idle" /\ handlerPc = "none" /\ ~notified /\ ~gaveUp =>
    (micRunning => Delivering)

=============================================================================
