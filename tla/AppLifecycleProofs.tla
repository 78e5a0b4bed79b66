------------------------- MODULE AppLifecycleProofs -------------------------
(***************************************************************************)
(* The processes of the app, for any number of them, whenever the user     *)
(* changes a setting or quits: one instance past the check, and what the   *)
(* threads find in the controller.                                         *)
(***************************************************************************)
EXTENDS AppLifecycle, FiniteSetTheorems, TLAPS

\* NoController and a new controller are controllers.
LEMMA ControllersTyped ==
  /\ NoController \in Controller
  /\ \A language \in Languages : NewController(language) \in Controller
  BY LifecycleAssumption DEF NoController, NewController, Controller

\* The initial state is typed.
LEMMA InitTyped == Init => TypeOK
  BY LifecycleAssumption, ControllersTyped DEF Init, TypeOK, MainPcs, InUse, BootPcs

\* One controller changes, and stays one.
LEMMA OneChanges ==
  ASSUME TypeOK, NEW p \in Procs, NEW c \in Controller,
         ctl' = [ctl EXCEPT ![p] = c]
  PROVE  ctl' \in [Procs -> Controller]
  BY DEF TypeOK

\* Starting a process, and what its user does.
LEMMA LaunchTyped ==
  ASSUME TypeOK, NEW p \in Procs,
         \/ Open(p) \/ CheckInstances(p) \/ StartController(p) \/ DismissAlert(p)
         \/ QueueStart(p) \/ RetryTap(p) \/ Grant
  PROVE  TypeOK'
  <1> USE DEF TypeOK, Main, Boot, MainPcs, InUse, BootPcs, Underway, history
  <1>1. CASE Open(p)
    BY <1>1 DEF Open
  <1>2. CASE CheckInstances(p)
    BY <1>2 DEF CheckInstances
  <1>3. CASE StartController(p)
    BY <1>3, ControllersTyped DEF StartController
  <1>4. CASE DismissAlert(p) \/ QueueStart(p)
    BY <1>4 DEF DismissAlert, QueueStart
  <1>5. CASE RetryTap(p)
    BY <1>5, Zenon DEF RetryTap
  <1>6. CASE Grant
    BY <1>6 DEF Grant
  <1> QED
    BY <1>1, <1>2, <1>3, <1>4, <1>5, <1>6

\* start() on the background queue.
LEMMA StartTyped ==
  ASSUME TypeOK, NEW p \in Procs, Start(p)
  PROVE  TypeOK'
  <1>1. ctl[p] \in Controller
    BY DEF TypeOK
  <1>2. ctl' \in [Procs -> Controller]
    <2>1. CASE BootBegins(p) \/ BootEnds(p)
      BY <2>1 DEF BootBegins, BootEnds, TypeOK
    <2>2. CASE BootReadsLanguage(p)
      <3> DEFINE c == [ctl[p] EXCEPT !.micThread = TRUE,
                                     !.workerLanguage = ctl[p].language]
      <3>1. c \in Controller
        BY <1>1 DEF Controller
      <3>2. ctl' = [ctl EXCEPT ![p] = c]
        BY <2>2 DEF BootReadsLanguage
      <3> QED
        BY <3>1, <3>2, OneChanges
    <2>3. CASE BootMakesWorker(p)
      <3> DEFINE c == [ctl[p] EXCEPT !.worker = "loading"]
      <3>1. c \in Controller
        BY <1>1 DEF Controller
      <3>2. ctl' = [ctl EXCEPT ![p] = c]
        BY <2>3 DEF BootMakesWorker
      <3> QED
        BY <3>1, <3>2, OneChanges
    <2>4. CASE BootLoads(p)
      <3> DEFINE c == [ctl[p] EXCEPT !.worker = "ready"]
                 d == [ctl[p] EXCEPT !.worker = "none", !.workerLanguage = NoValue]
      <3>1. c \in Controller /\ d \in Controller
        BY <1>1 DEF Controller
      <3>2. ctl' = [ctl EXCEPT ![p] = c] \/ ctl' = [ctl EXCEPT ![p] = d]
        BY <2>4 DEF BootLoads
      <3> QED
        BY <3>1, <3>2, OneChanges
    <2>5. CASE BootGivesUp(p)
      <3> DEFINE c == [ctl[p] EXCEPT !.micThread = FALSE]
      <3>1. c \in Controller
        BY <1>1 DEF Controller
      <3>2. ctl' = [ctl EXCEPT ![p] = c]
        BY <2>5 DEF BootGivesUp
      <3> QED
        BY <3>1, <3>2, OneChanges
    <2>6. CASE BootMakesAssembler(p)
      <3> DEFINE c == [ctl[p] EXCEPT !.silenceTimeout = DefaultTimeout]
      <3>1. c \in Controller
        BY <1>1, LifecycleAssumption DEF Controller
      <3>2. ctl' = [ctl EXCEPT ![p] = c]
        BY <2>6 DEF BootMakesAssembler
      <3> QED
        BY <3>1, <3>2, OneChanges
    <2>7. CASE BootSaysStarted(p)
      <3> DEFINE c == [ctl[p] EXCEPT !.started = TRUE]
      <3>1. c \in Controller
        BY <1>1 DEF Controller
      <3>2. ctl' = [ctl EXCEPT ![p] = c]
        BY <2>7 DEF BootSaysStarted
      <3> QED
        BY <3>1, <3>2, OneChanges
    <2> QED
      BY <2>1, <2>2, <2>3, <2>4, <2>5, <2>6, <2>7 DEF Start
  <1>3. /\ boot' \in [Procs -> BootPcs]
        /\ UNCHANGED <<prefs, granted, main, tap, retry, history>>
    BY DEF TypeOK, Start, BootBegins, BootReadsLanguage, BootMakesWorker, BootLoads,
           BootGivesUp, BootMakesAssembler, BootSaysStarted, BootEnds, Boot, BootFrame,
           BootPcs, Underway, InStart
  <1> QED
    BY <1>2, <1>3 DEF TypeOK, history

\* Settings.
LEMMA SettingsTyped ==
  ASSUME TypeOK, NEW p \in Procs,
         \/ \E language \in Languages : ChangeLanguage(p, language)
         \/ SetWorkerLanguage(p) \/ StoreLanguage(p)
         \/ \E timeout \in Timeouts : ChangeTimeout(p, timeout)
  PROVE  TypeOK'
  <1>0. ctl[p] \in Controller /\ prefs.language \in Languages
    BY DEF TypeOK
  <1>1. ASSUME NEW language \in Languages, ChangeLanguage(p, language) PROVE TypeOK'
    BY <1>1 DEF ChangeLanguage, TypeOK, Main, MainPcs, InUse, history
  <1>2. CASE SetWorkerLanguage(p)
    <2> DEFINE c == [ctl[p] EXCEPT !.workerLanguage = prefs.language,
                                   !.language = prefs.language]
    <2>1. c \in Controller
      BY <1>0 DEF Controller
    <2>2. ctl' = [ctl EXCEPT ![p] = c]
      BY <1>2 DEF SetWorkerLanguage
    <2>3. ctl' \in [Procs -> Controller]
      BY <2>1, <2>2, OneChanges
    <2> QED
      BY <1>2, <2>3 DEF SetWorkerLanguage, TypeOK, Main, MainPcs, InUse
  <1>3. CASE StoreLanguage(p)
    <2> DEFINE c == [ctl[p] EXCEPT !.language = prefs.language]
    <2>1. c \in Controller
      BY <1>0 DEF Controller
    <2>2. ctl' = [ctl EXCEPT ![p] = c]
      BY <1>3 DEF StoreLanguage
    <2>3. ctl' \in [Procs -> Controller]
      BY <2>1, <2>2, OneChanges
    <2> QED
      BY <1>3, <2>3 DEF StoreLanguage, TypeOK, Main, MainPcs, InUse
  <1>4. ASSUME NEW timeout \in Timeouts, ChangeTimeout(p, timeout) PROVE TypeOK'
    <2> DEFINE c == [ctl[p] EXCEPT !.silenceTimeout = timeout]
    <2>1. c \in Controller
      BY <1>0 DEF Controller
    <2>2. ctl' = ctl \/ ctl' = [ctl EXCEPT ![p] = c]
      BY <1>4 DEF ChangeTimeout
    <2>3. ctl' \in [Procs -> Controller]
      BY <2>1, <2>2, OneChanges DEF TypeOK
    <2> QED
      BY <1>4, <2>3 DEF ChangeTimeout, TypeOK, history
  <1> QED
    BY <1>1, <1>2, <1>3, <1>4

\* The end of a process.
LEMMA QuitTyped ==
  ASSUME TypeOK, NEW p \in Procs,
         Die(p) \/ Terminate(p) \/ (\E q \in Procs : Restart(p, q)) \/ Quit(p)
  PROVE  TypeOK'
  <1> USE DEF TypeOK, Main, MainPcs, InUse, history
  <1>0. ctl[p] \in Controller
    OBVIOUS
  <1>1. CASE Die(p) \/ Exit(p)
    <2>1. ctl' = [ctl EXCEPT ![p] = NoController] /\ NoController \in Controller
      BY <1>1, ControllersTyped DEF Die, Exit, ProcessEnds
    <2>2. ctl' \in [Procs -> Controller]
      BY <2>1, OneChanges
    <2> QED
      BY <1>1, <2>2 DEF Die, Exit, ProcessEnds, BootPcs
  <1>2. CASE Terminate(p)
    BY <1>2 DEF Terminate, QuitBegins
  <1>3. ASSUME NEW q \in Procs, Restart(p, q) PROVE TypeOK'
    BY <1>3 DEF Restart, QuitBegins
  <1>4. CASE QuitStopsTap(p)
    BY <1>4 DEF QuitStopsTap
  <1>5. CASE QuitStopsController(p)
    <2> DEFINE c == [ctl[p] EXCEPT !.started = FALSE, !.micThread = FALSE]
    <2>1. c \in Controller
      BY <1>0 DEF Controller
    <2>2. ctl' = ctl \/ ctl' = [ctl EXCEPT ![p] = c]
      BY <1>5 DEF QuitStopsController
    <2>3. ctl' \in [Procs -> Controller]
      BY <2>1, <2>2, OneChanges
    <2> QED
      BY <1>5, <2>3 DEF QuitStopsController
  <1>6. CASE QuitDeletesController(p)
    <2> DEFINE c == [ctl[p] EXCEPT !.alive = FALSE]
    <2>1. c \in Controller
      BY <1>0 DEF Controller
    <2>2. ctl' = [ctl EXCEPT ![p] = c]
      BY <1>6 DEF QuitDeletesController
    <2>3. ctl' \in [Procs -> Controller]
      BY <2>1, <2>2, OneChanges
    <2> QED
      BY <1>6, <2>3 DEF QuitDeletesController
  <1> QED
    BY <1>1, <1>2, <1>3, <1>4, <1>5, <1>6 DEF Quit

\* Every variable has its type in every state.
THEOREM LifecycleTyped == SafetySpec => []TypeOK
  <1>1. TypeOK /\ [Next]_vars => TypeOK'
    <2> SUFFICES ASSUME TypeOK, [Next]_vars PROVE TypeOK'
      OBVIOUS
    <2>1. CASE Grant
      <3>1. CASE Procs = {}
        BY <2>1, <3>1 DEF Grant, TypeOK, history
      <3>2. CASE Procs # {}
        BY <2>1, <3>2, LaunchTyped
      <3> QED
        BY <3>1, <3>2
    <2>2. ASSUME NEW p \in Procs,
                 User(p) \/ DismissAlert(p) \/ MainThread(p) \/ RetryTap(p) \/ Start(p)
          PROVE  TypeOK'
      BY <2>2, LaunchTyped, StartTyped, SettingsTyped, QuitTyped DEF User, MainThread
    <2>3. CASE UNCHANGED vars
      BY <2>3 DEF vars, history, TypeOK
    <2> QED
      BY <2>1, <2>2, <2>3 DEF Next
  <1> QED
    BY <1>1, InitTyped, PTL DEF SafetySpec

-----------------------------------------------------------------------------

\* Process p is past the check.
PastCheck(p) == main[p] \notin {"off", "check", "gone"}

\* The inductive form of OneInstance.
OnlyOne == \A p, q \in Procs : PastCheck(p) /\ PastCheck(q) => p = q

\* It says the same.
LEMMA OnlyOneSuffices == OnlyOne => OneInstance
  <1> SUFFICES ASSUME OnlyOne PROVE OneInstance
    OBVIOUS
  <1> DEFINE past == {p \in Procs : main[p] \notin {"off", "check", "gone"}}
  <1>1. \A p, q \in past : p = q
    BY DEF OnlyOne, PastCheck
  <1>2. CASE past = {}
    BY <1>2, FS_EmptySet DEF OneInstance
  <1>3. CASE past # {}
    <2>1. PICK p \in past : past = {p}
      BY <1>1, <1>3
    <2>2. Cardinality(past) = 1
      BY <2>1, FS_Singleton
    <2> QED
      BY <2>2 DEF OneInstance
  <1> QED
    BY <1>2, <1>3

\* Whatever is opened, restarted, killed or quit.
LEMMA OnlyOneInvariant == SafetySpec => []OnlyOne
  <1>1. Init => OnlyOne
    BY DEF Init, OnlyOne, PastCheck
  <1>2. TypeOK /\ OnlyOne /\ [Next]_vars => OnlyOne'
    <2> SUFFICES ASSUME TypeOK, OnlyOne, [Next]_vars PROVE OnlyOne'
      OBVIOUS
    <2> USE DEF OnlyOne, PastCheck, Main
    <2>0. main \in [Procs -> MainPcs]
      BY DEF TypeOK
    <2>1. CASE UNCHANGED main
      BY <2>1
    <2>2. ASSUME NEW p \in Procs, Open(p) PROVE OnlyOne'
      BY <2>0, <2>2 DEF Open
    <2>3. ASSUME NEW p \in Procs, CheckInstances(p) PROVE OnlyOne'
      <3>1. CASE Others(p) = {}
        <4>1. \A q \in Procs \ {p} : main'[q] \in {"off", "gone"}
          BY <2>0, <2>3, <3>1 DEF CheckInstances, Others
        <4> QED
          BY <4>1
      <3>2. CASE Others(p) # {}
        BY <2>0, <2>3, <3>2 DEF CheckInstances
      <3> QED
        BY <3>1, <3>2
    <2>4. ASSUME NEW p \in Procs, StartController(p) \/ DismissAlert(p) \/ QueueStart(p)
          PROVE  OnlyOne'
      BY <2>0, <2>4 DEF StartController, DismissAlert, QueueStart
    <2>5. ASSUME NEW p \in Procs, NEW language \in Languages,
                 ChangeLanguage(p, language)
          PROVE  OnlyOne'
      BY <2>0, <2>5 DEF ChangeLanguage
    <2>6. ASSUME NEW p \in Procs, SetWorkerLanguage(p) \/ StoreLanguage(p)
          PROVE  OnlyOne'
      BY <2>0, <2>6 DEF SetWorkerLanguage, StoreLanguage
    <2>7. ASSUME NEW p \in Procs, Terminate(p) PROVE OnlyOne'
      BY <2>0, <2>7 DEF Terminate
    <2>8. ASSUME NEW p \in Procs, NEW q \in Procs, Restart(p, q) PROVE OnlyOne'
      BY <2>0, <2>8 DEF Restart
    <2>9. ASSUME NEW p \in Procs, Quit(p) PROVE OnlyOne'
      BY <2>0, <2>9 DEF Quit, QuitStopsTap, QuitStopsController, QuitDeletesController,
                        Exit, ProcessEnds
    <2>10. ASSUME NEW p \in Procs, Die(p) PROVE OnlyOne'
      BY <2>0, <2>10 DEF Die, ProcessEnds
    <2>11. ASSUME NEW p \in Procs,
                  Start(p) \/ RetryTap(p) \/ \E t \in Timeouts : ChangeTimeout(p, t)
           PROVE  UNCHANGED main
      BY <2>11 DEF Start, BootBegins, BootReadsLanguage, BootMakesWorker, BootLoads,
                   BootGivesUp, BootMakesAssembler, BootSaysStarted, BootEnds, BootFrame,
                   RetryTap, ChangeTimeout
    <2>12. CASE Grant \/ UNCHANGED vars
      BY <2>1, <2>12 DEF Grant, vars
    <2> QED
      BY <2>1, <2>2, <2>3, <2>4, <2>5, <2>6, <2>7, <2>8, <2>9, <2>10, <2>11, <2>12
      DEF Next, User, MainThread
  <1> QED
    BY <1>1, <1>2, LifecycleTyped, PTL DEF SafetySpec

\* bar_main.mm:23, "conflicting event taps and session file overwrites": however
\* many processes are opened, restarted, killed or quit, in whatever order their
\* checks run, no two are past the check.
THEOREM OneInstanceAlways == SafetySpec => []OneInstance
  BY OnlyOneInvariant, OnlyOneSuffices, PTL

-----------------------------------------------------------------------------

\* Where the controller of process p is made and not yet deleted; where it is in use
\* and start() is queued or later.
Holding == InUse \union {"quitTap", "quitStop", "quitDelete"}
Free    == {"running", "setting", "storing"}

\* How the three threads of process p stand to each other: the tap is within the life
\* of the controller, and so is start(), unless it was overtaken.
Wired(p) ==
  /\ ctl[p].alive <=> main[p] \in Holding
  /\ tap[p] => main[p] \in InUse \union {"quitTap"}
  /\ boot[p] \in Underway => main[p] \in Free \/ overtaken[p]
  /\ boot[p] = "none" <=> main[p] \in {"off", "check", "launch", "alert", "tapped", "gone"}

\* Where start() has the mic-control thread running and does not say started.
Making == {"making", "loading", "failed", "loaded", "made"}

\* How far the controller of process p is.
Built(p) ==
  /\ ctl[p].started => /\ boot[p] \in {"started", "over"} /\ ctl[p].worker = "ready"
                       /\ ctl[p].micThread /\ ctl[p].silenceTimeout # NoValue
                       /\ main[p] \in {"quitDelete", "exiting"} => overtaken[p]
  /\ ctl[p].micThread => boot[p] \in Making \/ ctl[p].started
  /\ boot[p] \in Making => ctl[p].micThread
  /\ boot[p] \in {"loaded", "made"} => ctl[p].worker = "ready"
  /\ boot[p] = "made" => ctl[p].silenceTimeout # NoValue
  /\ main[p] = "setting" => \/ ctl[p].worker # "none"
                            \/ boot[p] \in {"failed", "over"} /\ ~ctl[p].started

\* The inductive invariant.
UsableInv == \A p \in Procs : Wired(p) /\ Built(p)

\* It is enough.
LEMMA UsableSuffices == TypeOK /\ UsableInv => ControllerUsable
  <1> SUFFICES ASSUME TypeOK, UsableInv, NEW p \in Procs
               PROVE  /\ tap[p] => ctl[p].alive
                      /\ ctl[p].started => /\ ctl[p].worker = "ready"
                                           /\ ctl[p].micThread
                                           /\ ctl[p].silenceTimeout # NoValue
                      /\ boot[p] \in InStart \/ ctl[p].micThread
                           => ctl[p].alive \/ overtaken[p]
                      /\ main[p] = "setting" =>
                           \/ ctl[p].worker # "none"
                           \/ boot[p] \in {"failed", "over"} /\ ~ctl[p].started
    BY DEF ControllerUsable
  <1>1. Wired(p) /\ Built(p) /\ main[p] \in MainPcs /\ boot[p] \in BootPcs
    BY DEF UsableInv, TypeOK
  <1> QED
    BY <1>1 DEF Wired, Built, Holding, Free, Making, MainPcs, InUse, BootPcs, Underway,
                InStart

\* What a step of process p leaves of the others.
LEMMA OthersKept ==
  ASSUME UsableInv, NEW p \in Procs, Wired(p)' /\ Built(p)',
         \A q \in Procs \ {p} : /\ main'[q] = main[q] /\ boot'[q] = boot[q]
                                /\ ctl'[q] = ctl[q] /\ tap'[q] = tap[q]
                                /\ overtaken'[q] = overtaken[q]
  PROVE  UsableInv'
  BY DEF UsableInv, Wired, Built

\* Launch.
LEMMA LaunchUsable ==
  ASSUME TypeOK, UsableInv, NEW p \in Procs,
         \/ Open(p) \/ CheckInstances(p) \/ StartController(p) \/ DismissAlert(p)
         \/ QueueStart(p) \/ RetryTap(p)
  PROVE  UsableInv'
  <1> USE DEF Main, Boot, history, Wired, Built, Holding, Free, Making, InUse, Underway,
              InStart
  <1>0. Wired(p) /\ Built(p) /\ ctl[p] \in Controller
    BY DEF UsableInv, TypeOK
  <1>1. /\ \A q \in Procs \ {p} : /\ main'[q] = main[q] /\ boot'[q] = boot[q]
                                  /\ ctl'[q] = ctl[q] /\ tap'[q] = tap[q]
        /\ UNCHANGED overtaken
    BY DEF TypeOK, Open, CheckInstances, StartController, DismissAlert, QueueStart, RetryTap
  <1>2. CASE Open(p) \/ CheckInstances(p)
    <2>1. /\ main[p] \in {"off", "check"} /\ main'[p] \in {"check", "launch", "gone"}
          /\ UNCHANGED <<boot, ctl, tap>>
      BY <1>2 DEF TypeOK, Open, CheckInstances
    <2>2. Wired(p)' /\ Built(p)'
      BY <1>0, <1>1, <2>1
    <2> QED
      BY <1>1, <2>2, OthersKept
  <1>3. CASE StartController(p)
    <2>1. /\ main[p] = "launch" /\ main'[p] \in {"alert", "tapped"} /\ UNCHANGED boot
          /\ ctl'[p].alive /\ ~ctl'[p].started /\ ~ctl'[p].micThread
      BY <1>3 DEF TypeOK, StartController, NewController
    <2>2. Wired(p)' /\ Built(p)'
      BY <1>0, <1>1, <2>1
    <2> QED
      BY <1>1, <2>2, OthersKept
  <1>4. CASE DismissAlert(p)
    <2>1. main[p] = "alert" /\ main'[p] = "tapped" /\ UNCHANGED <<boot, ctl, tap>>
      BY <1>4 DEF TypeOK, DismissAlert
    <2>2. Wired(p)' /\ Built(p)'
      BY <1>0, <1>1, <2>1
    <2> QED
      BY <1>1, <2>2, OthersKept
  <1>5. CASE QueueStart(p)
    <2>1. /\ main[p] = "tapped" /\ main'[p] = "running" /\ boot[p] = "none"
          /\ boot'[p] = "queued" /\ UNCHANGED <<ctl, tap>>
      BY <1>5 DEF TypeOK, QueueStart
    <2>2. Wired(p)' /\ Built(p)'
      BY <1>0, <1>1, <2>1
    <2> QED
      BY <1>1, <2>2, OthersKept
  <1>6. CASE RetryTap(p)
    <2>1. main[p] = "running" /\ UNCHANGED <<main, boot, ctl>>
      BY <1>6 DEF RetryTap
    <2>2. Wired(p)' /\ Built(p)'
      BY <1>0, <1>1, <2>1
    <2> QED
      BY <1>1, <2>2, OthersKept
  <1> QED
    BY <1>2, <1>3, <1>4, <1>5, <1>6

\* start() completes the controller it was queued for.
LEMMA StartUsable ==
  ASSUME TypeOK, UsableInv, NEW p \in Procs, Start(p)
  PROVE  UsableInv'
  <1> USE DEF Boot, BootFrame, history, Wired, Built, Holding, Free, Making, InUse,
              Underway, InStart
  <1>0. Wired(p) /\ Built(p) /\ ctl[p] \in Controller
    BY DEF UsableInv, TypeOK
  <1>1. /\ \A q \in Procs \ {p} : boot'[q] = boot[q] /\ ctl'[q] = ctl[q]
        /\ UNCHANGED <<main, tap, overtaken>>
    BY DEF TypeOK, Start, BootBegins, BootReadsLanguage, BootMakesWorker, BootLoads,
           BootGivesUp, BootMakesAssembler, BootSaysStarted, BootEnds
  <1>2. CASE BootBegins(p) \/ BootEnds(p)
    <2>1. /\ \/ boot[p] = "queued" /\ boot'[p] \in {"enter", "over"}
             \/ boot[p] = "started" /\ boot'[p] = "over"
          /\ ctl' = ctl
      BY <1>2 DEF TypeOK, BootBegins, BootEnds
    <2>2. Wired(p)' /\ Built(p)'
      BY <1>0, <1>1, <2>1
    <2> QED
      BY <1>1, <2>2, OthersKept
  <1>3. CASE BootReadsLanguage(p) \/ BootMakesWorker(p)
    <2>1. /\ \/ boot[p] = "enter" /\ boot'[p] = "making" /\ ctl'[p].worker = ctl[p].worker
             \/ boot[p] = "making" /\ boot'[p] = "loading" /\ ctl'[p].worker = "loading"
          /\ ctl'[p].alive = ctl[p].alive /\ ctl'[p].started = ctl[p].started
          /\ ctl'[p].micThread
      BY <1>0, <1>3 DEF TypeOK, BootReadsLanguage, BootMakesWorker, Controller
    <2>2. Wired(p)' /\ Built(p)'
      BY <1>0, <1>1, <2>1
    <2> QED
      BY <1>1, <2>2, OthersKept
  <1>4. CASE BootLoads(p)
    <2>1. /\ boot[p] = "loading"
          /\ ctl'[p].alive = ctl[p].alive /\ ctl'[p].started = ctl[p].started
          /\ ctl'[p].micThread = ctl[p].micThread
          /\ \/ boot'[p] = "loaded" /\ ctl'[p].worker = "ready"
             \/ boot'[p] = "failed"
      BY <1>0, <1>4 DEF TypeOK, BootLoads, Controller
    <2>2. Wired(p)' /\ Built(p)'
      BY <1>0, <1>1, <2>1
    <2> QED
      BY <1>1, <2>2, OthersKept
  <1>5. CASE BootGivesUp(p)
    <2>1. /\ boot[p] = "failed" /\ boot'[p] = "over"
          /\ ctl'[p].alive = ctl[p].alive /\ ctl'[p].started = ctl[p].started
          /\ ctl'[p].worker = ctl[p].worker /\ ~ctl'[p].micThread
      BY <1>0, <1>5 DEF TypeOK, BootGivesUp, Controller
    <2>2. Wired(p)' /\ Built(p)'
      BY <1>0, <1>1, <2>1
    <2> QED
      BY <1>1, <2>2, OthersKept
  <1>6. CASE BootMakesAssembler(p)
    <2>1. /\ boot[p] = "loaded" /\ boot'[p] = "made"
          /\ ctl'[p].alive = ctl[p].alive /\ ctl'[p].started = ctl[p].started
          /\ ctl'[p].micThread = ctl[p].micThread /\ ctl'[p].worker = ctl[p].worker
          /\ ctl'[p].silenceTimeout = DefaultTimeout
      BY <1>0, <1>6 DEF TypeOK, BootMakesAssembler, Controller
    <2>2. DefaultTimeout # NoValue
      BY LifecycleAssumption
    <2>3. Wired(p)' /\ Built(p)'
      BY <1>0, <1>1, <2>1, <2>2
    <2> QED
      BY <1>1, <2>3, OthersKept
  <1>7. CASE BootSaysStarted(p)
    <2>1. /\ boot[p] = "made" /\ boot'[p] = "started"
          /\ ctl'[p].alive = ctl[p].alive /\ ctl'[p].started
          /\ ctl'[p].micThread = ctl[p].micThread /\ ctl'[p].worker = ctl[p].worker
          /\ ctl'[p].silenceTimeout = ctl[p].silenceTimeout
      BY <1>0, <1>7 DEF TypeOK, BootSaysStarted, Controller
    <2>2. Wired(p)' /\ Built(p)'
      BY <1>0, <1>1, <2>1
    <2> QED
      BY <1>1, <2>2, OthersKept
  <1> QED
    BY <1>2, <1>3, <1>4, <1>5, <1>6, <1>7 DEF Start

\* Settings, whatever start() is doing.
LEMMA SettingsUsable ==
  ASSUME TypeOK, UsableInv, NEW p \in Procs,
         \/ \E language \in Languages : ChangeLanguage(p, language)
         \/ SetWorkerLanguage(p) \/ StoreLanguage(p)
         \/ \E timeout \in Timeouts : ChangeTimeout(p, timeout)
  PROVE  UsableInv'
  <1> USE DEF Main, history
  <1>0. Wired(p) /\ Built(p) /\ ctl[p] \in Controller
    BY DEF UsableInv, TypeOK
  <1>1. /\ \A q \in Procs \ {p} : main'[q] = main[q] /\ ctl'[q] = ctl[q]
        /\ UNCHANGED <<boot, tap, overtaken>>
    BY DEF TypeOK, ChangeLanguage, SetWorkerLanguage, StoreLanguage, ChangeTimeout
  <1>2. /\ main[p] \in Free /\ main'[p] \in Free
        /\ main'[p] = "setting" => ctl[p].worker # "none"
        /\ ctl'[p].alive = ctl[p].alive /\ ctl'[p].started = ctl[p].started
        /\ ctl'[p].micThread = ctl[p].micThread /\ ctl'[p].worker = ctl[p].worker
    BY <1>0 DEF TypeOK, ChangeLanguage, SetWorkerLanguage, StoreLanguage, ChangeTimeout,
                Controller, Free
  <1>3. ctl'[p].silenceTimeout = ctl[p].silenceTimeout
        \/ ctl'[p].silenceTimeout \in Timeouts
    BY <1>0 DEF TypeOK, ChangeLanguage, SetWorkerLanguage, StoreLanguage, ChangeTimeout,
                Controller
  <1>4. NoValue \notin Timeouts
    BY LifecycleAssumption
  <1>5. Wired(p)' /\ Built(p)'
    BY <1>0, <1>1, <1>2, <1>3, <1>4 DEF Wired, Built, Holding, Free, Making, InUse
  <1> QED
    BY <1>1, <1>5, OthersKept

\* The app is quit, which may overtake start(), or it dies with everything in it.
LEMMA QuitUsable ==
  ASSUME TypeOK, UsableInv, NEW p \in Procs,
         Die(p) \/ Terminate(p) \/ (\E q \in Procs : Restart(p, q)) \/ Quit(p)
  PROVE  UsableInv'
  <1> USE DEF Main, history, Wired, Built, Holding, Free, Making, InUse, Underway, InStart
  <1>0. Wired(p) /\ Built(p) /\ ctl[p] \in Controller
    BY DEF UsableInv, TypeOK
  <1>1. CASE Terminate(p)
    <2>1. /\ \A q \in Procs \ {p} : main'[q] = main[q] /\ overtaken'[q] = overtaken[q]
          /\ main[p] = "running" /\ main'[p] = "quitTap"
          /\ overtaken'[p] = (boot[p] \in Underway)
          /\ UNCHANGED <<boot, ctl, tap>>
      BY <1>1 DEF TypeOK, Terminate, QuitBegins
    <2>2. Wired(p)' /\ Built(p)'
      BY <1>0, <2>1
    <2> QED
      BY <2>1, <2>2, OthersKept
  <1>2. ASSUME NEW q \in Procs, Restart(p, q) PROVE UsableInv'
    <2>1. /\ \A r \in Procs \ {p, q} : main'[r] = main[r]
          /\ main[p] = "running" /\ main'[p] = "quitTap"
          /\ main[q] = "off" /\ main'[q] = "check"
          /\ overtaken'[p] = (boot[p] \in Underway)
          /\ \A r \in Procs \ {p} : overtaken'[r] = overtaken[r]
          /\ UNCHANGED <<boot, ctl, tap>>
      BY <1>2 DEF TypeOK, Restart, QuitBegins
    <2>2. (Wired(p) /\ Built(p))'
      BY <1>0, <2>1
    <2>3. (Wired(q) /\ Built(q))'
      <3>1. Wired(q) /\ Built(q) /\ p # q
        BY <2>1 DEF UsableInv
      <3> QED
        BY <2>1, <3>1
    <2>4. ASSUME NEW r \in Procs \ {p, q} PROVE (Wired(r) /\ Built(r))'
      <3>1. Wired(r) /\ Built(r)
        BY DEF UsableInv
      <3> QED
        BY <2>1, <3>1
    <2> QED
      BY <2>2, <2>3, <2>4 DEF UsableInv
  <1>3. CASE Die(p) \/ Exit(p)
    <2>1. /\ \A q \in Procs \ {p} : /\ main'[q] = main[q] /\ boot'[q] = boot[q]
                                    /\ ctl'[q] = ctl[q] /\ tap'[q] = tap[q]
                                    /\ overtaken'[q] = overtaken[q]
          /\ main'[p] = "gone" /\ boot'[p] = "none" /\ ~tap'[p]
          /\ ctl'[p] = NoController
      BY <1>3 DEF TypeOK, Die, Exit, ProcessEnds
    <2>2. ~NoController.alive /\ ~NoController.started /\ ~NoController.micThread
      BY DEF NoController, NewController
    <2>3. Wired(p)' /\ Built(p)'
      BY <2>1, <2>2
    <2> QED
      BY <2>1, <2>3, OthersKept
  <1>4. CASE QuitStopsTap(p)
    <2>1. /\ \A q \in Procs \ {p} : main'[q] = main[q] /\ tap'[q] = tap[q]
          /\ main[p] = "quitTap" /\ main'[p] = "quitStop" /\ ~tap'[p]
          /\ UNCHANGED <<boot, ctl, overtaken>>
      BY <1>4 DEF TypeOK, QuitStopsTap
    <2>2. Wired(p)' /\ Built(p)'
      BY <1>0, <2>1
    <2> QED
      BY <2>1, <2>2, OthersKept
  <1>5. CASE QuitStopsController(p)
    <2>1. /\ \A q \in Procs \ {p} : main'[q] = main[q] /\ ctl'[q] = ctl[q]
          /\ main[p] = "quitStop" /\ main'[p] = "quitDelete"
          /\ UNCHANGED <<boot, tap, overtaken>>
      BY <1>0, <1>5 DEF TypeOK, QuitStopsController
    <2>2. /\ ctl'[p].alive = ctl[p].alive /\ ~ctl'[p].started
          /\ ctl'[p].worker = ctl[p].worker
          /\ ctl'[p].silenceTimeout = ctl[p].silenceTimeout
          /\ \/ ctl'[p].micThread = ctl[p].micThread /\ ~ctl[p].started
             \/ ~ctl'[p].micThread /\ ctl[p].started
      BY <1>0, <1>5 DEF TypeOK, QuitStopsController, Controller
    <2>3. Wired(p)' /\ Built(p)'
      BY <1>0, <2>1, <2>2
    <2> QED
      BY <2>1, <2>3, OthersKept
  <1>6. CASE QuitDeletesController(p)
    <2>1. /\ \A q \in Procs \ {p} : main'[q] = main[q] /\ ctl'[q] = ctl[q]
          /\ main[p] = "quitDelete" /\ main'[p] = "exiting"
          /\ UNCHANGED <<boot, tap, overtaken>>
          /\ ~ctl'[p].alive /\ ctl'[p].started = ctl[p].started
          /\ ctl'[p].micThread = ctl[p].micThread /\ ctl'[p].worker = ctl[p].worker
          /\ ctl'[p].silenceTimeout = ctl[p].silenceTimeout
      BY <1>0, <1>6 DEF TypeOK, QuitDeletesController, Controller
    <2>2. Wired(p)' /\ Built(p)'
      BY <1>0, <2>1
    <2> QED
      BY <2>1, <2>2, OthersKept
  <1> QED
    BY <1>1, <1>2, <1>3, <1>4, <1>5, <1>6 DEF Quit

\* Of every behaviour.
LEMMA UsableInvariant == SafetySpec => []UsableInv
  <1>1. Init => UsableInv
    BY DEF Init, UsableInv, Wired, Built, Holding, InUse, Making, Underway, InStart,
           NoController, NewController
  <1>2. TypeOK /\ UsableInv /\ [Next]_vars => UsableInv'
    <2> SUFFICES ASSUME TypeOK, UsableInv, [Next]_vars PROVE UsableInv'
      OBVIOUS
    <2>1. CASE Grant \/ UNCHANGED vars
      BY <2>1 DEF Grant, vars, history, UsableInv, Wired, Built
    <2>2. ASSUME NEW p \in Procs,
                 User(p) \/ DismissAlert(p) \/ MainThread(p) \/ RetryTap(p) \/ Start(p)
          PROVE  UsableInv'
      BY <2>2, LaunchUsable, StartUsable, SettingsUsable, QuitUsable
      DEF User, MainThread
    <2> QED
      BY <2>1, <2>2 DEF Next
  <1> QED
    BY <1>1, <1>2, LifecycleTyped, PTL DEF SafetySpec

\* app_delegate.mm:110, stop() and then the controller is deleted: whenever the user
\* changes a setting, quits or restarts, the hotkey thread never finds a controller that
\* is deleted, nobody one that says it has started and is incomplete, setLanguage() a
\* worker that has gone only if loading failed, and start() and the mic-control thread a
\* deleted controller only if the app was quit before start() was over.
THEOREM ControllerUsableAlways == SafetySpec => []ControllerUsable
  BY UsableInvariant, LifecycleTyped, UsableSuffices, PTL

-----------------------------------------------------------------------------

\* Where start() has not read the language, and where it has, for a worker that will be
\* or is at work.
Unread == {"none", "queued", "enter"}
Told(p) == boot[p] \in {"making", "loading", "loaded", "made", "started"} \/ ctl[p].started

\* The language of the process that is on: the controller's until start() has read it,
\* the worker's from then on.
LanguageInv ==
  \A p \in Procs :
    /\ main[p] \in InUse /\ boot[p] \in Unread \union {"making"} => ctl[p].worker = "none"
    /\ main[p] = "setting" => boot[p] \notin Unread \union {"making"}
    /\ main[p] \in {"alert", "tapped", "running"} /\ boot[p] \in Unread =>
         ctl[p].language = prefs.language
    /\ main[p] = "running" /\ Told(p) =>
         ctl[p].workerLanguage = prefs.language \/ late[p]

\* What a step of process p that keeps the language of the preferences leaves of the
\* others.
LEMMA OthersSpeak ==
  ASSUME LanguageInv, NEW p \in Procs, prefs'.language = prefs.language,
         \A q \in Procs \ {p} : /\ main'[q] = main[q] /\ boot'[q] = boot[q]
                                /\ ctl'[q] = ctl[q] /\ late'[q] = late[q],
         /\ main'[p] \in InUse /\ boot'[p] \in Unread \union {"making"}
              => ctl'[p].worker = "none"
         /\ main'[p] = "setting" => boot'[p] \notin Unread \union {"making"}
         /\ main'[p] \in {"alert", "tapped", "running"} /\ boot'[p] \in Unread =>
              ctl'[p].language = prefs'.language
         /\ main'[p] = "running" /\ Told(p)' =>
              ctl'[p].workerLanguage = prefs'.language \/ late'[p]
  PROVE  LanguageInv'
  BY DEF LanguageInv, Told

\* Launch and start().
LEMMA StartSpeaks ==
  ASSUME TypeOK, UsableInv, LanguageInv, NEW p \in Procs,
         \/ Open(p) \/ CheckInstances(p) \/ StartController(p) \/ DismissAlert(p)
         \/ QueueStart(p) \/ RetryTap(p) \/ Start(p)
  PROVE  LanguageInv'
  <1> USE DEF Main, Boot, BootFrame, history, InUse, Unread
  <1>0. /\ Wired(p) /\ Built(p) /\ ctl[p] \in Controller
        /\ main[p] \in {"alert", "tapped", "running"} /\ boot[p] \in Unread =>
             ctl[p].language = prefs.language
        /\ main[p] = "running" /\ Told(p) =>
             ctl[p].workerLanguage = prefs.language \/ late[p]
        /\ main[p] \in InUse /\ boot[p] \in Unread \union {"making"}
             => ctl[p].worker = "none"
        /\ main[p] = "setting" => boot[p] \notin Unread \union {"making"}
    BY DEF UsableInv, TypeOK, LanguageInv
  <1>1. /\ \A q \in Procs \ {p} : /\ main'[q] = main[q] /\ boot'[q] = boot[q]
                                  /\ ctl'[q] = ctl[q]
        /\ UNCHANGED <<prefs, late>>
    BY DEF TypeOK, Open, CheckInstances, StartController, DismissAlert, QueueStart, RetryTap,
           Start, BootBegins, BootReadsLanguage, BootMakesWorker, BootLoads, BootGivesUp,
           BootMakesAssembler, BootSaysStarted, BootEnds
  <1>2. CASE Open(p) \/ CheckInstances(p)
    <2>1. main'[p] \in {"check", "launch", "gone"}
      BY <1>2 DEF TypeOK, Open, CheckInstances
    <2> QED
      BY <1>1, <2>1, OthersSpeak
  <1>3. CASE StartController(p)
    <2>1. /\ main[p] = "launch" /\ main'[p] \in {"alert", "tapped"} /\ UNCHANGED boot
          /\ ctl'[p].worker = "none" /\ ctl'[p].language = prefs.language
      BY <1>3 DEF TypeOK, StartController, NewController
    <2> QED
      BY <1>1, <2>1, OthersSpeak
  <1>4. CASE DismissAlert(p) \/ QueueStart(p)
    <2>1. /\ main[p] \in {"alert", "tapped"} /\ main'[p] \in {"tapped", "running"}
          /\ UNCHANGED ctl
          /\ \/ boot' = boot
             \/ boot[p] = "none" /\ boot'[p] = "queued"
      <3>1. CASE DismissAlert(p)
        BY <3>1 DEF TypeOK, DismissAlert
      <3>2. CASE QueueStart(p)
        BY <3>2 DEF TypeOK, QueueStart
      <3> QED
        BY <1>4, <3>1, <3>2
    <2>2. boot[p] = "none" /\ ~ctl[p].started
      BY <1>0, <2>1 DEF Wired, Built
    <2>3. ~Told(p)'
      BY <2>1, <2>2 DEF Told
    <2> QED
      BY <1>0, <1>1, <2>1, <2>2, <2>3, OthersSpeak
  <1>5. CASE RetryTap(p)
    BY <1>0, <1>1, <1>5, OthersSpeak DEF RetryTap, Told
  <1>6. CASE Start(p)
    <2>0. UNCHANGED main
      BY <1>6 DEF Start, BootBegins, BootReadsLanguage, BootMakesWorker, BootLoads,
                  BootGivesUp, BootMakesAssembler, BootSaysStarted, BootEnds
    <2>1. CASE BootBegins(p) \/ BootEnds(p)
      <3>1. /\ \/ boot[p] = "queued" /\ boot'[p] \in {"enter", "over"}
               \/ boot[p] = "started" /\ boot'[p] = "over"
            /\ ctl' = ctl
        BY <2>1 DEF TypeOK, BootBegins, BootEnds
      <3>2. Told(p)' => Told(p)
        BY <3>1 DEF Told
      <3> QED
        BY <1>0, <1>1, <2>0, <3>1, <3>2, OthersSpeak
    <2>2. CASE BootReadsLanguage(p)
      <3>1. /\ boot[p] = "enter" /\ boot'[p] = "making"
            /\ ctl'[p].worker = ctl[p].worker
            /\ ctl'[p].workerLanguage = ctl[p].language
        BY <1>0, <2>2 DEF TypeOK, BootReadsLanguage, Controller
      <3>2. main[p] # "setting"
        BY <1>0, <3>1
      <3> QED
        BY <1>0, <1>1, <2>0, <3>1, <3>2, OthersSpeak
    <2>3. CASE \/ BootMakesWorker(p) \/ BootLoads(p) \/ BootGivesUp(p)
               \/ BootMakesAssembler(p) \/ BootSaysStarted(p)
      <3>1. /\ boot[p] \in {"making", "loading", "failed", "loaded", "made"}
            /\ boot'[p] \in {"loading", "failed", "loaded", "made", "started", "over"}
            /\ boot[p] = "failed" => boot'[p] = "over" /\ ctl'[p].started = ctl[p].started
            /\ boot'[p] = "over" => boot[p] = "failed"
            /\ boot'[p] # "failed" => ctl'[p].workerLanguage = ctl[p].workerLanguage
            /\ boot'[p] # "started" => ctl'[p].started = ctl[p].started
        BY <1>0, <2>3 DEF TypeOK, BootMakesWorker, BootLoads, BootGivesUp,
           BootMakesAssembler, BootSaysStarted, Controller
      <3>2. ~ctl[p].started
        BY <1>0, <3>1 DEF Built
      <3>3. Told(p)' => Told(p) /\ boot'[p] # "failed"
        BY <3>1, <3>2 DEF Told
      <3> QED
        BY <1>0, <1>1, <2>0, <3>1, <3>3, OthersSpeak
    <2> QED
      BY <1>6, <2>1, <2>2, <2>3 DEF Start
  <1> QED
    BY <1>2, <1>3, <1>4, <1>5, <1>6

\* Settings: the process that changes them is the only one that reads them.
LEMMA SettingsSpeak ==
  ASSUME TypeOK, OnlyOne, UsableInv, LanguageInv, NEW p \in Procs,
         \/ \E language \in Languages : ChangeLanguage(p, language)
         \/ SetWorkerLanguage(p) \/ StoreLanguage(p)
         \/ \E timeout \in Timeouts : ChangeTimeout(p, timeout)
  PROVE  LanguageInv'
  <1> USE DEF Main, history, InUse, Unread
  <1>0. /\ Wired(p) /\ Built(p) /\ ctl[p] \in Controller
        /\ main[p] = "running" /\ Told(p) =>
             ctl[p].workerLanguage = prefs.language \/ late[p]
        /\ main[p] \in InUse /\ boot[p] \in Unread \union {"making"}
             => ctl[p].worker = "none"
        /\ main[p] = "setting" => boot[p] \notin Unread \union {"making"}
        /\ main[p] \in {"alert", "tapped", "running"} /\ boot[p] \in Unread =>
             ctl[p].language = prefs.language
    BY DEF UsableInv, TypeOK, LanguageInv
  <1>1. ASSUME NEW language \in Languages, ChangeLanguage(p, language) PROVE LanguageInv'
    <2>1. /\ \A q \in Procs \ {p} : main'[q] = main[q]
          /\ main[p] = "running"
          /\ main'[p] = IF ctl[p].worker = "none" THEN "storing" ELSE "setting"
          /\ UNCHANGED <<boot, ctl, late>>
      BY <1>1 DEF TypeOK, ChangeLanguage
    <2>2. \A q \in Procs \ {p} : main[q] \in {"off", "check", "gone"}
      BY <2>1 DEF OnlyOne, PastCheck
    <2> QED
      BY <1>0, <2>1, <2>2 DEF LanguageInv
  <1>2. CASE SetWorkerLanguage(p)
    <2>1. /\ \A q \in Procs \ {p} : /\ main'[q] = main[q] /\ ctl'[q] = ctl[q]
                                    /\ late'[q] = late[q]
          /\ main[p] = "setting" /\ main'[p] = "running" /\ UNCHANGED <<prefs, boot>>
          /\ ctl'[p].workerLanguage = prefs.language
      BY <1>0, <1>2 DEF TypeOK, SetWorkerLanguage, Controller
    <2> QED
      BY <1>0, <2>1, OthersSpeak
  <1>3. CASE StoreLanguage(p)
    <2>1. /\ \A q \in Procs \ {p} : /\ main'[q] = main[q] /\ ctl'[q] = ctl[q]
                                    /\ late'[q] = late[q]
          /\ main[p] = "storing" /\ main'[p] = "running" /\ UNCHANGED <<prefs, boot>>
          /\ ctl'[p].language = prefs.language /\ ctl'[p].worker = ctl[p].worker
          /\ ctl'[p].started = ctl[p].started
          /\ late'[p] = (boot[p] \notin {"queued", "enter"})
      BY <1>0, <1>3 DEF TypeOK, StoreLanguage, Controller
    <2>2. Told(p)' => boot[p] \notin {"queued", "enter"}
      BY <1>0, <2>1 DEF Told, Built
    <2> QED
      BY <1>0, <2>1, <2>2, OthersSpeak
  <1>4. ASSUME NEW timeout \in Timeouts, ChangeTimeout(p, timeout) PROVE LanguageInv'
    <2>1. /\ UNCHANGED <<main, boot, late>> /\ prefs'.language = prefs.language
          /\ \A q \in Procs \ {p} : ctl'[q] = ctl[q]
          /\ ctl'[p].language = ctl[p].language /\ ctl'[p].worker = ctl[p].worker
          /\ ctl'[p].started = ctl[p].started
          /\ ctl'[p].workerLanguage = ctl[p].workerLanguage
      BY <1>0, <1>4 DEF TypeOK, ChangeTimeout, Controller
    <2>2. Told(p)' <=> Told(p)
      BY <2>1 DEF Told
    <2> QED
      BY <1>0, <2>1, <2>2, OthersSpeak
  <1> QED
    BY <1>1, <1>2, <1>3, <1>4

\* The end of a process.
LEMMA QuitSpeaks ==
  ASSUME TypeOK, LanguageInv, NEW p \in Procs,
         Die(p) \/ Terminate(p) \/ (\E q \in Procs : Restart(p, q)) \/ Quit(p)
  PROVE  LanguageInv'
  <1> USE DEF Main, history, InUse
  <1>1. ASSUME NEW q \in Procs, Restart(p, q) PROVE LanguageInv'
    <2>1. /\ \A r \in Procs \ {p, q} : main'[r] = main[r]
          /\ main'[p] = "quitTap" /\ main'[q] = "check"
          /\ UNCHANGED <<prefs, boot, ctl, late>>
      BY <1>1 DEF TypeOK, Restart, QuitBegins
    <2> QED
      BY <2>1 DEF LanguageInv, Told
  <1>2. CASE Die(p) \/ Terminate(p) \/ Quit(p)
    <2>1. /\ \A q \in Procs \ {p} : /\ main'[q] = main[q] /\ boot'[q] = boot[q]
                                    /\ ctl'[q] = ctl[q] /\ late'[q] = late[q]
          /\ main'[p] \in {"quitTap", "quitStop", "quitDelete", "exiting", "gone"}
          /\ UNCHANGED prefs
      BY <1>2 DEF TypeOK, Die, Terminate, QuitBegins, Quit, QuitStopsTap,
         QuitStopsController, QuitDeletesController, Exit, ProcessEnds
    <2> QED
      BY <2>1, OthersSpeak
  <1> QED
    BY <1>1, <1>2

\* README.md:109, "takes effect immediately": for any number of processes and of changes,
\* while the model is being loaded too, a started controller's worker has the language
\* chosen last, unless setLanguage() looked for a worker before start() had made it and
\* stored the language after start() had read it.
THEOREM LanguageAppliedAlways == SafetySpec => []LanguageApplied
  <1>1. Init => LanguageInv
    BY DEF Init, LanguageInv, InUse
  <1>2. TypeOK /\ OnlyOne /\ UsableInv /\ LanguageInv /\ [Next]_vars => LanguageInv'
    <2> SUFFICES ASSUME TypeOK, OnlyOne, UsableInv, LanguageInv, [Next]_vars
                 PROVE  LanguageInv'
      OBVIOUS
    <2>1. CASE Grant \/ UNCHANGED vars
      BY <2>1 DEF Grant, vars, history, LanguageInv, Told
    <2>2. ASSUME NEW p \in Procs,
                 User(p) \/ DismissAlert(p) \/ MainThread(p) \/ RetryTap(p) \/ Start(p)
          PROVE  LanguageInv'
      BY <2>2, StartSpeaks, SettingsSpeak, QuitSpeaks DEF User, MainThread
    <2> QED
      BY <2>1, <2>2 DEF Next
  <1>3. LanguageInv => LanguageApplied
    BY DEF LanguageInv, Told, LanguageApplied
  <1> QED
    BY <1>1, <1>2, <1>3, LifecycleTyped, OnlyOneInvariant, UsableInvariant, PTL
    DEF SafetySpec

=============================================================================
