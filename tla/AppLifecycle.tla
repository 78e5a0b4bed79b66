---------------------------- MODULE AppLifecycle ----------------------------
(***************************************************************************)
(* Processes of the app from launch to quit: the single-instance check of  *)
(* src/src/bar_main.mm, then src/src/app_delegate.mm, which makes the      *)
(* controller, starts the event tap or a timer that retries it, and has    *)
(* start() (src/src/app_controller.cpp) load the model on a background     *)
(* queue while settings are changed and the app may be quit.               *)
(*                                                                         *)
(* Preferences outlive a process.  What the controller's threads do once   *)
(* started is AppController: there the behaviour begins where start()      *)
(* ends, and stop() is one step here.                                      *)
(***************************************************************************)
EXTENDS Naturals, FiniteSets

CONSTANTS
  Procs,          \* bound: processes launched
  Languages, DefaultLanguage,
  Timeouts, DefaultTimeout,     \* silence timeouts, and SILENCE_TIMEOUT_S
  NoValue,        \* a setting whose component is not made yet
  ModelMayFail    \* the model may fail to load

ASSUME LifecycleAssumption ==
  /\ DefaultLanguage \in Languages /\ DefaultTimeout \in Timeouts
  /\ NoValue \notin Languages /\ NoValue \notin Timeouts
  /\ ModelMayFail \in BOOLEAN

VARIABLES
  prefs,    \* NSUserDefaults
  granted,  \* Accessibility is granted
  main,     \* where the main thread of each process is
  boot,     \* where its background start() is
  ctl,      \* its controller
  tap,      \* its event tap runs
  retry,    \* its _accessibilityRetryTimer is set
  late,     \* history: setLanguage() saw no worker, and stored behind start()'s back
  overtaken \* history: it was quit before start() was over

history == <<late, overtaken>>
vars == <<prefs, granted, main, boot, ctl, tap, retry, history>>

InUse   == {"alert", "tapped", "running", "setting", "storing"}
MainPcs == {"off", "check", "launch"} \union InUse
             \union {"quitTap", "quitStop", "quitDelete", "exiting", "gone"}

\* In start(), past its first look at the controller; queued or in start(); all places.
InStart  == {"enter", "making", "loading", "failed", "loaded", "made", "started"}
Underway == {"queued"} \union InStart
BootPcs  == {"none"} \union Underway \union {"over"}

Controller == [alive        : BOOLEAN,    \* made and not deleted
               started      : BOOLEAN,
               micThread    : BOOLEAN,    \* mic_control_thread is joinable
               worker       : {"none", "loading", "ready"},
               language     : Languages,
               workerLanguage  : Languages \union {NoValue},
               silenceTimeout  : Timeouts \union {NoValue}]  \* the assembler's

NewController(language) ==
  [alive |-> TRUE, started |-> FALSE, micThread |-> FALSE, worker |-> "none",
   language |-> language, workerLanguage |-> NoValue, silenceTimeout |-> NoValue]
NoController == [NewController(DefaultLanguage) EXCEPT !.alive = FALSE]

\* Besides the types: the timer is set only after the alert, and while there is no tap.
TypeOK ==
  /\ prefs \in [language : Languages, timeout : Timeouts]
  /\ granted \in BOOLEAN
  /\ main \in [Procs -> MainPcs] /\ boot \in [Procs -> BootPcs]
  /\ ctl \in [Procs -> Controller]
  /\ tap \in [Procs -> BOOLEAN] /\ retry \in [Procs -> BOOLEAN]
  /\ late \in [Procs -> BOOLEAN] /\ overtaken \in [Procs -> BOOLEAN]
  /\ \A p \in Procs : /\ retry[p] => ~tap[p] /\ main[p] \in InUse \ {"alert"}
                      /\ main[p] \in {"off", "check", "launch", "alert"} => ~tap[p]

\* The preferences are those of earlier days.
Init ==
  /\ prefs \in [language : Languages, timeout : Timeouts]
  /\ granted \in BOOLEAN
  /\ main = [p \in Procs |-> "off"] /\ boot = [p \in Procs |-> "none"]
  /\ ctl = [p \in Procs |-> NoController]
  /\ tap = [p \in Procs |-> FALSE] /\ retry = [p \in Procs |-> FALSE]
  /\ late = [p \in Procs |-> FALSE] /\ overtaken = [p \in Procs |-> FALSE]

Main(p, from, to) == main[p] = from /\ main' = [main EXCEPT ![p] = to]
Boot(p, from, to) == boot[p] = from /\ boot' = [boot EXCEPT ![p] = to]

-----------------------------------------------------------------------------
(***************************************************************************)
(* Launch.                                                                 *)
(***************************************************************************)

Open(p) ==
  /\ Main(p, "off", "check")
  /\ UNCHANGED <<prefs, granted, boot, ctl, tap, retry, history>>

\* Mutant: a process that is about to quit does not count.
OthersNotQuitting(p) ==
  {q \in Procs \ {p} : main[q] \in {"check", "launch"} \union InUse}

\* The processes the system lists besides p itself.
Others(p) == {q \in Procs \ {p} : main[q] \notin {"off", "gone"}}

\* main(): one instance only.
CheckInstances(p) ==
  /\ Main(p, "check", IF Others(p) = {} THEN "launch" ELSE "gone")
  /\ UNCHANGED <<prefs, granted, boot, ctl, tap, retry, history>>

\* startController: the silence timeout is set on an assembler that does not exist
\* yet, and the tap is started, or an alert shown.
StartController(p) ==
  /\ Main(p, "launch", IF granted THEN "tapped" ELSE "alert")
  /\ ctl' = [ctl EXCEPT ![p] = NewController(prefs.language)]
  /\ tap' = [tap EXCEPT ![p] = granted]
  /\ UNCHANGED <<prefs, granted, boot, retry, history>>

\* Mutant: no timer is set.
DismissAlertOnly(p) ==
  /\ Main(p, "alert", "tapped")
  /\ UNCHANGED <<prefs, granted, boot, ctl, tap, retry, history>>

\* showAccessibilityDeniedAlert has blocked the main thread till here; now the timer.
DismissAlert(p) ==
  /\ Main(p, "alert", "tapped")
  /\ retry' = [retry EXCEPT ![p] = TRUE]
  /\ UNCHANGED <<prefs, granted, boot, ctl, tap, history>>

\* Only then is start() queued, and the main thread free.
QueueStart(p) ==
  /\ Main(p, "tapped", "running")
  /\ Boot(p, "none", "queued")
  /\ UNCHANGED <<prefs, granted, ctl, tap, retry, history>>

\* Mutant: a tap that runs does not end the timer.
RetryTapForever(p) ==
  /\ main[p] = "running" /\ retry[p] /\ granted
  /\ tap' = [tap EXCEPT ![p] = TRUE]
  /\ UNCHANGED <<prefs, granted, main, boot, ctl, retry, history>>

\* The timer, on the main thread.
RetryTap(p) ==
  /\ main[p] = "running" /\ retry[p] /\ granted
  /\ tap' = [tap EXCEPT ![p] = TRUE]
  /\ retry' = [retry EXCEPT ![p] = FALSE]
  /\ UNCHANGED <<prefs, granted, main, boot, ctl, history>>

Grant ==
  /\ ~granted /\ granted' = TRUE
  /\ UNCHANGED <<prefs, main, boot, ctl, tap, retry, history>>

-----------------------------------------------------------------------------
(***************************************************************************)
(* start(), on the background queue.                                       *)
(***************************************************************************)

BootFrame == UNCHANGED <<prefs, granted, main, tap, retry, history>>

\* The block looks at _controller, and calls start() in a later step.
BootBegins(p) ==
  /\ Boot(p, "queued", IF ctl[p].alive THEN "enter" ELSE "over")
  /\ UNCHANGED ctl
  /\ BootFrame

\* The mic-control thread; and the language for the worker to be made.
BootReadsLanguage(p) ==
  /\ Boot(p, "enter", "making")
  /\ ctl' = [ctl EXCEPT ![p].micThread = TRUE, ![p].workerLanguage = ctl[p].language]
  /\ BootFrame

BootMakesWorker(p) ==
  /\ Boot(p, "making", "loading")
  /\ ctl' = [ctl EXCEPT ![p].worker = "loading"]
  /\ BootFrame

\* worker->start(); if it fails the worker is taken back ...
BootLoads(p) ==
  /\ \/ /\ Boot(p, "loading", "loaded")
        /\ ctl' = [ctl EXCEPT ![p].worker = "ready"]
     \/ /\ ModelMayFail
        /\ Boot(p, "loading", "failed")
        /\ ctl' = [ctl EXCEPT ![p].worker = "none", ![p].workerLanguage = NoValue]
  /\ BootFrame

\* ... and the mic-control thread.
BootGivesUp(p) ==
  /\ Boot(p, "failed", "over")
  /\ ctl' = [ctl EXCEPT ![p].micThread = FALSE]
  /\ BootFrame

\* The assembler, with the timeout of its own.
BootMakesAssembler(p) ==
  /\ Boot(p, "loaded", "made")
  /\ ctl' = [ctl EXCEPT ![p].silenceTimeout = DefaultTimeout]
  /\ BootFrame

BootSaysStarted(p) ==
  /\ Boot(p, "made", "started")
  /\ ctl' = [ctl EXCEPT ![p].started = TRUE]
  /\ BootFrame

\* The last notifyStatus() of start().
BootEnds(p) ==
  /\ Boot(p, "started", "over")
  /\ UNCHANGED ctl
  /\ BootFrame

Start(p) ==
  \/ BootBegins(p) \/ BootReadsLanguage(p) \/ BootMakesWorker(p) \/ BootLoads(p)
  \/ BootGivesUp(p) \/ BootMakesAssembler(p) \/ BootSaysStarted(p) \/ BootEnds(p)

-----------------------------------------------------------------------------
(***************************************************************************)
(* Settings, on the main thread, at any time.                              *)
(***************************************************************************)

\* setLanguage() looks for a worker.
ChangeLanguage(p, language) ==
  /\ Main(p, "running", IF ctl[p].worker = "none" THEN "storing" ELSE "setting")
  /\ language # prefs.language
  /\ prefs' = [prefs EXCEPT !.language = language]
  /\ UNCHANGED <<granted, boot, ctl, tap, retry, history>>

\* Mutant: a worker that is there is not told.
SetOwnLanguage(p) ==
  /\ Main(p, "setting", "running")
  /\ ctl' = [ctl EXCEPT ![p].language = prefs.language]
  /\ late' = [late EXCEPT ![p] = FALSE]
  /\ UNCHANGED <<prefs, granted, boot, tap, retry, overtaken>>

\* There was one: it gets the language, and the controller, where start() has read
\* it by now.
SetWorkerLanguage(p) ==
  /\ Main(p, "setting", "running")
  /\ ctl' = [ctl EXCEPT ![p].workerLanguage = prefs.language,
                        ![p].language = prefs.language]
  /\ late' = [late EXCEPT ![p] = FALSE]
  /\ UNCHANGED <<prefs, granted, boot, tap, retry, overtaken>>

\* There was none: only the controller gets it.
StoreLanguage(p) ==
  /\ Main(p, "storing", "running")
  /\ ctl' = [ctl EXCEPT ![p].language = prefs.language]
  /\ late' = [late EXCEPT ![p] = boot[p] \notin {"queued", "enter"}]
  /\ UNCHANGED <<prefs, granted, boot, tap, retry, overtaken>>

\* setSilenceTimeout()
ChangeTimeout(p, timeout) ==
  /\ main[p] = "running"
  /\ prefs' = [prefs EXCEPT !.timeout = timeout]
  /\ ctl' = IF ctl[p].silenceTimeout = NoValue THEN ctl
            ELSE [ctl EXCEPT ![p].silenceTimeout = timeout]
  /\ UNCHANGED <<granted, main, boot, tap, retry, history>>

-----------------------------------------------------------------------------
(***************************************************************************)
(* Quit, at any time.                                                      *)
(***************************************************************************)

QuitBegins(p) ==
  /\ retry' = [retry EXCEPT ![p] = FALSE]
  /\ overtaken' = [overtaken EXCEPT ![p] = boot[p] \in Underway]
  /\ UNCHANGED <<prefs, granted, boot, ctl, tap, late>>

\* Mutant: the event tap is left to the end of the process.
TerminateWithTap(p) == Main(p, "running", "quitStop") /\ QuitBegins(p)

\* applicationWillTerminate: the timer first.
Terminate(p) == Main(p, "running", "quitTap") /\ QuitBegins(p)

\* "Restart Now": a new process, then terminate.
Restart(p, q) ==
  /\ main[p] = "running" /\ main[q] = "off"
  /\ main' = [main EXCEPT ![p] = "quitTap", ![q] = "check"]
  /\ QuitBegins(p)

QuitStopsTap(p) ==
  /\ Main(p, "quitTap", "quitStop")
  /\ tap' = [tap EXCEPT ![p] = FALSE]
  /\ UNCHANGED <<prefs, granted, boot, ctl, retry, history>>

\* stop() returns at once unless started.
QuitStopsController(p) ==
  /\ Main(p, "quitStop", "quitDelete")
  /\ ctl' = IF ~ctl[p].started THEN ctl
            ELSE [ctl EXCEPT ![p].started = FALSE, ![p].micThread = FALSE]
  /\ UNCHANGED <<prefs, granted, boot, tap, retry, history>>

QuitDeletesController(p) ==
  /\ Main(p, "quitDelete", "exiting")
  /\ ctl' = [ctl EXCEPT ![p].alive = FALSE]
  /\ UNCHANGED <<prefs, granted, boot, tap, retry, history>>

\* The process ends, after exit or in any other way, and its threads with it.
ProcessEnds(p) ==
  /\ main' = [main EXCEPT ![p] = "gone"]
  /\ boot' = [boot EXCEPT ![p] = "none"]
  /\ ctl' = [ctl EXCEPT ![p] = NoController]
  /\ tap' = [tap EXCEPT ![p] = FALSE] /\ retry' = [retry EXCEPT ![p] = FALSE]
  /\ late' = [late EXCEPT ![p] = FALSE] /\ overtaken' = [overtaken EXCEPT ![p] = FALSE]
  /\ UNCHANGED <<prefs, granted>>

Exit(p) == main[p] = "exiting" /\ ProcessEnds(p)
Die(p)  == main[p] \notin {"off", "gone"} /\ ProcessEnds(p)

Quit(p) == QuitStopsTap(p) \/ QuitStopsController(p) \/ QuitDeletesController(p) \/ Exit(p)

-----------------------------------------------------------------------------

User(p) ==
  \/ Open(p) \/ Die(p) \/ Terminate(p) \/ \E q \in Procs : Restart(p, q)
  \/ \E language \in Languages : ChangeLanguage(p, language)
  \/ \E timeout \in Timeouts : ChangeTimeout(p, timeout)

MainThread(p) ==
  \/ CheckInstances(p) \/ StartController(p) \/ QueueStart(p)
  \/ SetWorkerLanguage(p) \/ StoreLanguage(p) \/ Quit(p)

Next ==
  \/ Grant
  \/ \E p \in Procs : \/ User(p) \/ DismissAlert(p)
                      \/ MainThread(p) \/ RetryTap(p) \/ Start(p)

\* The main thread and the background queue run, and the user does not leave the
\* alert open for ever.  The timer fires between two settings, however many are
\* changed: the run loop does not starve it.
Fairness ==
  \A p \in Procs : /\ WF_vars(MainThread(p)) /\ WF_vars(DismissAlert(p))
                   /\ SF_vars(RetryTap(p)) /\ WF_vars(Start(p))

SafetySpec == Init /\ [][Next]_vars
Spec == SafetySpec /\ Fairness

-----------------------------------------------------------------------------
(***************************************************************************)
(* Properties.                                                             *)
(***************************************************************************)

\* bar_main.mm:23, "conflicting event taps and session file overwrites": no two
\* processes are past the check, a restart included.
OneInstance ==
  Cardinality({p \in Procs : main[p] \notin {"off", "check", "gone"}}) <= 1

\* What a thread finds when it uses the controller, whenever the user acts.  The
\* hotkey thread: a controller that is there.  Whoever sees that it has started: one
\* that is complete.  start() and the mic-control thread: one that is not deleted,
\* unless the app was quit before start() was over.  setLanguage(): the worker it has
\* seen, unless the model failed to load.
ControllerUsable ==
  \A p \in Procs :
    /\ tap[p] => ctl[p].alive
    /\ ctl[p].started => /\ ctl[p].worker = "ready" /\ ctl[p].micThread
                         /\ ctl[p].silenceTimeout # NoValue
    /\ boot[p] \in InStart \/ ctl[p].micThread => ctl[p].alive \/ overtaken[p]
    /\ main[p] = "setting" => \/ ctl[p].worker # "none"
                              \/ boot[p] \in {"failed", "over"} /\ ~ctl[p].started

\* app_delegate.mm:301, "start the tap as soon as permission is granted, without
\* requiring a relaunch", once the alert that says it is missing is dismissed.
HotkeyComesAlive ==
  \A p \in Procs : main[p] \in InUse /\ granted ~> tap[p] \/ main[p] \notin InUse

\* README.md:102, "Settings persist across restarts": a controller that has
\* started works with the preferences.  The code does not keep this.
SettingsApplied ==
  \A p \in Procs : ctl[p].started /\ main[p] = "running" =>
    /\ ctl[p].workerLanguage = prefs.language
    /\ ctl[p].silenceTimeout = prefs.timeout

\* README.md:109, "takes effect immediately": the worker has the language chosen last,
\* unless setLanguage() looked for a worker before start() had made it, and stored the
\* language after start() had read it.
LanguageApplied ==
  \A p \in Procs : ctl[p].started /\ main[p] = "running" =>
    ctl[p].workerLanguage = prefs.language \/ late[p]

=============================================================================
