# note-taker in TLA+

TLA+ modules for note-taker-cpp, a macOS menu-bar app that transcribes speech
locally: push-to-talk dictation typed at the cursor, and recorded sessions
saved as JSON and text. The modules model the threads that carry audio from the
microphone to the files and their reports to the menu, and the app's processes
from launch to quit. TLC checks them on small instances; TLAPS proves every
safety property the passing runs check, and the two refinements, for all sizes.
Paths in this file are
relative to the repository; line numbers are in `PROJECT.json`.

## 1. Inventory

The whole program is about 3,700 lines of C++ and Objective-C++ in `src/`.

| Component | State | Operations | Runs on |
|---|---|---|---|
| **AppController** (`app_controller.cpp`) | mode, mic flags, dictation buffer, session writer | hotkey down/up, start/stop session, start/stop | main, hotkey thread, mic-control thread |
| **ModeMachine** (`mode_machine.cpp`) | one atomic: Idle, Dictating, Transcribing, Recording, Finalizing | compare-and-swap to enter and leave, plain store of Idle from callbacks | any |
| **WhisperWorker** (`whisper_worker.cpp`) | bounded queue, stop flag, session-done callback, writer | enqueue, setOnSessionDone, setOutputWriter, stop, workerLoop | any, and its own thread |
| **ChunkAssembler** (`chunk_assembler.cpp`) with **Vad** (`vad.cpp`) | LISTENING/RECORDING, buffer, silence length | feed, forceFlush, setSilenceTimeout | tap thread, main |
| **OutputWriter** (`output_writer.cpp`) | pending and flushed segments, two files | addSegment, flush | worker thread, main at quit |
| **AudioCapture** (`audio_capture.mm`) | engine, tap, observer | start, stop, hardware-change handler | callers under `mic_mutex`, notification thread |
| **EventTap** (`event_tap.mm`) | tap, run loop, hotkey | start, stop, setHotkey, key callback, health timer | main, its own thread |
| **StatusUi** (`app_delegate.mm`, `app_status.h`) | title, icon, menu, "finalizing seen" | reports through the main queue, saved notification | all threads, main |
| **DictationHistory** (`dictation_history.cpp`) | newest texts | add, clear | main |
| **AppLifecycle** (`app_delegate.mm`, `bar_main.mm`) | controller pointer, settings, retry timer | single-instance check, launch, load the model, retry the tap, settings, restart, quit | main, a background queue |
| TextInjector, WavWriter, AppLogger | small or none | key events, files | main, worker |

### How they interact

```
 key  -> EventTap --down/up--> AppController <--menu-- main thread
                                |   ^   ^
          mic-control thread ---+   |   +-- on_result, on_session_done (worker thread)
                                v   |
 microphone -> AudioCapture --block (tap thread)--> dictation buffer (Dictating)
                                              \---> ChunkAssembler   (Recording)
                                                        |
                           enqueue (hotkey, tap, main)  v
                                               WhisperWorker -> OutputWriter

 every thread --status, text--> main queue --> title, icon, menu, history
```

Five threads meet in the mode word and in the worker's queue. Locks are small
(`mic_mutex`, `dict_mutex`, the assembler's, the worker's) and no lock is held
across a handler. What is hard:

* **Concurrency.** The tap reads the mode under no lock and appends afterwards;
  the mic-control thread checks `mic_wanted` and acts later; the worker's
  callbacks store Idle from another thread; the hardware-change handler walks
  over an engine that `start()` and `stop()` replace.
* **Ordering.** `stopSession()` must stop the producer, flush the tail and arm
  the drain callback in this order; the callback must come after the last chunk.
  A thread reports a transition after making it, so the menu is behind the mode
  and two reports may overtake each other.
* **Failure.** The microphone may not start, a transcription may fail or be
  blank, the queue may overflow, a file call may fail, the process may die, the
  device may disappear, the system may disable the event tap.
* **Shutdown.** `stop()` joins two threads, with a drain callback possibly
  running on one of them. The app may be quit or restarted while the background
  queue is still loading the model into the controller.

### What makes each component correct

* Worker: nothing is lost in silence or done twice; only overflow drops, and
  only old chunks; drain notice and exit after the drain; nothing waits for ever.
* Controller: modes exclude each other, each mode is ended by whom it belongs
  to, audio goes to the press or session it was spoken in, the microphone is on
  exactly when it is wanted, `stop()` returns and leaves nothing.
* Assembler: chunks are gapless stretches in order, bounded, and keep speech.
* Writer: readers see whole files that only grow and hold what was flushed.
* EventTap: the calls follow the key, the tap comes back, `stop()` ends.
* AudioCapture: silent when stopped, delivering when running, honest about
  failure.
* StatusUi: the menu shows the mode in the end, a saved session is announced
  once, the history holds what it may.
* AppLifecycle: one process at a time, a controller that is complete and there
  for every thread that calls it, settings that are in force.

The hazards, each with its line and its properties, are in `PROJECT.json`.

## 2. Modules

| Module | What it is |
|---|---|
| `TranscriptionQueue` | Abstract: what the worker promises in `whisper_worker.h` |
| `WhisperWorker` | The worker; refines `TranscriptionQueue` |
| `WhisperWorkerProofs` | Its invariants and the refinement, proved |
| `AppController` | EXTENDS `WhisperWorker`: controller, mode word, mic-control and tap threads around the real worker |
| `ModeMachine` | Abstract: who may end which mode |
| `AppControllerProofs` | EXTENDS `WhisperWorkerProofs`: the controller uses the worker as specified and implements `ModeMachine`; dictations, sessions, the microphone and `stop()` |
| `StatusUi` | EXTENDS `ModeMachine`: the reports of the transitions, the main queue, menu and history |
| `AppLifecycle` | Processes from launch to quit |
| `ChunkAssembler`, `OutputWriter`, `EventTap`, `AudioCapture` | One component each |
| `ChunkAssemblerProofs`, `OutputWriterProofs`, `EventTapProofs`, `AudioCaptureProofs`, `StatusUiProofs`, `AppLifecycleProofs` | Their theorems |
| `*MC` | Values of constants that a cfg cannot write |

**Convention.** A variable has the name of the field it stands for; a `pc`
variable says where a thread is. A handler is cut exactly where another thread
can get in: at an atomic access, at the beginning of a section under a mutex,
at a system call that may fail or during which the process may die. Variables
marked *history* are read by properties and by naming (which session, which
press), not by the program's decisions. Definitions marked *Mutant* are
plausible wrong versions of the definition after them; they are in no
specification, and `PROJECT.json` says which property each of them breaks.

**WhisperWorker.** `Enqueue`, `SetOnSessionDone`, `SetOutputWriter` and
`RequestStop` are the calls, each one section under `impl_->mutex`; `Sleep` to
`SessionDoneReturns` are `workerLoop`, cut where it takes or releases the mutex.
The worker is the only waiter of the condition variable, so a notification
moves it from `asleep` to `check`; it may also wake with none. A chunk is a
number, a flag and an abstract content. Transcription is a choice among text,
blank and failure.

**ModeMachine.** Three of the mode word's operations store Idle without looking
at what they overwrite. The module says what makes that right: a mode that is
being started or ended has an *owner* (main, the hotkey thread, the worker), and
only the owner leaves it or hands it over. `AppController` implements it
(`ImplementsModes`: the owner is a function of the threads' positions and of the
worker's queue), and `StatusUi` is built on it, so that the reports are checked
against every sequence of transitions the controller can make before `stop()`.

**AppController.** Audio is the set of presses and sessions it was spoken in,
plus whether it is long enough to be emitted: nothing else about samples
decides anything here. `pc.main` runs the session handlers and `stop()`,
`pc.hotkey` the two hotkey handlers, `pc.mic` the mic-control thread, `pc.tap`
the block callback; `hand` is the audio in a thread's local variable. The
worker's steps are those of `WhisperWorker` with the two callbacks filled in:
`DictationResult` is `on_result`, and `SessionDoneCloses` and
`SessionDoneFinalizes` are the two halves of the drain callback.
`startSession()` may be called in every mode, as the menu does. Two constants
say what the system may do: `MicMayFail`, and `TapDrains` (`capture.stop()` waits
for a block being delivered, which `app_controller.cpp:464` relies on). `micFailed`
and `overlapped` are history: a start of the microphone has failed; the last
`startSession()` came with a session under way.
The assembler is one buffer here; `ChunkAssembler`'s `ListeningIsEmpty` is why
"empty" and "LISTENING" may be the same thing.

**ChunkAssembler.** Blocks carry a number, the VAD's verdict and a size; chunks
are sequences of blocks. The tap thread's callbacks come after the mutex, so
chunks wait in `tapChunk` and `mainChunk`. `forceFlush()` is called with the
microphone off, as both its callers do, but a block may still be in `feed()`:
the assembler does not rely on `TapDrains`.

**OutputWriter.** `write_atomic()` is one action per system call, with its
failures; `Crash` may come between any two, `Restart` brings the app back
without its memory. A file's content is the session it is of, how many of its
segments it starts with, and whether it is whole. `safe` remembers what a
`flush()` that reported no error has promised. A crash is of the process, not
of the machine: what is renamed stays renamed.

**EventTap.** The run loop, the tap and the keyboard belong to the system and
are modelled as this code uses them. `missed` says that since its last event the
hotkey has moved unseen (tap disabled, or the hotkey changed while held); until
its next event the property asks nothing. Keys may share a flag, as Left and Right
Option do: the callback sees the flag and not the key, so it takes the release of
one with the other held for a press. `masked` is history and says that the last
event of the hotkey was such a release.

**AudioCapture.** Engines are numbered and 0 is nil; messages to nil do nothing.
Every step of the hardware-change handler looks at whichever engine there is,
between the steps of `resetEngineState()` too, which are four actions. One handler
runs at a time.

**StatusUi.** `emitting` is what each thread has done and has not yet
dispatched; `Emit` dispatches, and waits while the main queue is full
(`MaxQueued`). `Handle` is the block main runs for a message. Clicks are allowed
in every state: the menu may be behind, and since the app leaves AppKit's
`autoenablesItems` on, `enabled` holds no click back either. `StartEnabled` and
`StopEnabled` are the flags `updateMenuForStatus:` sets, what the app means to
offer, and no more. `raced` and `owed` are history: whether another report was
pending at a transition, and the texts dictated since the history was last cleared
or turned on.

**AppLifecycle.** Each process has a main thread, a background `start()` cut
where it makes, loads and publishes something, a controller record, a tap and a
timer. Preferences are shared and outlive the processes. Settings are changed and
the app is quit whenever its main thread is in the run loop, while the model is
being loaded too. A refused tap shows an alert that blocks the main thread until
the user dismisses it; only then are the timer and `start()` scheduled. The app can
be killed while the alert is open; quitting it then is not modelled. `overtaken`
and `late` are history: the app was quit before `start()` was over; `setLanguage()`
saw no worker and stored the language after `start()` had read it.

## 3. Runs

Every cfg is named after its run. Deadlock is not checked where a behaviour may
simply end: the presses, sessions and blocks of `AppController` and `StatusUi`
and the starts of `AudioCapture` are bounded, and processes end in
`AppLifecycle`.

### Passing

| Run | Instance | States | What it shows |
|---|---|---|---|
| `WhisperWorker` | queue of 2, 4 chunks, 1 writer | 54,004 | chunks accounted for, drain notice after the drain, nothing waits for ever, refinement of `TranscriptionQueue` |
| `AppController` | queue of 1, 2 presses, 2 sessions, 3 of them together, 3 blocks, texts only, mic may fail, fairness | 285,705 | a dictation has the worker alone, so it is never dropped; a finished session has nothing under way; chunks reach the session they are of, whose writer only a second `startSession()` takes; Idle means mic off; `ModeMachine` is implemented; sessions and dictations end; `stop()` returns and leaves nothing |
| `ChunkAssembler` | 5 blocks of 1 or 2, thresholds 2, 3, 3 or 4, 6 | 54,304 | chunks are gapless stretches in order, bounded, and no speech is lost |
| `OutputWriter` | 2 sessions, 3 segments, failing open and rename | 86,832 | whole files that only grow and hold what was flushed |
| `EventTap` | both Option keys, a Command key and F5, 4 events, tap disabled | 489,052 | calls follow the key, but for a release under its held twin; the tap comes back |
| `AudioCapture` | 3 starts, 2 changes, device may not be ready | 15,962 | silent after `stop()`, delivering when its caller thinks so unless recovery was given up |
| `StatusUi` | 3 presses, 2 sessions, 4 of them together, 1 notice, queue of 2, history of 2 | 2,491,431 | the menu ends up where the mode is, a saved session is announced once, the history holds the newest texts and no others |
| `AppLifecycle` | 3 processes, 2 languages, 2 timeouts, model may fail | 76,140 | one instance; a controller usable by whoever calls it, unless the app is quit before `start()` is over; a language that is in force, but for one interleaving; a hotkey that comes alive once permission is there |

**Why these bounds.** A queue of one overflows with the second chunk, and a queue of
two has a middle; four chunks make the worker's queue overflow with one chunk in its
hand. Two presses and two sessions are what it takes for a late step of the first to
meet the second, and a call of `startSession()` to meet a session under way, and
three of them in all have a first and a second of either kind with one of the other
before, between or after; three blocks let a chunk overtake a tail, and fill the
queue. Two sizes of blocks meet every threshold of the assembler exactly and
overshoot it. Two sessions are enough for one file to replace another. Four key
events are press and release of the hotkey and of another key, in any order, of
which the other is its twin, a modifier with a flag of its own, or an ordinary key.
Three starts let the handler of the first engine run over the third. One notice of
no transition can fall between any two reports of a session; with three dictations a
history of two has an order and drops a text; a main queue of two lets a message of
another thread stand between two of one. Three processes are one that runs, the one
it restarts and one the user opens meanwhile.

**What the results rest on.** `AppController` runs with `TapDrains`: with
`TapDrains = FALSE` a late block enters a finished session or the next dictation,
and `OneDictation`, `SessionOverMeansDrained` and `SavedInItsSession` fail.
`MicOffWhenIdle`, `DictationAlone`, `SessionOverMeansDrained` and
`SavedInItsSession` ask nothing once a start of the microphone has failed
(`micFailed`): a session whose start failed is reset to Idle while the mic-control
thread may still bring the microphone up, and its audio is then unsaved.
`OutputWriter` runs with room on the disk and ids that differ. The departures below
tell what happens otherwise.

Some properties say exactly when the code does not do what one would ask:
`WriterLostToStart` (a second `startSession()`), `FollowsTheKey` (a release under a
held twin), `ControllerUsable` (a quit before `start()` is over) and
`LanguageApplied` (one interleaving of `setLanguage()` and `start()`). The case is in
the run and the exception is no wider than the case.

### Violations

Each run checks one statement of the repository that its code does not keep.
`PROJECT.json` quotes the statement.

| Run | What TLC shows |
|---|---|
| `AppControllerStuck` | A dictation that fails or has no text never calls `on_result`; the mode stays Transcribing (`ModesEnd`). |
| `AppControllerMicOff` | Press, release, start a session: the mic-control thread, undoing the start it made for the press, stops the session's microphone (`RecordingHasMic`). |
| `AppControllerWriter` | Start a session and, before it is stopped, start another: the second `startSession()` replaces the writer in the worker, is refused, and takes it away; the session that records has none (`RecordingHasWriter`). |
| `AppLifecycleSettings` | The stored silence timeout is set before the assembler exists; after every restart the default is in force (`SettingsApplied`). |

### Other departures, without a run of their own

Seen while modelling. Where a constant is named, the passing run's cfg with
that one value changed refutes the property named; where a property is added,
the cfg with that property does; where a property is given without one of its
conditions, the run refutes it then.

| Where | What the code does | How to see it |
|---|---|---|
| `src/src/app_controller.cpp:153` | The failed start of one press cancels the next press's dictation, whose microphone then stays on in Idle. | `AppController`: `MicOffWhenIdle` without `~micFailed` |
| `src/src/app_controller.cpp:438` | `startSession()` while a session is being finalized: its writer may be closed by the drain callback of the last one, and the new session begins without. | `AppController`: `WriterLostToStart` with `overlapped` set in Recording only |
| `src/src/app_controller.cpp:438` | `startSession()` uses `worker` unasked, which is null until the model is loaded and after it failed to load. The menu items are then disabled by their `enabled` flag only, which a menu with automatic enabling, the default, overrides. | Read; `AppLifecycle` has the states with no worker |
| `src/src/app_controller.cpp:430` | Two sessions within one second of local time, or in the hour that daylight saving repeats, share their files. | `OutputWriter`, `StemsRepeat = TRUE`: `FilesOnlyGrow`, `SegmentsSurvive` |
| `src/src/output_writer.cpp:42` | A short write sets `ok`, and the short file is renamed over the good one all the same; the comment at line 20 says that a failure only removes the temporary file. | `OutputWriter`, `Faults = {"write"}`: `NeverTorn` |
| `src/src/output_writer.cpp:41` | A failing `fclose()` is not noticed, and the truncated file replaces the good one without a report. | `OutputWriter`, `Faults = {"close"}`: `NeverTorn` |
| `src/src/chunk_assembler.cpp:65` | A tail below half a second is not cleared and begins the next session's first chunk. | `SavedInItsSession` allows a later session for this reason |
| `src/src/chunk_assembler.cpp:40` | Silence counts towards `MIN_CHUNK_MS` and every timeout of the menu is at least as long, so a burst of any length is flushed when the timeout is reached. | `Ends`; `src/tests/chunk_assembler_test.cpp:38` expects otherwise |
| `src/src/chunk_assembler.cpp:66` | `forceFlush()` goes back to LISTENING without `on_state`. | `ForceFlushEmits`; `src/src/chunk_assembler.h:30` says it is called |
| `src/src/audio_capture.mm:191` | The handler goes on after `stop()` and reports a failed recovery of a microphone nobody uses. | `InstallTapFails` with no engine, then `HandlerGivesUp` |
| `src/src/audio_capture.mm:226` | `on_config_change` follows `on_recovery_failed`, so its status replaces the failure's. | `HandlerGivesUp`, then `HandlerReports` |
| `src/src/event_tap.mm:52` | Left and Right Option share a flag: the release of one with the other held is taken for a press, and the dictation goes on until the next event of the hotkey; `src/README.md:74` has releasing it as the end of a dictation. | `EventTap`: `FollowsTheKey` without `masked` |
| `src/src/event_tap.mm:186` | `stop()` between `ready` and `CFRunLoopRun()` stops no loop, and the join never returns. | `EventTap` with `StopEnds` |
| `src/src/app_delegate.mm:852` | Four seconds after a session was saved, title and icon are set to Idle whatever has begun since. | `StatusUi` with `TitleFollowsMode` as an invariant |
| `src/src/mode_machine.cpp:31` | A report may be overtaken: a late Idle enables Start Recording during a dictation until the next report, and two sessions may share one announcement. | `StatusUi`: `MenuFollowsMode` without `raced # "now"`, `SavedIsAnnounced` without `raced = "no"` |
| `src/src/app_controller.cpp:450` | A session whose microphone does not start is reset without a report of Idle: the error leaves both menu items disabled until the next dictation. | `StatusUi`: `MenuFollowsMode` without `shown # "Error"` |
| `src/src/app_delegate.mm:110` | Quit while the model is loading: `stop()` returns at once, and the controller is deleted under `start()`, its mic-control thread not joined; `src/docs/project.md:173` speaks of a clean quit. | `AppLifecycle`: `ControllerUsable` without `overtaken` |
| `src/src/app_controller.cpp:236` | A language chosen while `start()` makes the worker reaches neither the worker nor `start()`; `src/README.md:109` says that it takes effect immediately. | `AppLifecycle`: `LanguageApplied` without `late` |
| `src/src/app_delegate.mm:956` | Restart Now may leave no process: the new one finds the old one still there and gives up. | `Restart`, then `CheckInstances` of the new process |

### Fairness

Weak fairness, of whole threads, and only of what the program owes:

* the worker's thread, the mic-control thread, the tap's callback once it has a
  block, the handlers of main and of the hotkey once they have begun: threads are
  scheduled, and `whisper_full`, `capture.start()` and `capture.stop()` return;
* joins, which return when their thread has ended;
* the event tap's thread and its timer;
* the app's main thread and the background queue, and, strongly, the timer that
  retries the event tap: the run loop serves it between two settings, however
  many the user changes;
* the alert about the missing permission, which the user does not leave open for
  ever: until it is dismissed nothing runs on the main thread.

Otherwise the user owes nothing, nor do the keyboard, the hardware, failures, crashes
and spurious wakeups. `ModesEnd` is checked with transcriptions that return a text;
`AppControllerStuck` shows that it needs that. `NothingWaits` of the worker
needs no more than its thread. `StatusUi` and `AudioCapture` ask nothing of fairness:
their properties say what holds whenever everything reported has been shown, and
whenever the handler has nothing left to do.

## 4. Proofs

The eight modules named `*Proofs` are checked by TLAPS for every value of the
constants that satisfies the modules' assumptions. Each invariant named here is
the strengthening that makes a property inductive; TLC checked it on the run's
instance before it was proved.

**The worker.** The chunks are numbered in the order of their `enqueue()` calls,
and everything follows from one fact: the queue is the interval of the newest
numbers (`QueueHoldsNewest`). It is not inductive as it stands. `WorkerInv` adds
that the chunk in the worker's hand is older than the queue (`InHand`), that the
outcome of a chunk is decided by its position (`OutcomeByPosition`), which needs
no quantifier over queue slots, and `OnlyOldChunksDropped`. One lemma per action
shows that it is preserved, on top of two lemmas about `Tail` and `Append`.
From `WorkerInv` follow the type invariant, `EveryChunkAccounted` (the form a
reader wants), and the two action properties `SessionDoneAfterDrain` and
`ExitAfterDrain`: an empty queue and an empty hand mean that all is settled.

**The refinement.** `WorkerImplementsQueue`: under the mapping of
`WhisperWorker` (queued or in hand is *waiting*; failed, blank, result, saved and
unsaved are *done*) each step of the worker is a step of `TranscriptionQueue` or
leaves it unchanged. The interesting case is `Enqueue` on a full queue, which
maps to `SubmitAndDrop` of the head and needs the interval fact to show that
`QueueMax` newer chunks follow it.

**The controller.** `ControllerUsesWorker`: the controller's specification
implies the worker's. Every thread's step either leaves the worker's variables
alone or is one of its actions, called when its owner may call it: after
`RequestStop` main calls nothing but `Join`, which is the third conjunct of
`ControllerInv`. The other two are the types and that a started session is
within the bound. All that is proved of the worker then holds in the controller
(`ControllerAccounts`, `ControllerDrains`, and the worker's half of
`ControllerTyped`).

**Ownership of the modes.** `ControllerImplementsModes` holds for every
controller, whatever `MicMayFail` and `TapDrains` are. `ModesInv`
says who holds what in which mode (`Ownership`: at most one dictation is in the
worker and only in Transcribing, a position of main or of the hotkey thread
implies a mode, an armed drain callback implies Finalizing, and no two of these
at once) and what `stop()` has done so far (`Shutdown`). Neither is inductive
alone: that the worker's late callback meets the mode it is meant for depends on
main not having disarmed it.

**Dictations.** `OneDictationAlways`, with `TapDrains`. Audio passes from the
tap's hand to the buffer, to the hotkey thread's hand and to the worker;
`DictInv` says of each of these places that what it holds is of the last press
only. A block that is late would break it, so it rests on `MicInv`: a block is
under way from a running microphone only, and a microphone that the mic-control
thread has failed to start runs for a session that is not over.

**The end.** `QuitLeavesNothingAlways`, with `TapDrains`: `QuitInv` says that
nobody enqueues once the worker has been told to stop and that nobody attaches a
writer after main has detached the last one; that main joins the mic-control
thread before it turns the microphone off is in `MicInv`.

**A session's writer.** `WriterLostToStartAlways`, with no condition.
`WriterInv` says that main attaches and detaches a writer with a session under way
only when it was called so (`overlapped`), and that otherwise a session keeps the
writer it began with until the drain callback or `stop()` has closed it; after such a
call the worker has that writer or none (`Holds`).

**The microphone and what it brings.** As long as no start of it has failed:
`MicOffWhenIdleAlways`, whether `capture.stop()` waits or not: a microphone that runs
has somebody who is going to stop it (`MicDuty`) - the mode's owner, or the
mic-control thread, which looks at `mic_wanted` once more after it has started
it. With `TapDrains`, `SessionOverMeansDrainedAlways` and `DictationAloneAlways`:
`DrainInv` follows a session's audio through the tap, the assembler, main's hand and
the worker, and says of each place until when it may hold some. The last,
`SavedInItsSessionAlways`, rests on `WriterInv` too: `SavedInv` says that what each of
these places holds is of the session recorded last and of what earlier ones left
unflushed, and that the writer in the worker's hand is that session's, or, after a
second `startSession()`, none.

**Assembler.** For any thresholds and blocks that are shorter than the longest
chunk: `ListeningIsEmptyAlways`, `AssemblerTyped`, `ChunksAreStretchesAlways`,
`ChunksAreBoundedAlways` and the action property `SpeechIsKeptAlways`.
`StretchInv` says that a chunk is made by `flush()` of one gapless stretch whose
last block made it long enough (`Made`), that the buffer is the stretch that ends
with the block that came through last (`BufferInv`), that one chunk is on its way
at a time (`OneChunkInv`: with the microphone off no block can end another), and
that what has been handed over comes before what is on its way, and that before
the buffer (`OrderInv`). Sizes are sums over sequences; the few facts about them
are proved by induction, in the form that a set of naturals with no least element
is empty (`NatSetInduction`), which the library states without an operator
parameter.

**Writer.** With room on the disk (`DiskHasRoom`: neither `fwrite` nor `fclose`
fails) and ids that differ (`IdsDiffer`): `NeverTornAlways`,
`SegmentsSurviveAlways` and the action property `FilesOnlyGrowAlways`, after a
crash between any two system calls. `WriterInv` says that a
file is absent or whole and of the session with its id (`DiskOwned`), that
neither file nor promise is ahead of the writer's memory (`NotAhead`), that the
temporary file is complete when it is about to be renamed (`TmpComplete`), and
that a flush without an error has written the first file when it is at the
second (`FirstHalfDone`). `WriterTyped` comes with it.

**Microphone.** `CaptureTyped`, `SilentWhenStoppedAlways`,
`CaptureAgreesAlways`. `CaptureInv` says that there is no engine
between two calls unless it is on for its caller (`NoEngineLeft`), and that the
engine a caller starts or has started is tapped and runs, or the handler is
going to see to it, or has given up (`TapKept`, `EngineKept`), wherever the
handler is and whichever engine it began with.

**Event tap.** `TapTypedAlways`, and `FollowsTheKeyAlways` for any keyboard,
keys that share a flag included. `FollowInv` says that the last event of the hotkey
that is still in the queue agrees with the key, or, if there is none, that the last
call does; to agree means to say "down" of a key that is held, or whose release its
twin has masked.

**User interface.** `UiTypedAlways`, and three properties, for any number of
presses, sessions and reports on their way.

* `HistoryHoldsAlways`: the texts in the main queue are in the order of their
  presses and newer than the history (`QueueInOrder`, `HistoryIsOlder`), for which
  at most one dictation may be in the worker, the owner of Transcribing. So what a
  full history drops is older than all it keeps; `OwedTyped` says that what is on its
  way will be owed.
* `MenuFollowsModeAlways`: `PendingExpected` says which reports a thread can have
  pending in which mode. `FitInv` says that nothing pending can make the menu
  wrong, and that something that makes it right is with a thread, in the main
  queue with nothing wrong behind it, or on the menu.
* `SavedIsAnnouncedAlways`: `AnnounceInv` looks ahead. Let the flag
  `_wasFinalizing` and the count of announcements be what they will be when the
  main queue has been handled (`Outcome`). Count and flag, with a report of
  Finalizing that main has still to make, are the sessions that are over or being
  finalized (`Balance`), as long as no report was overtaken or there is one session.

**Processes.** `LifecycleTyped`, `OneInstanceAlways`, `ControllerUsableAlways`
and `LanguageAppliedAlways`, for a user who acts at any moment: what `start()` has made
so far follows from where it is, and a controller that is gone under it was quit
(`UsableInv`: `Wired` and `Built`). `LanguageInv` says who has the language: the
controller until `start()` has read it, the worker from then on.

**Assumptions used.** The modules' own `ASSUME`s, which say what the constants
are, and where named above: `TapDrains`, `DiskHasRoom` and `IdsDiffer`. Each is
met by the runs that check the property, and section 3 tells what happens without
it.

**Only model-checked.** The liveness properties, which are out of the prover's
reach: `NothingWaits`, `ModesEnd`, `QuitReturns`, `TapComesBack` and
`HotkeyComesAlive`. Every invariant, every action property and both
refinements of the passing runs are proved.

## 5. Not modelled

* Sound: samples, the VAD's arithmetic, sample-rate conversion, `whisper_full`.
* `setTranslate`, output directory, VAD settings, hotkey and log settings as
  preferences: values that are stored and decide nothing modelled.
* In `AppController`, the time before `start()` has returned: `started` is
  `~shuttingDown` there. `start()` itself is in `AppLifecycle`, where in turn
  `stop()` is one step.
* `startMic()` and `stopMic()` are one action each, for they hold `mic_mutex`
  throughout; their inside is `AudioCapture`.
* Timestamps of segments, status texts, windows and alerts, the text of microphone errors, logging.
* WAV saving (no code switches it on), the log file, text injection.
* The mutex of `OutputWriter`: the worker's thread is the only one in a writer
  until main has joined it.

## 6. Plan

Done: every component with state of its own is modelled, two abstract
specifications are implemented, and every safety property that a passing run
checks is proved. Left, in this order:

1. **Composition**: `ChunkAssembler` refines the one-buffer assembler of
   `AppController`; `AudioCapture` refines `micRunning`.
2. **Segment times**: a chunk's offset against the beginning of its session.
