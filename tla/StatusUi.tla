------------------------------ MODULE StatusUi ------------------------------
(***************************************************************************)
(* What the user sees (src/src/app_delegate.mm).  Every thread reports     *)
(* what it has done after it has done it: a transition of the mode is a    *)
(* compare-and-swap or a store, and its status goes to the main queue in a *)
(* later step of the same thread.  main handles the queue between two      *)
(* clicks and sets title, icon and menu from each status.  So the menu is  *)
(* behind the mode, and reports of two threads may overtake each other.    *)
(*                                                                         *)
(* The error statuses are one here; they differ in their text.  A dictated *)
(* text is the number of its press.                                        *)
(***************************************************************************)
EXTENDS ModeMachine, Naturals, Sequences

CONSTANTS
  MaxPresses,    \* bound: dictations begun
  MaxSessions,   \* bound: sessions begun
  MaxUses,       \* bound: dictations and sessions together
  MaxNotices,    \* bound: reports that are not about a transition
  MaxQueued,     \* bound: messages in the main queue
  HistoryLimit   \* DictationHistory's limit_

ASSUME UiAssumption ==
  /\ MaxPresses \in Nat /\ MaxSessions \in Nat /\ MaxUses \in Nat /\ MaxNotices \in Nat
  /\ MaxQueued \in Nat \ {0}
  /\ HistoryLimit \in Nat \ {0}

VARIABLES
  emitting,       \* what each thread has done and not yet reported
  mainQueue,      \* the main queue, where the reports go
  shown,          \* the last status the menu was updated for
  display,        \* the status that title and icon tell of
  wasFinalizing,  \* _wasFinalizing
  savedTimers,    \* saved notifications that will be taken back
  historyOn,      \* dictationHistoryEnabled
  history,        \* _dictationHistory.items_
  micFailed,      \* startMic() has failed on the mic-control thread
  presses, sessions, notices,  \* counts that the bounds bound
  finalized,      \* history: sessions that are over
  announced,      \* history: saved notifications posted
  owed,           \* history: texts dictated, or still on their way, since the user
                  \* last cleared the history or turned it on
  cancelled,      \* history: a dictation was given up for its microphone
  raced           \* history: another report was pending at a transition: at the
                  \* last one ("now"), at an earlier one ("before"), at none ("no")

uiVars      == <<shown, display, wasFinalizing, announced>>
historyVars == <<historyOn, history, owed>>
counts      == <<presses, sessions, notices>>
vars == <<modeMachineVars, emitting, mainQueue, uiVars, savedTimers, historyVars,
          micFailed, counts, finalized, cancelled, raced>>

Threads  == {"main", "hotkey", "mic", "worker", "tap", "device"}
Statuses == {"Idle", "Dictating", "Transcribing", "RecordingListening",
             "RecordingCapturing", "Finalizing", "Beep", "Error"}

\* What is sent to main: a status, a text, or the end of a saved notification.
Status(s)  == [what |-> s, text |-> 0]
Text(n)    == [what |-> "Text", text |-> n]
SavedOver  == [what |-> "SavedOver", text |-> 0]
BlankText  == 0
Message    == [what : Statuses \union {"Text", "SavedOver"}, text : 0..MaxPresses]

TypeOK ==
  /\ ModeMachineTypeOK
  /\ DOMAIN emitting = Threads
  /\ \A t \in Threads : emitting[t] \in Seq(Message) /\ Len(emitting[t]) <= 2
  /\ mainQueue \in Seq(Message)
  /\ shown \in Statuses \ {"Beep"}
  /\ display \in {"RecordingSaved"} \union (Statuses \ {"Beep"})
  /\ wasFinalizing \in BOOLEAN /\ historyOn \in BOOLEAN /\ micFailed \in BOOLEAN
  /\ history \in Seq(1..MaxPresses)
  /\ owed \subseteq 1..MaxPresses
  /\ savedTimers \in 0..announced
  /\ raced \in {"no", "before", "now"}

\* start() has reported Idle.
Init ==
  /\ ModeMachineInit
  /\ emitting = [t \in Threads |-> <<>>] /\ mainQueue = <<>>
  /\ shown = "Idle" /\ display = "Idle"
  /\ wasFinalizing = FALSE /\ savedTimers = 0
  /\ historyOn \in BOOLEAN /\ history = <<>> /\ owed = {}
  /\ micFailed = FALSE
  /\ presses = 0 /\ sessions = 0 /\ notices = 0
  /\ finalized = 0 /\ announced = 0
  /\ cancelled = FALSE /\ raced = "no"

-----------------------------------------------------------------------------
(***************************************************************************)
(* Reports.                                                                *)
(***************************************************************************)

Silent(t) == emitting[t] = <<>>

\* Mutant: a thread goes on before its reports are out.
TellsOnTop(t, statuses) ==
  emitting' = [emitting EXCEPT ![t] = @ \o statuses]

\* Thread t is going to report these.
Tells(t, statuses) ==
  Silent(t) /\ emitting' = [emitting EXCEPT ![t] = statuses]

\* Thread t has changed the mode and is going to report it.
Reports(t, statuses) ==
  /\ Tells(t, statuses)
  /\ raced' = IF \E u \in Threads : ~Silent(u) THEN "now"
              ELSE IF raced = "no" THEN "no" ELSE "before"

\* Thread t has something to tell that is no transition.
Notices(t, status) ==
  /\ notices < MaxNotices /\ notices' = notices + 1
  /\ Tells(t, <<Status(status)>>)
  /\ UNCHANGED <<modeMachineVars, mainQueue, uiVars, savedTimers, historyVars,
                 micFailed, presses, sessions, finalized, cancelled, raced>>

Send(message) ==
  Len(mainQueue) < MaxQueued /\ mainQueue' = Append(mainQueue, message)

\* on_status: the next report is dispatched to the main queue.
Emit(t) ==
  /\ ~Silent(t)
  /\ Send(Head(emitting[t]))
  /\ emitting' = [emitting EXCEPT ![t] = Tail(@)]
  /\ UNCHANGED <<modeMachineVars, uiVars, savedTimers, historyVars, micFailed,
                 counts, finalized, cancelled, raced>>

-----------------------------------------------------------------------------
(***************************************************************************)
(* Dictation: the hotkey, mic-control and worker threads.                  *)
(***************************************************************************)

DictationFrame == UNCHANGED <<uiVars, savedTimers, historyOn, history, sessions, notices,
                              finalized>>

HotkeyDown ==
  /\ presses < MaxPresses /\ presses + sessions < MaxUses
  /\ presses' = presses + 1
  /\ TryDictate
  /\ Reports("hotkey", <<Status("Dictating")>>)
  /\ UNCHANGED <<mainQueue, owed, micFailed, cancelled>>
  /\ DictationFrame

HotkeyRejected == mode # "Idle" /\ Notices("hotkey", "Beep")

HotkeyUp ==
  /\ FinishDictation
  /\ Reports("hotkey", <<Status("Transcribing")>>)
  /\ UNCHANGED <<mainQueue, owed, micFailed, cancelled, presses>>
  /\ DictationFrame

\* Mutant: the dictation is queued before Transcribing is reported.
HotkeyEnqueuesFirst ==
  /\ QueueDictation
  /\ UNCHANGED <<emitting, raced, mainQueue, owed, micFailed, cancelled, presses>>
  /\ DictationFrame

HotkeyEnqueues ==
  /\ Silent("hotkey")
  /\ QueueDictation
  /\ UNCHANGED <<emitting, raced, mainQueue, owed, micFailed, cancelled, presses>>
  /\ DictationFrame

HotkeyDiscards ==
  /\ DiscardDictation
  /\ Reports("hotkey", <<Status("Idle")>>)
  /\ UNCHANGED <<mainQueue, owed, micFailed, cancelled, presses>>
  /\ DictationFrame

\* startMic() fails while the press is on, its release not yet reported.
MicFails ==
  /\ ~micFailed /\ Silent("mic")
  /\ \/ mode = "Dictating" /\ Silent("hotkey")
     \/ mode = "Transcribing" /\ ~Silent("hotkey")
  /\ micFailed' = TRUE
  /\ UNCHANGED <<modeMachineVars, emitting, raced, mainQueue, owed, cancelled, presses>>
  /\ DictationFrame

\* cancelDictation(), then notifyMicStartFailure().
MicCancels ==
  /\ micFailed /\ micFailed' = FALSE
  /\ \/ /\ CancelDictation
        /\ Reports("mic", <<Status("Idle"), Status("Error")>>)
        /\ cancelled' = TRUE
     \/ /\ mode # "Dictating"
        /\ Tells("mic", <<Status("Error")>>)
        /\ UNCHANGED <<modeMachineVars, raced, cancelled>>
  /\ UNCHANGED <<mainQueue, owed, presses>>
  /\ DictationFrame

\* on_result: the text is dispatched, then the mode stored.  No status depends
\* on a text, so the two are one step.
DictationResult(blank) ==
  /\ TranscriptionDone
  /\ Send(Text(IF blank THEN BlankText ELSE presses))
  /\ owed' = IF historyOn /\ ~blank THEN owed \union {presses} ELSE owed
  /\ Reports("worker", <<Status("Idle")>>)
  /\ UNCHANGED <<micFailed, cancelled, presses>>
  /\ DictationFrame

\* A transcription that fails is reported, one without a text is not.
DictationLost(failed) ==
  /\ LoseDictation
  /\ Tells("worker", IF failed THEN <<Status("Error")>> ELSE <<>>)
  /\ UNCHANGED <<raced, mainQueue, owed, micFailed, cancelled, presses>>
  /\ DictationFrame

Dictation ==
  \/ HotkeyDown \/ HotkeyRejected \/ HotkeyUp \/ HotkeyEnqueues \/ HotkeyDiscards
  \/ MicFails \/ MicCancels
  \/ \E b \in BOOLEAN : DictationResult(b) \/ DictationLost(b)

-----------------------------------------------------------------------------
(***************************************************************************)
(* Sessions: main, the tap and the worker.                                 *)
(***************************************************************************)

SessionFrame == UNCHANGED <<mainQueue, uiVars, savedTimers, historyVars, micFailed,
                            presses, notices, cancelled>>

\* main is in its run loop, in no handler.
MainFree == Silent("main") /\ owner # "main"

\* startSession() and stopSession() are called whatever the menu shows: it may be
\* behind, and only the mode decides.
ClickStart ==
  /\ MainFree
  /\ sessions < MaxSessions /\ presses + sessions < MaxUses
  /\ sessions' = sessions + 1
  /\ TryRecord
  /\ Reports("main", <<Status("RecordingListening")>>)
  /\ UNCHANGED finalized
  /\ SessionFrame

SessionStarts ==
  /\ Silent("main")
  /\ RecordingStarts
  /\ UNCHANGED <<emitting, raced, sessions, finalized>>
  /\ SessionFrame

\* reset() reports nothing; notifyMicStartFailure() does.
SessionFails ==
  /\ RecordingFails
  /\ Reports("main", <<Status("Error")>>)
  /\ UNCHANGED <<sessions, finalized>>
  /\ SessionFrame

ClickStop ==
  /\ MainFree
  /\ StopRecord
  /\ Reports("main", <<Status("Finalizing")>>)
  /\ UNCHANGED <<sessions, finalized>>
  /\ SessionFrame

\* The microphone is off, and with it the tap silent; the callback is armed.
SessionArms ==
  /\ Silent("main") /\ Silent("tap")
  /\ ArmDone
  /\ UNCHANGED <<emitting, raced, sessions, finalized>>
  /\ SessionFrame

SessionDone ==
  /\ FinalizeDone
  /\ finalized' = finalized + 1
  /\ Reports("worker", <<Status("Idle")>>)
  /\ UNCHANGED sessions
  /\ SessionFrame

\* The assembler's on_state, while isRecording(), from a microphone that has
\* started.
TapNotices(status) ==
  mode = "Recording" /\ owner = "nobody" /\ Notices("tap", status)

\* A chunk or a file of a session fails; the audio device changes.
WorkerNotices == mode \in {"Recording", "Finalizing"} /\ Notices("worker", "Error")
DeviceNotices == Notices("device", "Error")

Session ==
  \/ ClickStart \/ SessionStarts \/ SessionFails \/ ClickStop
  \/ SessionArms \/ SessionDone
  \/ TapNotices("RecordingListening") \/ TapNotices("RecordingCapturing")
  \/ WorkerNotices \/ DeviceNotices

-----------------------------------------------------------------------------
(***************************************************************************)
(* The main queue.                                                         *)
(***************************************************************************)

\* The end of a finalization, which is announced.
Announces(s) == wasFinalizing /\ s = "Idle"

\* Mutant: the flag is not taken back.
ShowRepeatedly(s) ==
  /\ s \in Statuses \ {"Beep"}
  /\ shown' = s
  /\ display' = IF Announces(s) THEN "RecordingSaved" ELSE s
  /\ wasFinalizing' = (wasFinalizing \/ s = "Finalizing")
  /\ announced'   = announced   + (IF Announces(s) THEN 1 ELSE 0)
  /\ savedTimers' = savedTimers + (IF Announces(s) THEN 1 ELSE 0)
  /\ UNCHANGED history

\* Title, icon and menu, and the saved notification.
Show(s) ==
  /\ s \in Statuses \ {"Beep"}
  /\ shown' = s
  /\ display' = IF Announces(s) THEN "RecordingSaved" ELSE s
  /\ wasFinalizing' = (s = "Finalizing" \/ (wasFinalizing /\ s # "Idle"))
  /\ announced'   = announced   + (IF Announces(s) THEN 1 ELSE 0)
  /\ savedTimers' = savedTimers + (IF Announces(s) THEN 1 ELSE 0)
  /\ UNCHANGED history

\* Mutant: a full history takes nothing more.
RememberUntilFull(n) ==
  /\ history' = IF ~historyOn \/ n = BlankText \/ Len(history) = HistoryLimit
                THEN history ELSE <<n>> \o history
  /\ UNCHANGED <<uiVars, savedTimers>>

\* The newest text in front, the oldest out.
Remember(n) ==
  /\ history' = IF ~historyOn \/ n = BlankText THEN history
                ELSE SubSeq(<<n>> \o history, 1,
                            IF Len(history) < HistoryLimit THEN Len(history) + 1
                                                          ELSE HistoryLimit)
  /\ UNCHANGED <<uiVars, savedTimers>>

MainFrame == UNCHANGED <<modeMachineVars, emitting, micFailed, counts, finalized,
                         cancelled, raced>>

\* main takes the next message.
Handle ==
  /\ MainFree /\ mainQueue # <<>>
  /\ mainQueue' = Tail(mainQueue)
  /\ LET m == Head(mainQueue)
     IN  \/ Show(m.what)
         \/ m.what = "Text" /\ Remember(m.text)
         \/ /\ m.what = "SavedOver"
            /\ display' = "Idle"
            /\ UNCHANGED <<shown, wasFinalizing, announced, savedTimers, history>>
         \/ m.what = "Beep" /\ UNCHANGED <<uiVars, savedTimers, history>>
  /\ UNCHANGED <<historyOn, owed>>
  /\ MainFrame

\* Four seconds after a saved notification.
TimerFires ==
  /\ savedTimers > 0 /\ savedTimers' = savedTimers - 1
  /\ Send(SavedOver)
  /\ UNCHANGED <<uiVars, historyVars>>
  /\ MainFrame

\* The texts on their way to the history.
Queued == {mainQueue[k].text : k \in 1..Len(mainQueue)} \ {BlankText}

ToggleHistory ==
  /\ MainFree
  /\ historyOn' = ~historyOn
  /\ owed' = IF historyOn THEN {} ELSE Queued
  /\ history' = IF historyOn THEN <<>> ELSE history
  /\ UNCHANGED <<mainQueue, uiVars, savedTimers>>
  /\ MainFrame

ClearHistory ==
  /\ MainFree /\ historyOn
  /\ history' = <<>> /\ owed' = Queued
  /\ UNCHANGED <<historyOn, mainQueue, uiVars, savedTimers>>
  /\ MainFrame

Ui == Handle \/ TimerFires \/ ToggleHistory \/ ClearHistory

Next == Dictation \/ Session \/ (\E t \in Threads : Emit(t)) \/ Ui

Spec == Init /\ [][Next]_vars

-----------------------------------------------------------------------------
(***************************************************************************)
(* Properties.                                                             *)
(***************************************************************************)

\* The flags that updateMenuForStatus() sets: what the app means the menu to offer.
\* They hold no click back, for the menu leaves its items to AppKit's auto-enabling,
\* which enables any item that has a target: see ClickStart.
StartEnabled == shown = "Idle"
StopEnabled  == shown \in {"RecordingListening", "RecordingCapturing"}

\* Everything reported has been shown.
Quiet == mainQueue = <<>> /\ \A t \in Threads : Silent(t)

\* README.md:192, "Start Recording is disabled during dictation", as far as the
\* flags go: once everything is shown and it is no error, they are those of the
\* mode, unless another report was on its way when the mode last changed.  Even
\* then they never hide that the app is ready again, unless a dictation was given
\* up for its microphone: the transition to Idle reports last what it ends.  After
\* an error both are off whatever the mode is.
MenuFollowsMode ==
  Quiet /\ shown # "Error" =>
    /\ raced # "now" => /\ StartEnabled <=> mode = "Idle"
                       /\ StopEnabled  <=> mode = "Recording"
    /\ mode = "Idle" /\ ~cancelled => StartEnabled

\* A session that is over is announced as saved, and once, whatever was reported
\* in between.  Only overtaken reports, and only from the second session on, may
\* make one announcement of two.
SavedIsAnnounced ==
  Quiet /\ mode # "Finalizing" /\ (raced = "no" \/ sessions <= 1) =>
    announced = finalized

\* README.md:78, "keeps recent dictations": nothing but what was dictated since the
\* user last cleared the history or turned it on, newest first; of that everything
\* that is not still on its way, but what as many newer texts as the history takes
\* have driven out; and nothing while it is off.
HistoryHolds ==
  /\ Len(history) <= HistoryLimit
  /\ \A i, j \in 1..Len(history) : i < j => history[i] > history[j]
  /\ \A i \in 1..Len(history) : history[i] \in owed
  /\ \A n \in owed \ Queued :
       \/ \E i \in 1..Len(history) : history[i] = n
       \/ /\ Len(history) = HistoryLimit
          /\ \A i \in 1..Len(history) : n < history[i]
  /\ ~historyOn => history = <<>>

\* Title and icon, too, follow the mode.  They do not: the end of a saved
\* notification shows Idle whatever has begun since.
TitleFollowsMode ==
  Quiet /\ raced # "now" => (display = "Idle" => mode = "Idle")

=============================================================================
