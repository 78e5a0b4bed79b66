---------------------------- MODULE AppController ----------------------------
(***************************************************************************)
(* The controller (src/src/app_controller.cpp): five threads over one mode *)
(* word.  main runs startSession(), stopSession() and stop(); hotkey runs  *)
(* onHotkeyDown() and onHotkeyUp(); mic is the mic-control thread that     *)
(* starts the microphone for a dictation; tap is the audio thread that     *)
(* delivers blocks; and the worker of WhisperWorker calls back when a      *)
(* dictation is transcribed and when a session is drained.                 *)
(*                                                                         *)
(* A handler is cut between the accesses other threads can see: an atomic  *)
(* load or store, a compare-and-swap, a section under a mutex.  pc says    *)
(* where each thread is, hand what audio it holds in a local variable.     *)
(* Audio is the set of the presses, or of the sessions, it was spoken in.  *)
(*                                                                         *)
(* The behaviour begins in the state a successful start() leaves.          *)
(***************************************************************************)
EXTENDS WhisperWorker

CONSTANTS
  MaxPresses,   \* bound: accepted presses of the hotkey
  MaxSessions,  \* bound: calls of startSession()
  MaxUses,      \* bound: presses and calls of startSession() together
  MaxBlocks,    \* bound: audio blocks delivered while a mode wants them
  MicMayFail,   \* capture.start() may fail
  TapDrains     \* capture.stop() waits for a block being delivered

ASSUME ControllerAssumption ==
  /\ MaxPresses \in Nat /\ MaxSessions \in Nat /\ MaxUses \in Nat /\ MaxBlocks \in Nat
  /\ MaxPresses + MaxBlocks <= MaxChunks
  /\ MicMayFail \in BOOLEAN /\ TapDrains \in BOOLEAN
  /\ Writers = 1..MaxSessions
  /\ Audio = SUBSET (0..MaxPresses \union 0..MaxSessions)

VARIABLES
  mode,           \* mode_machine.state_
  pc,             \* where each thread is
  hand,           \* the audio in a local variable of each thread
  micRunning,     \* mic_running: capture delivers blocks
  micWanted,      \* mic_wanted
  micRequested,   \* mic_start_requested
  micThreadStop,  \* mic_thread_stop
  micFailed,      \* history: a startMic() has returned false
  shuttingDown,   \* shutting_down, and started is false
  sessionWriter,  \* session_writer; the writer of the n-th session is n
  sessions,       \* startSession() calls so far
  overlapped,     \* history: the last of them came with a session under way
  recorded,       \* history: the session that last entered Recording
  dictBuffer,     \* dict_buffer
  presses,        \* history: presses accepted so far
  assembler,      \* assembler's buffer_; empty exactly in LISTENING
  blocks,         \* history: blocks delivered so far
  writerClosed    \* the session-done callback is past closeSessionWriter()

modeVars    == <<mode, recorded>>
micVars     == <<micRunning, micWanted, micRequested, micThreadStop, micFailed,
                 shuttingDown>>
sessionVars == <<sessionWriter, sessions, overlapped>>
audioVars   == <<dictBuffer, assembler, presses, blocks>>
ownVars     == <<modeVars, micVars, sessionVars, audioVars, pc, hand, writerClosed>>
vars        == <<ownVars, workerVars>>

Modes == {"Idle", "Dictating", "Transcribing", "Recording", "Finalizing"}

MainPcs == {"idle", "attach", "tryRecord", "detach", "startMic",
            "micFailed", "stopMic", "flush", "emit", "arm",
            "quit", "quitJoin", "quitMic", "quitDisarm", "quitFlush", "quitEmit",
            "quitWorker", "quitWorkerJoin", "quitClose", "quitReset", "stopped"}
HotkeyPcs == {"idle", "want", "request", "unwant", "stopMic", "take", "short", "emit"}
MicPcs    == {"wait", "check", "start", "failed", "cancel", "verify", "undo", "exited"}
TapPcs    == {"idle", "dictate", "feed", "emit"}
Pcs == [main : MainPcs, hotkey : HotkeyPcs, mic : MicPcs, tap : TapPcs]
Hands == [main : Audio, hotkey : Audio, tap : Audio]

\* Audio that was buffered; long when there is enough of it to be emitted.
Buffer == [audio : Audio, long : BOOLEAN]
EmptyBuffer == [audio |-> {}, long |-> FALSE]

ModeTypeOK == mode \in Modes /\ recorded \in 0..MaxSessions

MicTypeOK ==
  /\ micRunning \in BOOLEAN /\ micWanted \in BOOLEAN /\ micRequested \in BOOLEAN
  /\ micThreadStop \in BOOLEAN /\ micFailed \in BOOLEAN /\ shuttingDown \in BOOLEAN

SessionTypeOK ==
  /\ sessionWriter \in Writers \union {NoWriter} /\ sessions \in 0..MaxSessions
  /\ overlapped \in BOOLEAN

AudioTypeOK ==
  /\ dictBuffer \in Buffer /\ assembler \in Buffer
  /\ presses \in 0..MaxPresses /\ blocks \in 0..MaxBlocks

PcTypeOK == pc \in Pcs /\ hand \in Hands /\ writerClosed \in BOOLEAN

OwnTypeOK == ModeTypeOK /\ MicTypeOK /\ SessionTypeOK /\ AudioTypeOK /\ PcTypeOK

TypeOK == WorkerTypeOK /\ OwnTypeOK

Init ==
  /\ WorkerInit
  /\ mode = "Idle"
  /\ pc = [main |-> "idle", hotkey |-> "idle", mic |-> "wait", tap |-> "idle"]
  /\ hand = [main |-> {}, hotkey |-> {}, tap |-> {}]
  /\ micRunning = FALSE /\ micWanted = FALSE /\ micRequested = FALSE
  /\ micThreadStop = FALSE /\ micFailed = FALSE /\ shuttingDown = FALSE
  /\ sessionWriter = NoWriter /\ sessions = 0 /\ overlapped = FALSE /\ recorded = 0
  /\ dictBuffer = EmptyBuffer /\ presses = 0
  /\ assembler = EmptyBuffer /\ blocks = 0
  /\ writerClosed = FALSE

-----------------------------------------------------------------------------
(***************************************************************************)
(* Shared helpers.                                                         *)
(***************************************************************************)

\* Thread t goes from one place to another.
At(t, from, to) == pc[t] = from /\ pc' = [pc EXCEPT ![t] = to]

\* Mutant: a load and a store without the comparison.
CASUnchecked(from, to) == mode' = to

\* A compare-and-swap of the mode that succeeds.
CAS(from, to) == mode = from /\ mode' = to

Store(m) == mode' = m

\* Thread t puts audio in its hand, or empties it.
Take(t, audio) == hand' = [hand EXCEPT ![t] = audio]

\* startMic() under mic_mutex, and whether it returned true.
StartMic(ok) ==
  /\ micRunning => ok
  /\ ok \/ MicMayFail
  /\ micRunning' = ok
  /\ micFailed' = (micFailed \/ ~ok)
  /\ UNCHANGED <<micWanted, micRequested, micThreadStop, shuttingDown>>

\* stopMic() under mic_mutex; capture.stop() removes the tap.
StopMic ==
  /\ micRunning /\ TapDrains => pc.tap = "idle"
  /\ micRunning' = FALSE
  /\ UNCHANGED <<micWanted, micRequested, micThreadStop, micFailed, shuttingDown>>

\* forceFlush() under the assembler's mutex, by main: on to one of two places.
ForceFlush(from, emitting, otherwise) ==
  \/ /\ assembler.long
     /\ At("main", from, emitting)
     /\ Take("main", assembler.audio)
     /\ assembler' = EmptyBuffer
  \/ /\ ~assembler.long
     /\ At("main", from, otherwise)
     /\ UNCHANGED <<hand, assembler>>

-----------------------------------------------------------------------------
(***************************************************************************)
(* The hotkey thread.                                                      *)
(***************************************************************************)

\* onHotkeyDown(): take the mode and clear the buffer, under dict_mutex.
\* In any other mode the press is answered with a beep.
HotkeyDown ==
  /\ At("hotkey", "idle", "want")
  /\ ~shuttingDown /\ presses < MaxPresses /\ presses + sessions < MaxUses
  /\ CAS("Idle", "Dictating")
  /\ dictBuffer' = EmptyBuffer
  /\ presses' = presses + 1
  /\ UNCHANGED <<workerVars, recorded, micVars, sessionVars, assembler, blocks,
                 hand, writerClosed>>

HotkeyWantsMic ==
  /\ At("hotkey", "want", "request")
  /\ micWanted' = TRUE
  /\ UNCHANGED <<workerVars, modeVars, sessionVars, audioVars, hand, writerClosed,
                 micRunning, micRequested, micThreadStop, micFailed, shuttingDown>>

\* requestMicStartForDictation()
HotkeyRequestsMic ==
  /\ At("hotkey", "request", "idle")
  /\ micRequested' = TRUE
  /\ UNCHANGED <<workerVars, modeVars, sessionVars, audioVars, hand, writerClosed,
                 micRunning, micWanted, micThreadStop, micFailed, shuttingDown>>

\* onHotkeyUp(): only when Dictating.
HotkeyUp ==
  /\ At("hotkey", "idle", "unwant")
  /\ ~shuttingDown
  /\ CAS("Dictating", "Transcribing")
  /\ UNCHANGED <<workerVars, recorded, micVars, sessionVars, audioVars, hand,
                 writerClosed>>

HotkeyUnwantsMic ==
  /\ At("hotkey", "unwant", "stopMic")
  /\ micWanted' = FALSE
  /\ UNCHANGED <<workerVars, modeVars, sessionVars, audioVars, hand, writerClosed,
                 micRunning, micRequested, micThreadStop, micFailed, shuttingDown>>

HotkeyStopsMic ==
  /\ At("hotkey", "stopMic", "take")
  /\ StopMic
  /\ UNCHANGED <<workerVars, modeVars, sessionVars, audioVars, hand, writerClosed>>

\* Mutant: a short dictation is dropped without giving the mode back.
HotkeyForgetsShort ==
  /\ At("hotkey", "take", IF dictBuffer.long THEN "emit" ELSE "idle")
  /\ Take("hotkey", IF dictBuffer.long THEN dictBuffer.audio ELSE {})
  /\ dictBuffer' = EmptyBuffer
  /\ UNCHANGED <<workerVars, modeVars, micVars, sessionVars, assembler, presses,
                 blocks, writerClosed>>

\* Take the dictated audio under dict_mutex and weigh it.
HotkeyTakesAudio ==
  /\ At("hotkey", "take", IF dictBuffer.long THEN "emit" ELSE "short")
  /\ Take("hotkey", dictBuffer.audio)
  /\ dictBuffer' = EmptyBuffer
  /\ UNCHANGED <<workerVars, modeVars, micVars, sessionVars, assembler, presses,
                 blocks, writerClosed>>

\* Too short: an accidental tap of the key.
HotkeyDiscards ==
  /\ At("hotkey", "short", "idle")
  /\ Take("hotkey", {})
  /\ Store("Idle")
  /\ UNCHANGED <<workerVars, recorded, micVars, sessionVars, audioVars, writerClosed>>

\* Mutant: Idle at once, not when the text is there.
HotkeyEnqueuesAndIdles ==
  /\ At("hotkey", "emit", "idle")
  /\ Enqueue(TRUE, hand.hotkey)
  /\ Take("hotkey", {})
  /\ Store("Idle")
  /\ UNCHANGED <<recorded, micVars, sessionVars, audioVars, writerClosed>>

HotkeyEnqueues ==
  /\ At("hotkey", "emit", "idle")
  /\ Enqueue(TRUE, hand.hotkey)
  /\ Take("hotkey", {})
  /\ UNCHANGED <<modeVars, micVars, sessionVars, audioVars, writerClosed>>

HotkeyHandler ==
  \/ HotkeyWantsMic \/ HotkeyRequestsMic
  \/ HotkeyUnwantsMic \/ HotkeyStopsMic \/ HotkeyTakesAudio
  \/ HotkeyDiscards \/ HotkeyEnqueues

-----------------------------------------------------------------------------
(***************************************************************************)
(* The mic-control thread.                                                 *)
(***************************************************************************)

MicFrame == UNCHANGED <<workerVars, recorded, sessionVars, audioVars, hand, writerClosed>>

MicStillWanted == micWanted /\ ~shuttingDown

\* Woken: stop, or consume the request.
MicWakes ==
  /\ pc.mic = "wait"
  /\ \/ /\ micThreadStop
        /\ At("mic", "wait", "exited")
        /\ UNCHANGED micRequested
     \/ /\ ~micThreadStop /\ micRequested
        /\ At("mic", "wait", "check")
        /\ micRequested' = FALSE
  /\ UNCHANGED <<mode, micRunning, micWanted, micThreadStop, micFailed, shuttingDown>>
  /\ MicFrame

MicChecks ==
  /\ At("mic", "check", IF MicStillWanted THEN "start" ELSE "wait")
  /\ UNCHANGED <<mode, micVars>>
  /\ MicFrame

MicStarts(ok) ==
  /\ At("mic", "start", IF ok THEN "verify" ELSE "failed")
  /\ StartMic(ok)
  /\ UNCHANGED mode
  /\ MicFrame

MicStartFailed ==
  /\ At("mic", "failed", IF MicStillWanted THEN "cancel" ELSE "wait")
  /\ UNCHANGED <<mode, micVars>>
  /\ MicFrame

\* Mutant: the mode is stored without looking.
MicResetsMode ==
  /\ At("mic", "cancel", "wait")
  /\ mode' = "Idle"
  /\ UNCHANGED micVars
  /\ MicFrame

\* cancelDictation(): whichever dictation is on by now.
MicCancels ==
  /\ At("mic", "cancel", "wait")
  /\ mode' = IF mode = "Dictating" THEN "Idle" ELSE mode
  /\ UNCHANGED micVars
  /\ MicFrame

\* Mutant: nobody looks after startMic() has succeeded.
MicNeverVerifies ==
  /\ At("mic", "verify", "wait")
  /\ UNCHANGED <<mode, micVars>>
  /\ MicFrame

\* Released while startMic() ran?
MicVerifies ==
  /\ At("mic", "verify", IF MicStillWanted THEN "wait" ELSE "undo")
  /\ UNCHANGED <<mode, micVars>>
  /\ MicFrame

MicUndoes ==
  /\ At("mic", "undo", "wait")
  /\ StopMic
  /\ UNCHANGED mode
  /\ MicFrame

MicThread ==
  \/ MicWakes \/ MicChecks \/ \E ok \in BOOLEAN : MicStarts(ok)
  \/ MicStartFailed \/ MicCancels \/ MicVerifies \/ MicUndoes

-----------------------------------------------------------------------------
(***************************************************************************)
(* The audio tap.                                                          *)
(***************************************************************************)

TapFrame == UNCHANGED <<workerVars, modeVars, micVars, sessionVars, presses, writerClosed>>

\* A block arrives and the mode is read, under no lock.  Blocks of the other
\* modes are thrown away.
TapBlock ==
  /\ micRunning /\ blocks < MaxBlocks
  /\ \/ /\ mode = "Dictating"
        /\ At("tap", "idle", "dictate")
        /\ Take("tap", {presses})
     \/ /\ mode = "Recording"
        /\ At("tap", "idle", "feed")
        /\ Take("tap", {recorded})
  /\ blocks' = blocks + 1
  /\ UNCHANGED <<dictBuffer, assembler>>
  /\ TapFrame

\* Append under dict_mutex.
TapDictates(long) ==
  /\ At("tap", "dictate", "idle")
  /\ dictBuffer' = [audio |-> dictBuffer.audio \union hand.tap,
                    long  |-> long \/ dictBuffer.long]
  /\ Take("tap", {})
  /\ UNCHANGED <<assembler, blocks>>
  /\ TapFrame

\* feed(): silence while LISTENING is not kept.
TapDiscards ==
  /\ At("tap", "feed", "idle")
  /\ assembler.audio = {}
  /\ Take("tap", {})
  /\ UNCHANGED <<dictBuffer, assembler, blocks>>
  /\ TapFrame

\* feed(): the block is added to the buffer.
TapBuffers(long) ==
  /\ At("tap", "feed", "idle")
  /\ assembler' = [audio |-> assembler.audio \union hand.tap,
                   long  |-> long \/ assembler.long]
  /\ Take("tap", {})
  /\ UNCHANGED <<dictBuffer, blocks>>
  /\ TapFrame

\* feed(): the block ends a chunk, which is emitted after the mutex.
TapFlushes ==
  /\ At("tap", "feed", "emit")
  /\ assembler.audio # {}
  /\ Take("tap", assembler.audio \union hand.tap)
  /\ assembler' = EmptyBuffer
  /\ UNCHANGED <<dictBuffer, blocks>>
  /\ TapFrame

TapEnqueues ==
  /\ At("tap", "emit", "idle")
  /\ Enqueue(FALSE, hand.tap)
  /\ Take("tap", {})
  /\ UNCHANGED <<modeVars, micVars, sessionVars, audioVars, writerClosed>>

TapHandler ==
  \/ \E long \in BOOLEAN : TapDictates(long) \/ TapBuffers(long)
  \/ TapDiscards \/ TapFlushes \/ TapEnqueues

-----------------------------------------------------------------------------
(***************************************************************************)
(* The main thread: sessions.                                              *)
(***************************************************************************)

\* startSession(), which the menu item calls in any mode, AppKit keeping it enabled:
\* clear mic_wanted, make the session's writer.
StartSession ==
  /\ At("main", "idle", "attach")
  /\ sessions < MaxSessions /\ presses + sessions < MaxUses
  /\ micWanted' = FALSE
  /\ sessions' = sessions + 1
  /\ sessionWriter' = sessions + 1
  /\ overlapped' = (mode \in {"Recording", "Finalizing"})
  /\ UNCHANGED <<workerVars, modeVars, audioVars, hand, writerClosed,
                 micRunning, micRequested, micThreadStop, micFailed, shuttingDown>>

\* Mutant: the writer is made and not handed over.
AttachNothing ==
  /\ At("main", "attach", "tryRecord")
  /\ UNCHANGED <<workerVars, modeVars, micVars, sessionVars, audioVars, hand, writerClosed>>

\* The worker has the writer before the mode changes, and before it is known
\* whether it may.
AttachWriter ==
  /\ At("main", "attach", "tryRecord")
  /\ SetOutputWriter(sessionWriter)
  /\ UNCHANGED <<modeVars, micVars, sessionVars, audioVars, hand, writerClosed>>

TryRecord ==
  /\ \/ /\ CAS("Idle", "Recording")
        /\ recorded' = sessions
        /\ At("main", "tryRecord", "startMic")
     \/ /\ mode # "Idle"
        /\ UNCHANGED modeVars
        /\ At("main", "tryRecord", "detach")
  /\ UNCHANGED <<workerVars, micVars, sessionVars, audioVars, hand, writerClosed>>

\* The rollback: detach and drop the writer.
DetachWriter ==
  /\ At("main", "detach", "idle")
  /\ SetOutputWriter(NoWriter)
  /\ sessionWriter' = NoWriter
  /\ UNCHANGED <<modeVars, micVars, sessions, overlapped, audioVars, hand, writerClosed>>

SessionStartsMic(ok) ==
  /\ At("main", "startMic", IF ok THEN "idle" ELSE "micFailed")
  /\ StartMic(ok)
  /\ UNCHANGED <<workerVars, modeVars, sessionVars, audioVars, hand, writerClosed>>

\* reset() from any mode, then the rollback.
SessionMicFailed ==
  /\ At("main", "micFailed", "detach")
  /\ Store("Idle")
  /\ UNCHANGED <<workerVars, recorded, micVars, sessionVars, audioVars, hand,
                 writerClosed>>

\* stopSession(): only when Recording.
StopSession ==
  /\ At("main", "idle", "stopMic")
  /\ CAS("Recording", "Finalizing")
  /\ UNCHANGED <<workerVars, recorded, micVars, sessionVars, audioVars, hand,
                 writerClosed>>

\* Mutant: the microphone is left on during the flush.
SessionLeavesMicOn ==
  /\ At("main", "stopMic", "flush")
  /\ UNCHANGED <<workerVars, modeVars, micVars, sessionVars, audioVars, hand,
                 writerClosed>>

\* The producer first.
SessionStopsMic ==
  /\ At("main", "stopMic", "flush")
  /\ StopMic
  /\ UNCHANGED <<workerVars, modeVars, sessionVars, audioVars, hand, writerClosed>>

\* flushSessionTail(), before the drain callback is armed.
SessionFlushesTail ==
  /\ ForceFlush("flush", "emit", "arm")
  /\ UNCHANGED <<workerVars, modeVars, micVars, sessionVars, dictBuffer, presses,
                 blocks, writerClosed>>

SessionEnqueuesTail ==
  /\ At("main", "emit", "arm")
  /\ Enqueue(FALSE, hand.main)
  /\ Take("main", {})
  /\ UNCHANGED <<modeVars, micVars, sessionVars, audioVars, writerClosed>>

SessionArms ==
  /\ At("main", "arm", "idle")
  /\ SetOnSessionDone(TRUE)
  /\ UNCHANGED <<modeVars, micVars, sessionVars, audioVars, hand, writerClosed>>

SessionHandler ==
  \/ AttachWriter \/ TryRecord \/ DetachWriter
  \/ \E ok \in BOOLEAN : SessionStartsMic(ok)
  \/ SessionMicFailed
  \/ SessionStopsMic \/ SessionFlushesTail \/ SessionEnqueuesTail \/ SessionArms

-----------------------------------------------------------------------------
(***************************************************************************)
(* The main thread: stop().  The event tap, and with it the hotkey thread, *)
(* is stopped before (app_delegate.mm:103).                                *)
(***************************************************************************)

Quit ==
  /\ At("main", "idle", "quit")
  /\ pc.hotkey = "idle"
  /\ micWanted' = FALSE /\ shuttingDown' = TRUE
  /\ UNCHANGED <<workerVars, modeVars, sessionVars, audioVars, hand, writerClosed,
                 micRunning, micRequested, micThreadStop, micFailed>>

\* Mutant: the request is cleared and the thread is not told.
QuitForgetsMicThread ==
  /\ At("main", "quit", "quitJoin")
  /\ micRequested' = FALSE
  /\ UNCHANGED <<workerVars, modeVars, sessionVars, audioVars, hand, writerClosed,
                 micRunning, micWanted, micThreadStop, micFailed, shuttingDown>>

\* stopMicControlThread(): raise the flag, then join.
QuitStopsMicThread ==
  /\ At("main", "quit", "quitJoin")
  /\ micThreadStop' = TRUE /\ micRequested' = FALSE
  /\ UNCHANGED <<workerVars, modeVars, sessionVars, audioVars, hand, writerClosed,
                 micRunning, micWanted, micFailed, shuttingDown>>

QuitJoinsMicThread ==
  /\ At("main", "quitJoin", "quitMic")
  /\ pc.mic = "exited"
  /\ UNCHANGED <<workerVars, modeVars, micVars, sessionVars, audioVars, hand,
                 writerClosed>>

\* Mutant: the microphone is left to the destructor.
QuitLeavesMicOn ==
  /\ At("main", "quitMic", "quitDisarm")
  /\ UNCHANGED <<workerVars, modeVars, micVars, sessionVars, audioVars, hand,
                 writerClosed>>

QuitStopsMic ==
  /\ At("main", "quitMic", "quitDisarm")
  /\ StopMic
  /\ UNCHANGED <<workerVars, modeVars, sessionVars, audioVars, hand, writerClosed>>

\* No session-done callback from here on, except one already running.
QuitDisarms ==
  /\ At("main", "quitDisarm", IF sessionWriter # NoWriter THEN "quitFlush"
                                                         ELSE "quitWorker")
  /\ SetOnSessionDone(FALSE)
  /\ UNCHANGED <<modeVars, micVars, sessionVars, audioVars, hand, writerClosed>>

QuitFlushesTail ==
  /\ ForceFlush("quitFlush", "quitEmit", "quitWorker")
  /\ UNCHANGED <<workerVars, modeVars, micVars, sessionVars, dictBuffer, presses,
                 blocks, writerClosed>>

QuitEnqueuesTail ==
  /\ At("main", "quitEmit", "quitWorker")
  /\ Enqueue(FALSE, hand.main)
  /\ Take("main", {})
  /\ UNCHANGED <<modeVars, micVars, sessionVars, audioVars, writerClosed>>

QuitStopsWorker ==
  /\ At("main", "quitWorker", "quitWorkerJoin")
  /\ RequestStop
  /\ UNCHANGED <<modeVars, micVars, sessionVars, audioVars, hand, writerClosed>>

QuitJoinsWorker ==
  /\ At("main", "quitWorkerJoin", "quitClose")
  /\ Join
  /\ UNCHANGED <<modeVars, micVars, sessionVars, audioVars, hand, writerClosed>>

\* closeSessionWriter()
QuitClosesWriter ==
  /\ At("main", "quitClose", "quitReset")
  /\ SetOutputWriter(NoWriter)
  /\ sessionWriter' = NoWriter
  /\ UNCHANGED <<modeVars, micVars, sessions, overlapped, audioVars, hand, writerClosed>>

QuitResets ==
  /\ At("main", "quitReset", "stopped")
  /\ Store("Idle")
  /\ UNCHANGED <<workerVars, recorded, micVars, sessionVars, audioVars, hand,
                 writerClosed>>

QuitHandler ==
  \/ QuitStopsMicThread \/ QuitJoinsMicThread \/ QuitStopsMic \/ QuitDisarms
  \/ QuitFlushesTail \/ QuitEnqueuesTail \/ QuitStopsWorker \/ QuitJoinsWorker
  \/ QuitClosesWriter \/ QuitResets

-----------------------------------------------------------------------------
(***************************************************************************)
(* The worker's callbacks.                                                 *)
(***************************************************************************)

WorkerFrame == UNCHANGED <<recorded, micVars, sessions, overlapped, audioVars, pc, hand>>

\* on_result: hand the text over, back to Idle from any mode.
DictationResult ==
  /\ TranscribeDictation("text")
  /\ Store("Idle")
  /\ UNCHANGED <<sessionWriter, writerClosed>>
  /\ WorkerFrame

\* on_session_done: closeSessionWriter() ...
SessionDoneCloses ==
  /\ workerPc = "sessionDone" /\ ~writerClosed
  /\ SetOutputWriter(NoWriter)
  /\ sessionWriter' = NoWriter
  /\ writerClosed' = TRUE
  /\ UNCHANGED mode
  /\ WorkerFrame

\* ... then finalizeDone(), back to Idle from any mode.
SessionDoneFinalizes ==
  /\ SessionDoneReturns /\ writerClosed
  /\ writerClosed' = FALSE
  /\ Store("Idle")
  /\ UNCHANGED sessionWriter
  /\ WorkerFrame

WorkerHandler ==
  \/ WorkerLoop /\ UNCHANGED ownVars
  \/ DictationResult \/ SessionDoneCloses \/ SessionDoneFinalizes

-----------------------------------------------------------------------------

\* What the user, the operating system and the C++ library may do.
Environment ==
  \/ HotkeyDown \/ HotkeyUp \/ TapBlock \/ StartSession \/ StopSession \/ Quit
  \/ WakeSpuriously /\ UNCHANGED ownVars

MainHandler == SessionHandler \/ QuitHandler

Next ==
  \/ Environment \/ HotkeyHandler \/ MicThread \/ TapHandler \/ MainHandler
  \/ WorkerHandler

\* Every thread that has something to do is scheduled in the end, and
\* capture.start(), capture.stop() and whisper_full return.  The user owes
\* nothing.
Fairness ==
  /\ WF_vars(HotkeyHandler)
  /\ WF_vars(MicThread)
  /\ WF_vars(TapHandler)
  /\ WF_vars(MainHandler)
  /\ WF_vars(WorkerHandler)

SafetySpec == Init /\ [][Next]_vars
Spec == SafetySpec /\ Fairness

-----------------------------------------------------------------------------
(***************************************************************************)
(* Properties.                                                             *)
(***************************************************************************)

InFlight == {queue[k] : k \in 1..Len(queue)}
            \union (IF workerPc = "transcribe" THEN {item} ELSE {})

\* The thread that is going to end the mode, read off what the threads are doing.
ModeOwner ==
  IF (\E c \in InFlight : c.dictation) \/ armed \/ workerPc = "sessionDone"
  THEN "worker"
  ELSE IF pc.hotkey \in {"unwant", "stopMic", "take", "short", "emit"}
  THEN "hotkey"
  ELSE IF pc.main \in {"startMic", "micFailed", "stopMic", "flush", "emit", "arm"}
  THEN "main"
  ELSE "nobody"

Machine == INSTANCE ModeMachine WITH owner <- ModeOwner, stopping <- shuttingDown

\* The stores of Idle that do not look at the mode (mode_machine.cpp:30, :51, :56)
\* hit the mode they are meant for in every interleaving: each mode that is being
\* started or ended has one thread to end it, and no other thread does.
ImplementsModes == Machine!ModeMachineSpec

\* A dictation in the worker is the last one pressed, contains what was said
\* during that press and nothing else, and the mode waits for its result.
OneDictation ==
  \A c \in InFlight : c.dictation =>
    /\ mode = "Transcribing"
    /\ c.audio = {presses}
    /\ \A d \in InFlight : d.dictation => d = c

\* README.md:192, "modes are mutually exclusive", for the worker's queue: a
\* dictation never shares it with another chunk, so that a full queue never
\* costs one, as long as the microphone has not failed.
DictationAlone ==
  ~micFailed => \A c \in InFlight : c.dictation => InFlight = {c}

\* A session's chunk is added to the writer of the session it was spoken in, with
\* what forceFlush() left behind of earlier ones.  When startSession() was called
\* with the session under way the chunk may have no writer, and still never that of
\* an earlier session.
SavedInItsSession ==
  [][workerPc = "transcribe" /\ workerPc' = "checkDone" /\ ~micFailed =>
       /\ ~overlapped => itemWriter \in item.audio
       /\ itemWriter = NoWriter \/ \A n \in item.audio : n <= itemWriter]_vars

\* A session that is over has no chunk left anywhere: not in the worker, not on
\* its way there, nor enough in the assembler's buffer to be one.
SessionOverMeansDrained ==
  mode = "Idle" /\ pc.main # "stopped" /\ ~micFailed =>
    /\ \A c \in InFlight : c.dictation
    /\ pc.tap # "emit"
    /\ ~assembler.long

\* app_controller.h:35, startSession() "is a no-op unless current mode is IDLE": a
\* session that is recording has its own writer in the worker, until stop() has
\* closed it.  The code does not keep this.
RecordingHasWriter ==
  mode = "Recording" /\ pc.main # "quitReset" => outputWriter = recorded

\* What it keeps: only a call of startSession() with a session under way costs a
\* session its writer, the one that records or the one that begins as the other
\* ends, and then the worker has none once the call is over: no chunk of a session
\* gets into the file of another.
WriterLostToStart ==
  mode = "Recording" /\ pc.main # "quitReset" =>
    \/ outputWriter = recorded
    \/ overlapped /\ pc.main \in {"tryRecord", "detach"}
    \/ overlapped /\ outputWriter = NoWriter

\* stop() leaves nothing behind.
QuitLeavesNothing ==
  pc.main = "stopped" =>
    /\ AllSettled
    /\ ~micRunning /\ pc.mic = "exited"
    /\ outputWriter = NoWriter /\ sessionWriter = NoWriter

\* A dictation whose key was released and a session that was stopped are over in
\* the end.
ModesEnd == \A m \in {"Transcribing", "Finalizing"} : []<>(mode # m)

\* stop() returns, from whatever state the threads are in.
QuitReturns == []<>(shuttingDown => pc.main = "stopped")

\* README.md:190, "stops when it ends": a microphone that has not failed is off in
\* Idle once main, the hotkey and the mic-control thread are at rest, even when a
\* request that nobody stands behind any more is still pending.
MicOffWhenIdle ==
  /\ mode = "Idle" /\ ~micFailed
  /\ pc.main = "idle" /\ pc.hotkey = "idle" /\ pc.mic = "wait"
  => ~micRunning

\* A session that started has its microphone.
RecordingHasMic ==
  /\ mode = "Recording" /\ ~micRequested
  /\ pc.main = "idle" /\ pc.hotkey = "idle" /\ pc.mic = "wait"
  => micRunning

=============================================================================
