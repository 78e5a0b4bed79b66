---------------------------- MODULE ModeMachine ----------------------------
(***************************************************************************)
(* The mode word of src/src/mode_machine.cpp and the rule by which the     *)
(* controller uses it.                                                     *)
(*                                                                         *)
(* transcriptionDone(), finalizeDone() and reset() store Idle without      *)
(* looking at the mode.  What makes that right is ownership: a mode that   *)
(* is being started or ended belongs to one thread, only that thread       *)
(* leaves it, and it either leaves it or hands it over.  AppController     *)
(* implements this module (ImplementsModes there), and StatusUi extends it *)
(* with the reports that follow every transition.                          *)
(***************************************************************************)
VARIABLES
  mode,      \* state_
  owner,     \* the thread that is going to end the mode, if one is
  stopping   \* stop() has begun

modeMachineVars == <<mode, owner, stopping>>

ModeSet == {"Idle", "Dictating", "Transcribing", "Recording", "Finalizing"}
Owners  == {"nobody", "main", "hotkey", "worker"}

ModeMachineTypeOK == mode \in ModeSet /\ owner \in Owners /\ stopping \in BOOLEAN

ModeMachineInit == mode = "Idle" /\ owner = "nobody" /\ stopping = FALSE

-----------------------------------------------------------------------------
\* A transition, and whose the new mode is.
Move(from, to, newOwner) ==
  /\ mode = from /\ mode' = to
  /\ owner' = newOwner
  /\ UNCHANGED stopping

\* onHotkeyDown(): IDLE -> DICTATING, which the release of the key ends, or the
\* mic-control thread when the microphone does not start.
TryDictate      == ~stopping /\ Move("Idle", "Dictating", "nobody")
CancelDictation == Move("Dictating", "Idle", "nobody")
FinishDictation == Move("Dictating", "Transcribing", "hotkey")

\* onHotkeyUp(): the dictation is the worker's now, or too short.
QueueDictation   == owner = "hotkey" /\ Move("Transcribing", "Transcribing", "worker")
DiscardDictation == owner = "hotkey" /\ Move("Transcribing", "Idle", "nobody")

\* on_result, which is not called for a dictation that failed, has no text, or
\* fell out of the queue: nobody ends the mode then.
TranscriptionDone == owner = "worker" /\ Move("Transcribing", "Idle", "nobody")
LoseDictation     == owner = "worker" /\ Move("Transcribing", "Transcribing", "nobody")

\* startSession(): main keeps the mode until the microphone has started or not.
TryRecord       == Move("Idle", "Recording", "main")
RecordingStarts == owner = "main" /\ Move("Recording", "Recording", "nobody")
RecordingFails  == owner = "main" /\ Move("Recording", "Idle", "nobody")

\* stopSession(): main's until the drain callback is armed, then the worker's.
StopRecord   == owner = "nobody" /\ Move("Recording", "Finalizing", "main")
ArmDone      == owner = "main" /\ Move("Finalizing", "Finalizing", "worker")
FinalizeDone == owner = "worker" /\ Move("Finalizing", "Idle", "nobody")

\* stop(): the callback is taken away, and in the end the mode is reset.
Stop   == ~stopping /\ stopping' = TRUE /\ UNCHANGED <<mode, owner>>
Disarm == stopping /\ owner = "worker" /\ Move("Finalizing", "Finalizing", "nobody")
Reset  == /\ stopping /\ UNCHANGED stopping
          /\ mode' = "Idle" /\ owner' = "nobody"

ModeMachineNext ==
  \/ TryDictate \/ CancelDictation \/ FinishDictation
  \/ QueueDictation \/ DiscardDictation \/ TranscriptionDone \/ LoseDictation
  \/ TryRecord \/ RecordingStarts \/ RecordingFails
  \/ StopRecord \/ ArmDone \/ FinalizeDone
  \/ Stop \/ Disarm \/ Reset

ModeMachineSpec == ModeMachineInit /\ [][ModeMachineNext]_modeMachineVars

=============================================================================
