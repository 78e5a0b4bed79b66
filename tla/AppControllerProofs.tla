------------------------ MODULE AppControllerProofs ------------------------
(***************************************************************************)
(* The controller, for any number of presses, sessions, blocks and places  *)
(* in the queue:                                                           *)
(*                                                                         *)
(*   types, and the use of the worker: what is proved of the worker alone  *)
(*   holds inside the controller;                                          *)
(*   modes: the controller implements ModeMachine;                         *)
(*   the microphone and the tap, dictations, the end of stop(): given a    *)
(*   capture.stop() that waits for the block being delivered;              *)
(*   the writer of a session: given a menu that offers one in Idle only;   *)
(*   a microphone that starts, what is left of a session, whose audio it   *)
(*   is: given that capture.start() does not fail, and some of the above.  *)
(*                                                                         *)
(* The invariants build on one another, and each theorem assumes what its  *)
(* own need.                                                               *)
(***************************************************************************)
EXTENDS AppController, WhisperWorkerProofs

(***************************************************************************)
(* Types, and the use of the worker.                                       *)
(***************************************************************************)

\* Where main is once it has asked the worker to stop.
AfterWorkerStop == {"quitWorkerJoin", "quitClose", "quitReset", "stopped"}

\* The inductive invariant: types, the session counter below its bound while a
\* start is pending, and the worker's owner calling nothing but stop() at the end.
ControllerInv ==
  /\ OwnTypeOK
  /\ stopPc = "running" <=> pc.main \notin AfterWorkerStop

\* The initial state satisfies it.
LEMMA ControllerInitInv == Init => ControllerInv
  <1> SUFFICES ASSUME Init PROVE ControllerInv
    OBVIOUS
  <1> USE DEF Init, WorkerInit
  <1>1. {} \in Audio
    BY ControllerAssumption
  <1>2. pc \in Pcs /\ hand \in Hands
    BY <1>1 DEF Pcs, Hands, MainPcs, HotkeyPcs, MicPcs, TapPcs
  <1>3. dictBuffer \in Buffer /\ assembler \in Buffer
    BY <1>1 DEF Buffer, EmptyBuffer
  <1>4. sessions \in 0..MaxSessions /\ recorded \in 0..MaxSessions
        /\ presses \in 0..MaxPresses /\ blocks \in 0..MaxBlocks
    BY ControllerAssumption
  <1>5. OwnTypeOK
    BY <1>2, <1>3, <1>4
    DEF OwnTypeOK, ModeTypeOK, MicTypeOK, SessionTypeOK, AudioTypeOK, PcTypeOK, Modes
  <1> QED
    BY <1>5 DEF ControllerInv, AfterWorkerStop

\* What At does when it moves main.
LEMMA AtMain ==
  ASSUME NEW from, NEW to \in MainPcs, pc \in Pcs, At("main", from, to)
  PROVE  /\ pc' \in Pcs /\ pc.main = from
         /\ pc'.main = to
  BY DEF At, Pcs

\* What At does when it moves hotkey.
LEMMA AtHotkey ==
  ASSUME NEW from, NEW to \in HotkeyPcs, pc \in Pcs, At("hotkey", from, to)
  PROVE  /\ pc' \in Pcs /\ pc.hotkey = from
         /\ pc'.main = pc.main
  BY DEF At, Pcs

\* What At does when it moves mic.
LEMMA AtMic ==
  ASSUME NEW from, NEW to \in MicPcs, pc \in Pcs, At("mic", from, to)
  PROVE  /\ pc' \in Pcs /\ pc.mic = from
         /\ pc'.main = pc.main
  BY DEF At, Pcs

\* What At does when it moves tap.
LEMMA AtTap ==
  ASSUME NEW from, NEW to \in TapPcs, pc \in Pcs, At("tap", from, to)
  PROVE  /\ pc' \in Pcs /\ pc.tap = from
         /\ pc'.main = pc.main
  BY DEF At, Pcs

\* Variables a step leaves alone keep their types.
LEMMA TypesKept ==
  ASSUME OwnTypeOK
  PROVE  /\ UNCHANGED modeVars => ModeTypeOK'
         /\ UNCHANGED micVars => MicTypeOK'
         /\ UNCHANGED sessionVars => SessionTypeOK'
         /\ UNCHANGED audioVars => AudioTypeOK'
  BY DEF OwnTypeOK, ModeTypeOK, MicTypeOK, SessionTypeOK, AudioTypeOK,
         modeVars, micVars, sessionVars, audioVars

\* What Take does.
LEMMA TakeTyped ==
  ASSUME NEW t \in {"main", "hotkey", "tap"}, NEW audio \in Audio, hand \in Hands,
         Take(t, audio)
  PROVE  hand' \in Hands
  BY DEF Take, Hands

\* Audio is closed under what the buffers do with it.
LEMMA AudioClosed ==
  /\ {} \in Audio
  /\ EmptyBuffer \in Buffer
  /\ \A a, b \in Audio : a \union b \in Audio
  /\ \A n \in 0..MaxPresses \union 0..MaxSessions : {n} \in Audio
  BY ControllerAssumption DEF Buffer, EmptyBuffer

\* A step of the hotkey thread.
LEMMA HotkeyStep ==
  ASSUME ControllerInv, HotkeyDown \/ HotkeyUp \/ HotkeyHandler
  PROVE  ControllerInv' /\ [WorkerNext]_workerVars
  <1> USE DEF ControllerInv, OwnTypeOK
  <1>1. ASSUME HotkeyDown PROVE ControllerInv' /\ UNCHANGED workerVars
    <2>1. pc' \in Pcs /\ pc'.main = pc.main
      BY <1>1, AtHotkey DEF PcTypeOK, HotkeyDown, HotkeyPcs
    <2>2. UNCHANGED <<workerVars, stopPc, sessions, hand, writerClosed>>
      BY <1>1 DEF HotkeyDown, workerVars, sessionVars
    <2>3. MicTypeOK' /\ SessionTypeOK'
      BY <1>1, TypesKept DEF HotkeyDown
    <2>4. ModeTypeOK'
      BY <1>1 DEF HotkeyDown, ModeTypeOK, CAS, Modes
    <2>5. AudioTypeOK'
      BY <1>1, AudioClosed, ControllerAssumption
      DEF HotkeyDown, AudioTypeOK, Buffer, EmptyBuffer
    <2> QED
      BY <2>1, <2>2, <2>3, <2>4, <2>5 DEF PcTypeOK, AfterWorkerStop, sessionVars
  <1>2. ASSUME HotkeyUp PROVE ControllerInv' /\ UNCHANGED workerVars
    <2>1. pc' \in Pcs /\ pc'.main = pc.main
      BY <1>2, AtHotkey DEF PcTypeOK, HotkeyUp, HotkeyPcs
    <2>2. UNCHANGED <<workerVars, stopPc, sessions, hand, writerClosed>>
      BY <1>2 DEF HotkeyUp, workerVars, sessionVars
    <2>3. MicTypeOK' /\ SessionTypeOK' /\ AudioTypeOK'
      BY <1>2, TypesKept DEF HotkeyUp
    <2>4. ModeTypeOK'
      BY <1>2 DEF HotkeyUp, ModeTypeOK, CAS, Modes
    <2> QED
      BY <2>1, <2>2, <2>3, <2>4 DEF PcTypeOK, AfterWorkerStop, sessionVars
  <1>3. ASSUME HotkeyWantsMic PROVE ControllerInv' /\ UNCHANGED workerVars
    <2>1. pc' \in Pcs /\ pc'.main = pc.main
      BY <1>3, AtHotkey DEF PcTypeOK, HotkeyWantsMic, HotkeyPcs
    <2>2. UNCHANGED <<workerVars, stopPc, sessions, hand, writerClosed>>
      BY <1>3 DEF HotkeyWantsMic, workerVars, sessionVars
    <2>3. ModeTypeOK' /\ SessionTypeOK' /\ AudioTypeOK'
      BY <1>3, TypesKept DEF HotkeyWantsMic
    <2>4. MicTypeOK'
      BY <1>3 DEF HotkeyWantsMic, MicTypeOK
    <2> QED
      BY <2>1, <2>2, <2>3, <2>4 DEF PcTypeOK, AfterWorkerStop, sessionVars
  <1>4. ASSUME HotkeyRequestsMic PROVE ControllerInv' /\ UNCHANGED workerVars
    <2>1. pc' \in Pcs /\ pc'.main = pc.main
      BY <1>4, AtHotkey DEF PcTypeOK, HotkeyRequestsMic, HotkeyPcs
    <2>2. UNCHANGED <<workerVars, stopPc, sessions, hand, writerClosed>>
      BY <1>4 DEF HotkeyRequestsMic, workerVars, sessionVars
    <2>3. ModeTypeOK' /\ SessionTypeOK' /\ AudioTypeOK'
      BY <1>4, TypesKept DEF HotkeyRequestsMic
    <2>4. MicTypeOK'
      BY <1>4 DEF HotkeyRequestsMic, MicTypeOK
    <2> QED
      BY <2>1, <2>2, <2>3, <2>4 DEF PcTypeOK, AfterWorkerStop, sessionVars
  <1>5. ASSUME HotkeyUnwantsMic PROVE ControllerInv' /\ UNCHANGED workerVars
    <2>1. pc' \in Pcs /\ pc'.main = pc.main
      BY <1>5, AtHotkey DEF PcTypeOK, HotkeyUnwantsMic, HotkeyPcs
    <2>2. UNCHANGED <<workerVars, stopPc, sessions, hand, writerClosed>>
      BY <1>5 DEF HotkeyUnwantsMic, workerVars, sessionVars
    <2>3. ModeTypeOK' /\ SessionTypeOK' /\ AudioTypeOK'
      BY <1>5, TypesKept DEF HotkeyUnwantsMic
    <2>4. MicTypeOK'
      BY <1>5 DEF HotkeyUnwantsMic, MicTypeOK
    <2> QED
      BY <2>1, <2>2, <2>3, <2>4 DEF PcTypeOK, AfterWorkerStop, sessionVars
  <1>6. ASSUME HotkeyStopsMic PROVE ControllerInv' /\ UNCHANGED workerVars
    <2>1. pc' \in Pcs /\ pc'.main = pc.main
      BY <1>6, AtHotkey DEF PcTypeOK, HotkeyStopsMic, HotkeyPcs
    <2>2. UNCHANGED <<workerVars, stopPc, sessions, hand, writerClosed>>
      BY <1>6 DEF HotkeyStopsMic, workerVars, sessionVars
    <2>3. ModeTypeOK' /\ SessionTypeOK' /\ AudioTypeOK'
      BY <1>6, TypesKept DEF HotkeyStopsMic
    <2>4. MicTypeOK'
      BY <1>6 DEF HotkeyStopsMic, MicTypeOK, StopMic
    <2> QED
      BY <2>1, <2>2, <2>3, <2>4 DEF PcTypeOK, AfterWorkerStop, sessionVars
  <1>7. ASSUME HotkeyTakesAudio PROVE ControllerInv' /\ UNCHANGED workerVars
    <2>1. pc' \in Pcs /\ pc'.main = pc.main
      BY <1>7, AtHotkey DEF PcTypeOK, HotkeyTakesAudio, HotkeyPcs
    <2>2. UNCHANGED <<workerVars, stopPc, sessions>>
      BY <1>7 DEF HotkeyTakesAudio, workerVars, sessionVars
    <2>3. dictBuffer.audio \in Audio
      BY AudioClosed DEF AudioTypeOK, Buffer
    <2>4. hand' \in Hands /\ writerClosed' = writerClosed
      BY <1>7, <2>3, TakeTyped DEF HotkeyTakesAudio, PcTypeOK
    <2>5. ModeTypeOK' /\ MicTypeOK' /\ SessionTypeOK'
      BY <1>7, TypesKept DEF HotkeyTakesAudio
    <2>6. AudioTypeOK'
      BY <1>7, AudioClosed, ControllerAssumption
      DEF HotkeyTakesAudio, AudioTypeOK, Buffer, EmptyBuffer
    <2> QED
      BY <2>1, <2>2, <2>3, <2>4, <2>5, <2>6
      DEF PcTypeOK, AfterWorkerStop, sessionVars
  <1>8. ASSUME HotkeyDiscards PROVE ControllerInv' /\ UNCHANGED workerVars
    <2>1. pc' \in Pcs /\ pc'.main = pc.main
      BY <1>8, AtHotkey DEF PcTypeOK, HotkeyDiscards, HotkeyPcs
    <2>2. UNCHANGED <<workerVars, stopPc, sessions>>
      BY <1>8 DEF HotkeyDiscards, workerVars, sessionVars
    <2>3. hand' \in Hands /\ writerClosed' = writerClosed
      BY <1>8, AudioClosed, TakeTyped DEF HotkeyDiscards, PcTypeOK
    <2>4. MicTypeOK' /\ SessionTypeOK' /\ AudioTypeOK'
      BY <1>8, TypesKept DEF HotkeyDiscards
    <2>5. ModeTypeOK'
      BY <1>8 DEF HotkeyDiscards, ModeTypeOK, Store, Modes
    <2> QED
      BY <2>1, <2>2, <2>3, <2>4, <2>5 DEF PcTypeOK, AfterWorkerStop, sessionVars
  <1>9. ASSUME HotkeyEnqueues
        PROVE  /\ ControllerInv'
               /\ \E dictation \in BOOLEAN, audio \in Audio :
                    Enqueue(dictation, audio)
    <2>1. pc' \in Pcs /\ pc'.main = pc.main
      BY <1>9, AtHotkey DEF PcTypeOK, HotkeyEnqueues, HotkeyPcs
    <2>2. sessions' = sessions
      BY <1>9 DEF HotkeyEnqueues, sessionVars
    <2>3. \E dictation \in BOOLEAN, audio \in Audio : Enqueue(dictation, audio)
      BY <1>9 DEF HotkeyEnqueues, PcTypeOK, Hands
    <2>4. stopPc' = stopPc
      BY <2>3 DEF Enqueue
    <2>5. hand' \in Hands /\ writerClosed' = writerClosed
      BY <1>9, AudioClosed, TakeTyped DEF HotkeyEnqueues, PcTypeOK
    <2>6. ModeTypeOK' /\ MicTypeOK' /\ SessionTypeOK' /\ AudioTypeOK'
      BY <1>9, TypesKept DEF HotkeyEnqueues
    <2> QED
      BY <2>1, <2>2, <2>3, <2>4, <2>5, <2>6
      DEF PcTypeOK, AfterWorkerStop, sessionVars
  <1> QED
    BY <1>1, <1>2, <1>3, <1>4, <1>5, <1>6, <1>7, <1>8, <1>9
    DEF HotkeyHandler, WorkerNext, AnyThread, Owner, RequestStop

\* A step of the mic-control thread.
LEMMA MicStep ==
  ASSUME ControllerInv, MicThread
  PROVE  ControllerInv' /\ [WorkerNext]_workerVars
  <1> USE DEF ControllerInv, OwnTypeOK
  <1>1. ASSUME MicWakes PROVE ControllerInv' /\ UNCHANGED workerVars
    <2>1. pc' \in Pcs /\ pc'.main = pc.main
      BY <1>1, AtMic DEF PcTypeOK, MicWakes, MicFrame, MicPcs
    <2>2. UNCHANGED <<workerVars, stopPc, sessions, hand, writerClosed>>
      BY <1>1 DEF MicWakes, MicFrame, workerVars, sessionVars
    <2>3. ModeTypeOK' /\ SessionTypeOK' /\ AudioTypeOK'
      BY <1>1, TypesKept DEF MicWakes, MicFrame, modeVars
    <2>4. MicTypeOK'
      BY <1>1 DEF MicWakes, MicFrame, MicTypeOK
    <2> QED
      BY <2>1, <2>2, <2>3, <2>4 DEF PcTypeOK, AfterWorkerStop, sessionVars
  <1>2. ASSUME MicChecks PROVE ControllerInv' /\ UNCHANGED workerVars
    <2>1. pc' \in Pcs /\ pc'.main = pc.main
      BY <1>2, AtMic DEF PcTypeOK, MicChecks, MicFrame, MicPcs
    <2>2. UNCHANGED <<workerVars, stopPc, sessions, hand, writerClosed>>
      BY <1>2 DEF MicChecks, MicFrame, workerVars, sessionVars
    <2>3. ModeTypeOK' /\ MicTypeOK' /\ SessionTypeOK' /\ AudioTypeOK'
      BY <1>2, TypesKept DEF MicChecks, MicFrame, modeVars
    <2> QED
      BY <2>1, <2>2, <2>3 DEF PcTypeOK, AfterWorkerStop, sessionVars
  <1>3. ASSUME NEW ok \in BOOLEAN, MicStarts(ok)
        PROVE  ControllerInv' /\ UNCHANGED workerVars
    <2>1. pc' \in Pcs /\ pc'.main = pc.main
      BY <1>3, AtMic DEF PcTypeOK, MicStarts, MicFrame, MicPcs
    <2>2. UNCHANGED <<workerVars, stopPc, sessions, hand, writerClosed>>
      BY <1>3 DEF MicStarts, MicFrame, workerVars, sessionVars
    <2>3. ModeTypeOK' /\ SessionTypeOK' /\ AudioTypeOK'
      BY <1>3, TypesKept DEF MicStarts, MicFrame, modeVars
    <2>4. MicTypeOK'
      BY <1>3 DEF MicStarts, MicFrame, MicTypeOK, StartMic
    <2> QED
      BY <2>1, <2>2, <2>3, <2>4 DEF PcTypeOK, AfterWorkerStop, sessionVars
  <1>4. ASSUME MicStartFailed PROVE ControllerInv' /\ UNCHANGED workerVars
    <2>1. pc' \in Pcs /\ pc'.main = pc.main
      BY <1>4, AtMic DEF PcTypeOK, MicStartFailed, MicFrame, MicPcs
    <2>2. UNCHANGED <<workerVars, stopPc, sessions, hand, writerClosed>>
      BY <1>4 DEF MicStartFailed, MicFrame, workerVars, sessionVars
    <2>3. ModeTypeOK' /\ MicTypeOK' /\ SessionTypeOK' /\ AudioTypeOK'
      BY <1>4, TypesKept DEF MicStartFailed, MicFrame, modeVars
    <2> QED
      BY <2>1, <2>2, <2>3 DEF PcTypeOK, AfterWorkerStop, sessionVars
  <1>5. ASSUME MicCancels PROVE ControllerInv' /\ UNCHANGED workerVars
    <2>1. pc' \in Pcs /\ pc'.main = pc.main
      BY <1>5, AtMic DEF PcTypeOK, MicCancels, MicFrame, MicPcs
    <2>2. UNCHANGED <<workerVars, stopPc, sessions, hand, writerClosed>>
      BY <1>5 DEF MicCancels, MicFrame, workerVars, sessionVars
    <2>3. MicTypeOK' /\ SessionTypeOK' /\ AudioTypeOK'
      BY <1>5, TypesKept DEF MicCancels, MicFrame
    <2>4. ModeTypeOK'
      BY <1>5 DEF MicCancels, MicFrame, ModeTypeOK, Modes
    <2> QED
      BY <2>1, <2>2, <2>3, <2>4 DEF PcTypeOK, AfterWorkerStop, sessionVars
  <1>6. ASSUME MicVerifies PROVE ControllerInv' /\ UNCHANGED workerVars
    <2>1. pc' \in Pcs /\ pc'.main = pc.main
      BY <1>6, AtMic DEF PcTypeOK, MicVerifies, MicFrame, MicPcs
    <2>2. UNCHANGED <<workerVars, stopPc, sessions, hand, writerClosed>>
      BY <1>6 DEF MicVerifies, MicFrame, workerVars, sessionVars
    <2>3. ModeTypeOK' /\ MicTypeOK' /\ SessionTypeOK' /\ AudioTypeOK'
      BY <1>6, TypesKept DEF MicVerifies, MicFrame, modeVars
    <2> QED
      BY <2>1, <2>2, <2>3 DEF PcTypeOK, AfterWorkerStop, sessionVars
  <1>7. ASSUME MicUndoes PROVE ControllerInv' /\ UNCHANGED workerVars
    <2>1. pc' \in Pcs /\ pc'.main = pc.main
      BY <1>7, AtMic DEF PcTypeOK, MicUndoes, MicFrame, MicPcs
    <2>2. UNCHANGED <<workerVars, stopPc, sessions, hand, writerClosed>>
      BY <1>7 DEF MicUndoes, MicFrame, workerVars, sessionVars
    <2>3. ModeTypeOK' /\ SessionTypeOK' /\ AudioTypeOK'
      BY <1>7, TypesKept DEF MicUndoes, MicFrame, modeVars
    <2>4. MicTypeOK'
      BY <1>7 DEF MicUndoes, MicFrame, MicTypeOK, StopMic
    <2> QED
      BY <2>1, <2>2, <2>3, <2>4 DEF PcTypeOK, AfterWorkerStop, sessionVars
  <1> QED
    BY <1>1, <1>2, <1>3, <1>4, <1>5, <1>6, <1>7
    DEF MicThread, WorkerNext, AnyThread, Owner, RequestStop

\* A step of the audio tap.
LEMMA TapStep ==
  ASSUME ControllerInv, TapBlock \/ TapHandler
  PROVE  ControllerInv' /\ [WorkerNext]_workerVars
  <1> USE DEF ControllerInv, OwnTypeOK
  <1>1. ASSUME TapBlock PROVE ControllerInv' /\ UNCHANGED workerVars
    <2>1. pc' \in Pcs /\ pc'.main = pc.main
      BY <1>1, AtTap DEF PcTypeOK, TapBlock, TapFrame, TapPcs
    <2>2. UNCHANGED <<workerVars, stopPc, sessions>>
      BY <1>1 DEF TapBlock, TapFrame, workerVars, sessionVars
    <2>3. hand' \in Hands /\ writerClosed' = writerClosed
      BY <1>1, TakeTyped, AudioClosed
      DEF TapBlock, TapFrame, PcTypeOK, AudioTypeOK, ModeTypeOK
    <2>4. ModeTypeOK' /\ MicTypeOK' /\ SessionTypeOK'
      BY <1>1, TypesKept DEF TapBlock, TapFrame, audioVars
    <2>5. AudioTypeOK'
      BY <1>1, AudioClosed, ControllerAssumption
      DEF TapBlock, TapFrame, AudioTypeOK
    <2> QED
      BY <2>1, <2>2, <2>3, <2>4, <2>5 DEF PcTypeOK, AfterWorkerStop, sessionVars
  <1>2. ASSUME NEW long \in BOOLEAN, TapDictates(long)
        PROVE  ControllerInv' /\ UNCHANGED workerVars
    <2>1. pc' \in Pcs /\ pc'.main = pc.main
      BY <1>2, AtTap DEF PcTypeOK, TapDictates, TapFrame, TapPcs
    <2>2. UNCHANGED <<workerVars, stopPc, sessions>>
      BY <1>2 DEF TapDictates, TapFrame, workerVars, sessionVars
    <2>3. hand' \in Hands /\ writerClosed' = writerClosed
      BY <1>2, AudioClosed, TakeTyped DEF TapDictates, TapFrame, PcTypeOK
    <2>4. ModeTypeOK' /\ MicTypeOK' /\ SessionTypeOK'
      BY <1>2, TypesKept DEF TapDictates, TapFrame, audioVars
    <2>5. AudioTypeOK'
      BY <1>2, AudioClosed, ControllerAssumption
      DEF TapDictates, TapFrame, AudioTypeOK, Buffer, Hands, PcTypeOK
    <2> QED
      BY <2>1, <2>2, <2>3, <2>4, <2>5 DEF PcTypeOK, AfterWorkerStop, sessionVars
  <1>3. ASSUME TapDiscards PROVE ControllerInv' /\ UNCHANGED workerVars
    <2>1. pc' \in Pcs /\ pc'.main = pc.main
      BY <1>3, AtTap DEF PcTypeOK, TapDiscards, TapFrame, TapPcs
    <2>2. UNCHANGED <<workerVars, stopPc, sessions>>
      BY <1>3 DEF TapDiscards, TapFrame, workerVars, sessionVars
    <2>3. hand' \in Hands /\ writerClosed' = writerClosed
      BY <1>3, AudioClosed, TakeTyped DEF TapDiscards, TapFrame, PcTypeOK
    <2>4. ModeTypeOK' /\ MicTypeOK' /\ SessionTypeOK' /\ AudioTypeOK'
      BY <1>3, TypesKept DEF TapDiscards, TapFrame, audioVars
    <2> QED
      BY <2>1, <2>2, <2>3, <2>4 DEF PcTypeOK, AfterWorkerStop, sessionVars
  <1>4. ASSUME NEW long \in BOOLEAN, TapBuffers(long)
        PROVE  ControllerInv' /\ UNCHANGED workerVars
    <2>1. pc' \in Pcs /\ pc'.main = pc.main
      BY <1>4, AtTap DEF PcTypeOK, TapBuffers, TapFrame, TapPcs
    <2>2. UNCHANGED <<workerVars, stopPc, sessions>>
      BY <1>4 DEF TapBuffers, TapFrame, workerVars, sessionVars
    <2>3. hand' \in Hands /\ writerClosed' = writerClosed
      BY <1>4, AudioClosed, TakeTyped DEF TapBuffers, TapFrame, PcTypeOK
    <2>4. ModeTypeOK' /\ MicTypeOK' /\ SessionTypeOK'
      BY <1>4, TypesKept DEF TapBuffers, TapFrame, audioVars
    <2>5. AudioTypeOK'
      BY <1>4, AudioClosed, ControllerAssumption
      DEF TapBuffers, TapFrame, AudioTypeOK, Buffer, Hands, PcTypeOK
    <2> QED
      BY <2>1, <2>2, <2>3, <2>4, <2>5 DEF PcTypeOK, AfterWorkerStop, sessionVars
  <1>5. ASSUME TapFlushes PROVE ControllerInv' /\ UNCHANGED workerVars
    <2>1. pc' \in Pcs /\ pc'.main = pc.main
      BY <1>5, AtTap DEF PcTypeOK, TapFlushes, TapFrame, TapPcs
    <2>2. UNCHANGED <<workerVars, stopPc, sessions>>
      BY <1>5 DEF TapFlushes, TapFrame, workerVars, sessionVars
    <2>3. assembler.audio \union hand.tap \in Audio
      BY AudioClosed DEF AudioTypeOK, Buffer, PcTypeOK, Hands
    <2>4. hand' \in Hands /\ writerClosed' = writerClosed
      BY <1>5, <2>3, TakeTyped DEF TapFlushes, TapFrame, PcTypeOK
    <2>5. ModeTypeOK' /\ MicTypeOK' /\ SessionTypeOK'
      BY <1>5, TypesKept DEF TapFlushes, TapFrame, audioVars
    <2>6. AudioTypeOK'
      BY <1>5, AudioClosed, ControllerAssumption
      DEF TapFlushes, TapFrame, AudioTypeOK, Buffer, EmptyBuffer
    <2> QED
      BY <2>1, <2>2, <2>3, <2>4, <2>5, <2>6
      DEF PcTypeOK, AfterWorkerStop, sessionVars
  <1>6. ASSUME TapEnqueues
        PROVE  /\ ControllerInv'
               /\ \E dictation \in BOOLEAN, audio \in Audio :
                    Enqueue(dictation, audio)
    <2>1. pc' \in Pcs /\ pc'.main = pc.main
      BY <1>6, AtTap DEF PcTypeOK, TapEnqueues, TapPcs
    <2>2. sessions' = sessions
      BY <1>6 DEF TapEnqueues, sessionVars
    <2>3. \E dictation \in BOOLEAN, audio \in Audio : Enqueue(dictation, audio)
      BY <1>6 DEF TapEnqueues, PcTypeOK, Hands
    <2>4. stopPc' = stopPc
      BY <2>3 DEF Enqueue
    <2>5. hand' \in Hands /\ writerClosed' = writerClosed
      BY <1>6, AudioClosed, TakeTyped DEF TapEnqueues, PcTypeOK
    <2>6. ModeTypeOK' /\ MicTypeOK' /\ SessionTypeOK' /\ AudioTypeOK'
      BY <1>6, TypesKept DEF TapEnqueues, audioVars
    <2> QED
      BY <2>1, <2>2, <2>3, <2>4, <2>5, <2>6
      DEF PcTypeOK, AfterWorkerStop, sessionVars
  <1> QED
    BY <1>1, <1>2, <1>3, <1>4, <1>5, <1>6
    DEF TapHandler, WorkerNext, AnyThread, Owner, RequestStop

\* A step of main, for a session.
LEMMA SessionStep ==
  ASSUME ControllerInv, StartSession \/ StopSession \/ SessionHandler
  PROVE  ControllerInv' /\ [WorkerNext]_workerVars
  <1> USE DEF ControllerInv, OwnTypeOK
  <1>1. ASSUME StopSession PROVE ControllerInv' /\ UNCHANGED workerVars
    <2>1. pc' \in Pcs /\ pc.main = "idle" /\ pc'.main = "stopMic"
      BY <1>1, AtMain DEF PcTypeOK, StopSession, MainPcs
    <2>2. UNCHANGED <<workerVars, stopPc, hand, writerClosed>>
      BY <1>1 DEF StopSession, workerVars
    <2>3. MicTypeOK' /\ SessionTypeOK' /\ AudioTypeOK'
      BY <1>1, TypesKept DEF StopSession
    <2>4. ModeTypeOK'
      BY <1>1 DEF StopSession, ModeTypeOK, CAS, Modes
    <2> QED
      BY <2>1, <2>2, <2>3, <2>4 DEF PcTypeOK, AfterWorkerStop, sessionVars
  <1>2. ASSUME StartSession PROVE ControllerInv' /\ UNCHANGED workerVars
    <2>1. pc' \in Pcs /\ pc.main = "idle" /\ pc'.main = "attach"
      BY <1>2, AtMain DEF PcTypeOK, StartSession, MainPcs
    <2>2. UNCHANGED <<workerVars, stopPc, hand, writerClosed>>
      BY <1>2 DEF StartSession, workerVars
    <2>3. ModeTypeOK' /\ AudioTypeOK'
      BY <1>2, TypesKept DEF StartSession
    <2>4. MicTypeOK'
      BY <1>2 DEF StartSession, MicTypeOK
    <2>5. sessions < MaxSessions
      BY <1>2 DEF StartSession
    <2>6. sessions' \in Nat /\ sessions' \in 1..MaxSessions
      BY <1>2, <2>5, ControllerAssumption DEF StartSession, SessionTypeOK
    <2>7. SessionTypeOK'
      BY <1>2, <2>6, ControllerAssumption DEF StartSession, SessionTypeOK
    <2> QED
      BY <2>1, <2>2, <2>3, <2>4, <2>5, <2>6, <2>7
      DEF PcTypeOK, AfterWorkerStop, sessionVars
  <1>3. ASSUME AttachWriter
        PROVE  ControllerInv' /\ \E w \in Writers \union {NoWriter} : SetOutputWriter(w)
    <2>1. pc' \in Pcs /\ pc.main = "attach" /\ pc'.main = "tryRecord"
      BY <1>3, AtMain DEF PcTypeOK, AttachWriter, MainPcs
    <2>2. hand' = hand /\ writerClosed' = writerClosed
      BY <1>3 DEF AttachWriter
    <2>3. \E w \in Writers \union {NoWriter} : SetOutputWriter(w)
      BY <1>3 DEF AttachWriter, SessionTypeOK
    <2>4. stopPc' = stopPc
      BY <2>3 DEF SetOutputWriter
    <2>5. ModeTypeOK' /\ MicTypeOK' /\ SessionTypeOK' /\ AudioTypeOK'
      BY <1>3, TypesKept DEF AttachWriter
    <2> QED
      BY <2>1, <2>2, <2>3, <2>4, <2>5 DEF PcTypeOK, AfterWorkerStop, sessionVars
  <1>4. ASSUME TryRecord PROVE ControllerInv' /\ UNCHANGED workerVars
    <2>1. pc' \in Pcs /\ pc.main = "tryRecord" /\ (pc'.main =
          "startMic" \/ pc'.main = "detach")
      BY <1>4, AtMain DEF PcTypeOK, TryRecord, MainPcs
    <2>2. UNCHANGED <<workerVars, stopPc, hand, writerClosed>>
      BY <1>4 DEF TryRecord, workerVars, modeVars
    <2>3. MicTypeOK' /\ SessionTypeOK' /\ AudioTypeOK'
      BY <1>4, TypesKept DEF TryRecord
    <2>4. ModeTypeOK'
      BY <1>4 DEF TryRecord, ModeTypeOK, CAS, Modes, modeVars, SessionTypeOK
    <2> QED
      BY <2>1, <2>2, <2>3, <2>4 DEF PcTypeOK, AfterWorkerStop, sessionVars
  <1>5. ASSUME DetachWriter
        PROVE  ControllerInv' /\ \E w \in Writers \union {NoWriter} : SetOutputWriter(w)
    <2>1. pc' \in Pcs /\ pc.main = "detach" /\ pc'.main = "idle"
      BY <1>5, AtMain DEF PcTypeOK, DetachWriter, MainPcs
    <2>2. hand' = hand /\ writerClosed' = writerClosed
      BY <1>5 DEF DetachWriter
    <2>3. \E w \in Writers \union {NoWriter} : SetOutputWriter(w)
      BY <1>5 DEF DetachWriter, SessionTypeOK
    <2>4. stopPc' = stopPc
      BY <2>3 DEF SetOutputWriter
    <2>5. ModeTypeOK' /\ MicTypeOK' /\ AudioTypeOK'
      BY <1>5, TypesKept DEF DetachWriter
    <2>6. SessionTypeOK'
      BY <1>5, ControllerAssumption DEF DetachWriter, SessionTypeOK
    <2> QED
      BY <2>1, <2>2, <2>3, <2>4, <2>5, <2>6
      DEF PcTypeOK, AfterWorkerStop, sessionVars
  <1>6. ASSUME NEW ok \in BOOLEAN, SessionStartsMic(ok)
        PROVE  ControllerInv' /\ UNCHANGED workerVars
    <2>1. pc' \in Pcs /\ pc.main = "startMic" /\ (pc'.main = "idle" \/
          pc'.main = "micFailed")
      BY <1>6, AtMain DEF PcTypeOK, SessionStartsMic, MainPcs
    <2>2. UNCHANGED <<workerVars, stopPc, hand, writerClosed>>
      BY <1>6 DEF SessionStartsMic, workerVars
    <2>3. ModeTypeOK' /\ SessionTypeOK' /\ AudioTypeOK'
      BY <1>6, TypesKept DEF SessionStartsMic
    <2>4. MicTypeOK'
      BY <1>6 DEF SessionStartsMic, MicTypeOK, StartMic
    <2> QED
      BY <2>1, <2>2, <2>3, <2>4 DEF PcTypeOK, AfterWorkerStop, sessionVars
  <1>7. ASSUME SessionMicFailed PROVE ControllerInv' /\ UNCHANGED workerVars
    <2>1. pc' \in Pcs /\ pc.main = "micFailed" /\ pc'.main = "detach"
      BY <1>7, AtMain DEF PcTypeOK, SessionMicFailed, MainPcs
    <2>2. UNCHANGED <<workerVars, stopPc, hand, writerClosed>>
      BY <1>7 DEF SessionMicFailed, workerVars
    <2>3. MicTypeOK' /\ SessionTypeOK' /\ AudioTypeOK'
      BY <1>7, TypesKept DEF SessionMicFailed
    <2>4. ModeTypeOK'
      BY <1>7 DEF SessionMicFailed, ModeTypeOK, Store, Modes
    <2> QED
      BY <2>1, <2>2, <2>3, <2>4 DEF PcTypeOK, AfterWorkerStop, sessionVars
  <1>8. ASSUME SessionStopsMic PROVE ControllerInv' /\ UNCHANGED workerVars
    <2>1. pc' \in Pcs /\ pc.main = "stopMic" /\ pc'.main = "flush"
      BY <1>8, AtMain DEF PcTypeOK, SessionStopsMic, MainPcs
    <2>2. UNCHANGED <<workerVars, stopPc, hand, writerClosed>>
      BY <1>8 DEF SessionStopsMic, workerVars
    <2>3. ModeTypeOK' /\ SessionTypeOK' /\ AudioTypeOK'
      BY <1>8, TypesKept DEF SessionStopsMic
    <2>4. MicTypeOK'
      BY <1>8 DEF SessionStopsMic, MicTypeOK, StopMic
    <2> QED
      BY <2>1, <2>2, <2>3, <2>4 DEF PcTypeOK, AfterWorkerStop, sessionVars
  <1>9. ASSUME SessionFlushesTail PROVE ControllerInv' /\ UNCHANGED workerVars
    <2>1. pc' \in Pcs /\ pc.main = "flush" /\ (pc'.main = "emit" \/
          pc'.main = "arm")
      BY <1>9, AtMain DEF PcTypeOK, SessionFlushesTail, MainPcs, ForceFlush
    <2>2. UNCHANGED workerVars /\ stopPc' = stopPc
      BY <1>9 DEF SessionFlushesTail, workerVars
    <2>3. assembler.audio \in Audio
      BY AudioClosed DEF AudioTypeOK, Buffer
    <2>4. hand' \in Hands /\ writerClosed' = writerClosed
      BY <1>9, <2>3, TakeTyped DEF SessionFlushesTail, PcTypeOK, ForceFlush
    <2>5. ModeTypeOK' /\ MicTypeOK' /\ SessionTypeOK'
      BY <1>9, TypesKept DEF SessionFlushesTail
    <2>6. assembler' \in {assembler, EmptyBuffer} /\ UNCHANGED
          <<dictBuffer, presses, blocks>>
      BY <1>9 DEF SessionFlushesTail, ForceFlush
    <2>7. AudioTypeOK'
      BY <2>6, AudioClosed, AudioClosed, ControllerAssumption DEF AudioTypeOK
    <2> QED
      BY <2>1, <2>2, <2>3, <2>4, <2>5, <2>6, <2>7
      DEF PcTypeOK, AfterWorkerStop, sessionVars
  <1>10. ASSUME SessionEnqueuesTail
        PROVE  /\ ControllerInv'
               /\ \E dictation \in BOOLEAN, audio \in Audio :
                    Enqueue(dictation, audio)
    <2>1. pc' \in Pcs /\ pc.main = "emit" /\ pc'.main = "arm"
      BY <1>10, AtMain DEF PcTypeOK, SessionEnqueuesTail, MainPcs
    <2>2. \E dictation \in BOOLEAN, audio \in Audio : Enqueue(dictation, audio)
      BY <1>10 DEF SessionEnqueuesTail, PcTypeOK, Hands
    <2>3. stopPc' = stopPc
      BY <2>2 DEF Enqueue
    <2>4. hand' \in Hands /\ writerClosed' = writerClosed
      BY <1>10, AudioClosed, TakeTyped DEF SessionEnqueuesTail, PcTypeOK
    <2>5. ModeTypeOK' /\ MicTypeOK' /\ SessionTypeOK' /\ AudioTypeOK'
      BY <1>10, TypesKept DEF SessionEnqueuesTail
    <2> QED
      BY <2>1, <2>2, <2>3, <2>4, <2>5 DEF PcTypeOK, AfterWorkerStop, sessionVars
  <1>11. ASSUME SessionArms
        PROVE  /\ ControllerInv' /\ stopPc = "running"
               /\ \E b \in BOOLEAN : SetOnSessionDone(b)
    <2>1. pc' \in Pcs /\ pc.main = "arm" /\ pc'.main = "idle"
      BY <1>11, AtMain DEF PcTypeOK, SessionArms, MainPcs
    <2>2. hand' = hand /\ writerClosed' = writerClosed
      BY <1>11 DEF SessionArms
    <2>3. stopPc = "running" /\ \E b \in BOOLEAN : SetOnSessionDone(b)
      BY <1>11, <2>1 DEF SessionArms, AfterWorkerStop
    <2>4. stopPc' = stopPc
      BY <2>3 DEF SetOnSessionDone
    <2>5. ModeTypeOK' /\ MicTypeOK' /\ SessionTypeOK' /\ AudioTypeOK'
      BY <1>11, TypesKept DEF SessionArms
    <2> QED
      BY <2>1, <2>2, <2>3, <2>4, <2>5 DEF PcTypeOK, AfterWorkerStop, sessionVars
  <1> QED
    BY <1>1, <1>2, <1>3, <1>4, <1>5, <1>6, <1>7, <1>8, <1>9, <1>10, <1>11
    DEF SessionHandler, WorkerNext, AnyThread, Owner, RequestStop

\* A step of main, in stop().
LEMMA QuitStep ==
  ASSUME ControllerInv, Quit \/ QuitHandler
  PROVE  ControllerInv' /\ [WorkerNext]_workerVars
  <1> USE DEF ControllerInv, OwnTypeOK
  <1>1. ASSUME Quit PROVE ControllerInv' /\ UNCHANGED workerVars
    <2>1. pc' \in Pcs /\ pc.main = "idle" /\ pc'.main = "quit"
      BY <1>1, AtMain DEF PcTypeOK, Quit, MainPcs
    <2>2. UNCHANGED <<workerVars, stopPc, hand, writerClosed>>
      BY <1>1 DEF Quit, workerVars
    <2>3. ModeTypeOK' /\ SessionTypeOK' /\ AudioTypeOK'
      BY <1>1, TypesKept DEF Quit
    <2>4. MicTypeOK'
      BY <1>1 DEF Quit, MicTypeOK
    <2> QED
      BY <2>1, <2>2, <2>3, <2>4 DEF PcTypeOK, AfterWorkerStop, sessionVars
  <1>2. ASSUME QuitStopsMicThread PROVE ControllerInv' /\ UNCHANGED workerVars
    <2>1. pc' \in Pcs /\ pc.main = "quit" /\ pc'.main = "quitJoin"
      BY <1>2, AtMain DEF PcTypeOK, QuitStopsMicThread, MainPcs
    <2>2. UNCHANGED <<workerVars, stopPc, hand, writerClosed>>
      BY <1>2 DEF QuitStopsMicThread, workerVars
    <2>3. ModeTypeOK' /\ SessionTypeOK' /\ AudioTypeOK'
      BY <1>2, TypesKept DEF QuitStopsMicThread
    <2>4. MicTypeOK'
      BY <1>2 DEF QuitStopsMicThread, MicTypeOK
    <2> QED
      BY <2>1, <2>2, <2>3, <2>4 DEF PcTypeOK, AfterWorkerStop, sessionVars
  <1>3. ASSUME QuitJoinsMicThread PROVE ControllerInv' /\ UNCHANGED workerVars
    <2>1. pc' \in Pcs /\ pc.main = "quitJoin" /\ pc'.main = "quitMic"
      BY <1>3, AtMain DEF PcTypeOK, QuitJoinsMicThread, MainPcs
    <2>2. UNCHANGED <<workerVars, stopPc, hand, writerClosed>>
      BY <1>3 DEF QuitJoinsMicThread, workerVars
    <2>3. ModeTypeOK' /\ MicTypeOK' /\ SessionTypeOK' /\ AudioTypeOK'
      BY <1>3, TypesKept DEF QuitJoinsMicThread
    <2> QED
      BY <2>1, <2>2, <2>3 DEF PcTypeOK, AfterWorkerStop, sessionVars
  <1>4. ASSUME QuitStopsMic PROVE ControllerInv' /\ UNCHANGED workerVars
    <2>1. pc' \in Pcs /\ pc.main = "quitMic" /\ pc'.main = "quitDisarm"
      BY <1>4, AtMain DEF PcTypeOK, QuitStopsMic, MainPcs
    <2>2. UNCHANGED <<workerVars, stopPc, hand, writerClosed>>
      BY <1>4 DEF QuitStopsMic, workerVars
    <2>3. ModeTypeOK' /\ SessionTypeOK' /\ AudioTypeOK'
      BY <1>4, TypesKept DEF QuitStopsMic
    <2>4. MicTypeOK'
      BY <1>4 DEF QuitStopsMic, MicTypeOK, StopMic
    <2> QED
      BY <2>1, <2>2, <2>3, <2>4 DEF PcTypeOK, AfterWorkerStop, sessionVars
  <1>5. ASSUME QuitDisarms
        PROVE  /\ ControllerInv' /\ stopPc = "running"
               /\ \E b \in BOOLEAN : SetOnSessionDone(b)
    <2>1. pc' \in Pcs /\ pc.main = "quitDisarm" /\ (pc'.main =
          "quitFlush" \/ pc'.main = "quitWorker")
      BY <1>5, AtMain DEF PcTypeOK, QuitDisarms, MainPcs
    <2>2. hand' = hand /\ writerClosed' = writerClosed
      BY <1>5 DEF QuitDisarms
    <2>3. stopPc = "running" /\ \E b \in BOOLEAN : SetOnSessionDone(b)
      BY <1>5, <2>1 DEF QuitDisarms, AfterWorkerStop
    <2>4. stopPc' = stopPc
      BY <2>3 DEF SetOnSessionDone
    <2>5. ModeTypeOK' /\ MicTypeOK' /\ SessionTypeOK' /\ AudioTypeOK'
      BY <1>5, TypesKept DEF QuitDisarms
    <2> QED
      BY <2>1, <2>2, <2>3, <2>4, <2>5 DEF PcTypeOK, AfterWorkerStop, sessionVars
  <1>6. ASSUME QuitFlushesTail PROVE ControllerInv' /\ UNCHANGED workerVars
    <2>1. pc' \in Pcs /\ pc.main = "quitFlush" /\ (pc'.main =
          "quitEmit" \/ pc'.main = "quitWorker")
      BY <1>6, AtMain DEF PcTypeOK, QuitFlushesTail, MainPcs, ForceFlush
    <2>2. UNCHANGED workerVars /\ stopPc' = stopPc
      BY <1>6 DEF QuitFlushesTail, workerVars
    <2>3. assembler.audio \in Audio
      BY AudioClosed DEF AudioTypeOK, Buffer
    <2>4. hand' \in Hands /\ writerClosed' = writerClosed
      BY <1>6, <2>3, TakeTyped DEF QuitFlushesTail, PcTypeOK, ForceFlush
    <2>5. ModeTypeOK' /\ MicTypeOK' /\ SessionTypeOK'
      BY <1>6, TypesKept DEF QuitFlushesTail
    <2>6. assembler' \in {assembler, EmptyBuffer} /\ UNCHANGED
          <<dictBuffer, presses, blocks>>
      BY <1>6 DEF QuitFlushesTail, ForceFlush
    <2>7. AudioTypeOK'
      BY <2>6, AudioClosed, AudioClosed, ControllerAssumption DEF AudioTypeOK
    <2> QED
      BY <2>1, <2>2, <2>3, <2>4, <2>5, <2>6, <2>7
      DEF PcTypeOK, AfterWorkerStop, sessionVars
  <1>7. ASSUME QuitEnqueuesTail
        PROVE  /\ ControllerInv'
               /\ \E dictation \in BOOLEAN, audio \in Audio :
                    Enqueue(dictation, audio)
    <2>1. pc' \in Pcs /\ pc.main = "quitEmit" /\ pc'.main = "quitWorker"
      BY <1>7, AtMain DEF PcTypeOK, QuitEnqueuesTail, MainPcs
    <2>2. \E dictation \in BOOLEAN, audio \in Audio : Enqueue(dictation, audio)
      BY <1>7 DEF QuitEnqueuesTail, PcTypeOK, Hands
    <2>3. stopPc' = stopPc
      BY <2>2 DEF Enqueue
    <2>4. hand' \in Hands /\ writerClosed' = writerClosed
      BY <1>7, AudioClosed, TakeTyped DEF QuitEnqueuesTail, PcTypeOK
    <2>5. ModeTypeOK' /\ MicTypeOK' /\ SessionTypeOK' /\ AudioTypeOK'
      BY <1>7, TypesKept DEF QuitEnqueuesTail
    <2> QED
      BY <2>1, <2>2, <2>3, <2>4, <2>5 DEF PcTypeOK, AfterWorkerStop, sessionVars
  <1>8. ASSUME QuitStopsWorker PROVE ControllerInv' /\ RequestStop
    <2>1. pc' \in Pcs /\ pc.main = "quitWorker" /\ pc'.main = "quitWorkerJoin"
      BY <1>8, AtMain DEF PcTypeOK, QuitStopsWorker, MainPcs
    <2>2. hand' = hand /\ writerClosed' = writerClosed
      BY <1>8 DEF QuitStopsWorker
    <2>3. RequestStop
      BY <1>8 DEF QuitStopsWorker
    <2>4. stopPc' # "running"
      BY <2>3 DEF RequestStop
    <2>5. ModeTypeOK' /\ MicTypeOK' /\ SessionTypeOK' /\ AudioTypeOK'
      BY <1>8, TypesKept DEF QuitStopsWorker
    <2> QED
      BY <2>1, <2>2, <2>3, <2>4, <2>5 DEF PcTypeOK, AfterWorkerStop, sessionVars
  <1>9. ASSUME QuitJoinsWorker PROVE ControllerInv' /\ Join
    <2>1. pc' \in Pcs /\ pc.main = "quitWorkerJoin" /\ pc'.main = "quitClose"
      BY <1>9, AtMain DEF PcTypeOK, QuitJoinsWorker, MainPcs
    <2>2. hand' = hand /\ writerClosed' = writerClosed
      BY <1>9 DEF QuitJoinsWorker
    <2>3. Join
      BY <1>9 DEF QuitJoinsWorker
    <2>4. stopPc' # "running"
      BY <2>3 DEF Join
    <2>5. ModeTypeOK' /\ MicTypeOK' /\ SessionTypeOK' /\ AudioTypeOK'
      BY <1>9, TypesKept DEF QuitJoinsWorker
    <2> QED
      BY <2>1, <2>2, <2>3, <2>4, <2>5 DEF PcTypeOK, AfterWorkerStop, sessionVars
  <1>10. ASSUME QuitClosesWriter
        PROVE  ControllerInv' /\ \E w \in Writers \union {NoWriter} : SetOutputWriter(w)
    <2>1. pc' \in Pcs /\ pc.main = "quitClose" /\ pc'.main = "quitReset"
      BY <1>10, AtMain DEF PcTypeOK, QuitClosesWriter, MainPcs
    <2>2. hand' = hand /\ writerClosed' = writerClosed
      BY <1>10 DEF QuitClosesWriter
    <2>3. \E w \in Writers \union {NoWriter} : SetOutputWriter(w)
      BY <1>10 DEF QuitClosesWriter, SessionTypeOK
    <2>4. stopPc' = stopPc
      BY <2>3 DEF SetOutputWriter
    <2>5. ModeTypeOK' /\ MicTypeOK' /\ AudioTypeOK'
      BY <1>10, TypesKept DEF QuitClosesWriter
    <2>6. SessionTypeOK'
      BY <1>10, ControllerAssumption DEF QuitClosesWriter, SessionTypeOK
    <2> QED
      BY <2>1, <2>2, <2>3, <2>4, <2>5, <2>6
      DEF PcTypeOK, AfterWorkerStop, sessionVars
  <1>11. ASSUME QuitResets PROVE ControllerInv' /\ UNCHANGED workerVars
    <2>1. pc' \in Pcs /\ pc.main = "quitReset" /\ pc'.main = "stopped"
      BY <1>11, AtMain DEF PcTypeOK, QuitResets, MainPcs
    <2>2. UNCHANGED <<workerVars, stopPc, hand, writerClosed>>
      BY <1>11 DEF QuitResets, workerVars
    <2>3. MicTypeOK' /\ SessionTypeOK' /\ AudioTypeOK'
      BY <1>11, TypesKept DEF QuitResets
    <2>4. ModeTypeOK'
      BY <1>11 DEF QuitResets, ModeTypeOK, Store, Modes
    <2> QED
      BY <2>1, <2>2, <2>3, <2>4 DEF PcTypeOK, AfterWorkerStop, sessionVars
  <1> QED
    BY <1>1, <1>2, <1>3, <1>4, <1>5, <1>6, <1>7, <1>8, <1>9, <1>10, <1>11
    DEF QuitHandler, WorkerNext, AnyThread, Owner, RequestStop

\* A step of the worker thread: its loop, or a callback into the controller.
LEMMA WorkerHandlerStep ==
  ASSUME ControllerInv, WorkerHandler \/ (WakeSpuriously /\ UNCHANGED ownVars)
  PROVE  ControllerInv' /\ [WorkerNext]_workerVars
  <1> USE DEF ControllerInv, OwnTypeOK
  <1>1. ASSUME WorkerLoop \/ WakeSpuriously, UNCHANGED ownVars
        PROVE  ControllerInv' /\ WorkerNext
    <2>1. stopPc' = stopPc
      BY <1>1 DEF WorkerLoop, WakeSpuriously, Sleep, TakeSessionDone, Exit, Pop,
                  TranscribeFails, TranscribeDictation, TranscribeSession,
                  CheckDone, Finish
    <2>2. UNCHANGED <<modeVars, micVars, sessionVars, audioVars, pc, hand, writerClosed>>
      BY <1>1 DEF ownVars
    <2>3. ModeTypeOK' /\ MicTypeOK' /\ SessionTypeOK' /\ AudioTypeOK' /\ PcTypeOK'
      BY <2>2, TypesKept DEF PcTypeOK
    <2> QED
      BY <1>1, <2>1, <2>2, <2>3 DEF WorkerNext, WorkerThread, sessionVars
  <1>2. ASSUME DictationResult PROVE ControllerInv' /\ TranscribeDictation("text")
    <2>1. stopPc' = stopPc
      BY <1>2 DEF DictationResult, TranscribeDictation, Finish
    <2>2. MicTypeOK' /\ AudioTypeOK'
      BY <1>2, TypesKept DEF DictationResult, WorkerFrame
    <2>3. ModeTypeOK' /\ SessionTypeOK' /\ PcTypeOK'
      BY <1>2 DEF DictationResult, WorkerFrame, Store, Modes, ModeTypeOK,
                  SessionTypeOK, PcTypeOK
    <2> QED
      BY <1>2, <2>1, <2>2, <2>3 DEF DictationResult, WorkerFrame
  <1>3. ASSUME SessionDoneCloses PROVE ControllerInv' /\ SetOutputWriter(NoWriter)
    <2>1. stopPc' = stopPc
      BY <1>3 DEF SessionDoneCloses, SetOutputWriter
    <2>2. MicTypeOK' /\ AudioTypeOK'
      BY <1>3, TypesKept DEF SessionDoneCloses, WorkerFrame
    <2>3. ModeTypeOK' /\ SessionTypeOK' /\ PcTypeOK'
      BY <1>3 DEF SessionDoneCloses, WorkerFrame, ModeTypeOK, SessionTypeOK, PcTypeOK
    <2> QED
      BY <1>3, <2>1, <2>2, <2>3 DEF SessionDoneCloses, WorkerFrame
  <1>4. ASSUME SessionDoneFinalizes PROVE ControllerInv' /\ SessionDoneReturns
    <2>1. stopPc' = stopPc
      BY <1>4 DEF SessionDoneFinalizes, SessionDoneReturns
    <2>2. MicTypeOK' /\ AudioTypeOK'
      BY <1>4, TypesKept DEF SessionDoneFinalizes, WorkerFrame
    <2>3. ModeTypeOK' /\ SessionTypeOK' /\ PcTypeOK'
      BY <1>4 DEF SessionDoneFinalizes, WorkerFrame, Store, Modes, ModeTypeOK,
                  SessionTypeOK, PcTypeOK
    <2> QED
      BY <1>4, <2>1, <2>2, <2>3 DEF SessionDoneFinalizes, WorkerFrame
  <1> QED
    BY <1>1, <1>2, <1>3, <1>4 DEF WorkerHandler, WorkerNext, WorkerThread, AnyThread

\* Every step.
LEMMA ControllerStep ==
  ASSUME ControllerInv, [Next]_vars
  PROVE  ControllerInv' /\ [WorkerNext]_workerVars
  <1>1. CASE Next
    BY <1>1, HotkeyStep, MicStep, TapStep, SessionStep, QuitStep, WorkerHandlerStep
    DEF Next, Environment, MainHandler
  <1>2. CASE UNCHANGED vars
    <2>1. UNCHANGED <<modeVars, micVars, sessionVars, audioVars, pc, hand,
                      writerClosed>> /\ UNCHANGED workerVars
      BY <1>2 DEF vars, ownVars
    <2>2. stopPc' = stopPc /\ sessions' = sessions
      BY <2>1 DEF workerVars, sessionVars
    <2>3. OwnTypeOK'
      BY <2>1, TypesKept DEF ControllerInv, OwnTypeOK, PcTypeOK
    <2> QED
      BY <2>1, <2>2, <2>3 DEF ControllerInv
  <1> QED
    BY <1>1, <1>2

-----------------------------------------------------------------------------

\* The inductive invariant holds in every state.
THEOREM ControllerInvariant == SafetySpec => []ControllerInv
  <1>1. ControllerInv /\ [Next]_vars => ControllerInv'
    BY ControllerStep
  <1> QED
    BY <1>1, ControllerInitInv, PTL DEF SafetySpec

\* Every behaviour of the controller is a behaviour of the worker alone: the
\* controller's threads call enqueue(), the setters and stop() only as the
\* worker's specification lets its environment call them.
THEOREM ControllerUsesWorker == SafetySpec => WorkerSafetySpec
  <1>1. ControllerInv /\ [Next]_vars => [WorkerNext]_workerVars
    BY ControllerStep
  <1>2. Init => WorkerInit
    BY DEF Init
  <1> QED
    BY <1>1, <1>2, ControllerInvariant, PTL DEF SafetySpec, WorkerSafetySpec

\* The types, for any bounds, any number of sessions and presses.
THEOREM ControllerTyped == SafetySpec => []TypeOK
  <1>1. ControllerInv /\ WorkerTypeOK => TypeOK
    BY DEF ControllerInv, TypeOK
  <1> QED
    BY <1>1, ControllerInvariant, ControllerUsesWorker, WorkerTyped, PTL

\* In the controller, too, no chunk is lost: it is queued, in hand, or has one
\* outcome.
THEOREM ControllerAccounts == SafetySpec => []EveryChunkAccounted
  BY ControllerUsesWorker, EveryChunkAccountedAlways, PTL

\* In the controller, too, the session-done callback is taken only when all
\* that was queued is settled.
THEOREM ControllerDrains == SafetySpec => SessionDoneAfterDrain
  BY ControllerUsesWorker, SessionDoneAfterDrainAlways

-----------------------------------------------------------------------------
(***************************************************************************)
(* Modes: the stores of Idle that do not look at the mode hit the mode     *)
(* they are meant for, whether the microphone starts or not, whatever the  *)
(* menu shows.                                                             *)
(***************************************************************************)

\* Where hotkey and main own the mode, and where main is in stop().
HotkeyOwns   == {"unwant", "stopMic", "take", "short", "emit"}
MainStarts   == {"startMic", "micFailed"}
MainFinishes == {"stopMic", "flush", "emit", "arm"}
MainDisarmed == {"quitFlush", "quitEmit", "quitWorker", "quitWorkerJoin",
                 "quitClose", "quitReset", "stopped"}
MainQuits    == MainDisarmed \union {"quit", "quitJoin", "quitMic", "quitDisarm"}

\* The worker has a dictation, queued or in hand.
DictationWaits == \E c \in InFlight : c.dictation
SessionEnds    == armed \/ workerPc = "sessionDone"

\* Who holds what in which mode.
Ownership ==
  /\ DictationWaits => mode = "Transcribing"
  /\ \A c, d \in InFlight : c.dictation /\ d.dictation => c = d
  /\ pc.hotkey \in HotkeyOwns => mode = "Transcribing" /\ ~DictationWaits
  /\ pc.main \in MainStarts => mode = "Recording"
  /\ pc.main \in MainFinishes => mode = "Finalizing" /\ ~SessionEnds
  /\ SessionEnds => mode = "Finalizing"
  /\ ~(armed /\ workerPc = "sessionDone")

\* What stop() has done so far.
Shutdown ==
  /\ shuttingDown <=> pc.main \in MainQuits
  /\ shuttingDown => pc.hotkey = "idle"
  /\ stopFlag => shuttingDown
  /\ workerPc = "exited" => stopFlag /\ ~DictationWaits
  /\ pc.main \in MainDisarmed => ~armed
  /\ pc.main \in {"quitClose", "quitReset", "stopped"} => workerPc = "exited"

\* The inductive invariant.
ModesInv == Ownership /\ Shutdown

-----------------------------------------------------------------------------

\* Nothing has begun.
LEMMA ModesInitInv == Init => ModesInv
  BY DEF Init, WorkerInit, ModesInv, Ownership, Shutdown, DictationWaits, InFlight,
         SessionEnds, HotkeyOwns, MainStarts, MainFinishes, MainDisarmed, MainQuits

\* What At does to the positions that matter here.
LEMMA MainMoves ==
  ASSUME NEW from, NEW to, pc \in Pcs, At("main", from, to)
  PROVE  pc.main = from /\ pc'.main = to /\ pc'.hotkey = pc.hotkey
  BY DEF At, Pcs

\* The hotkey thread moves alone.
LEMMA HotkeyMoves ==
  ASSUME NEW from, NEW to, pc \in Pcs, At("hotkey", from, to)
  PROVE  pc.hotkey = from /\ pc'.hotkey = to /\ pc'.main = pc.main
  BY DEF At, Pcs

\* The other two threads' positions do not matter.
LEMMA OthersMove ==
  ASSUME NEW t \in {"mic", "tap"}, NEW from, NEW to, pc \in Pcs, At(t, from, to)
  PROVE  pc'.hotkey = pc.hotkey /\ pc'.main = pc.main
  BY DEF At, Pcs

\* cv.notify_one wakes the worker, and nothing else.
LEMMA NotifyWakes ==
  ASSUME Notify
  PROVE  \A p \in {"transcribe", "sessionDone", "exited"} :
           workerPc' = p <=> workerPc = p
  BY DEF Notify

\* A step that leaves queue and hand alone leaves the chunks under way alone.
LEMMA FlightKept ==
  ASSUME UNCHANGED <<queue, item>>,
         workerPc' = "transcribe" <=> workerPc = "transcribe"
  PROVE  InFlight' = InFlight /\ DictationWaits' = DictationWaits
  BY DEF InFlight, DictationWaits

\* A step that leaves the worker alone does so, too.
LEMMA WorkerKept ==
  ASSUME UNCHANGED workerVars
  PROVE  /\ InFlight' = InFlight /\ DictationWaits' = DictationWaits
         /\ SessionEnds' = SessionEnds
         /\ UNCHANGED <<armed, workerPc, stopFlag>>
  BY FlightKept DEF workerVars, SessionEnds

\* The owner of each mode.
OwnerInMode ==
  CASE mode = "Transcribing" ->
         IF DictationWaits THEN "worker"
         ELSE IF pc.hotkey \in HotkeyOwns THEN "hotkey" ELSE "nobody"
    [] mode = "Recording" ->
         IF pc.main \in MainStarts THEN "main" ELSE "nobody"
    [] mode = "Finalizing" ->
         IF SessionEnds THEN "worker"
         ELSE IF pc.main \in MainFinishes THEN "main" ELSE "nobody"
    [] OTHER -> "nobody"

\* It is the thread that ModeOwner reads off ...
LEMMA WhoOwns ==
  ASSUME Ownership, mode \in Modes
  PROVE  ModeOwner = OwnerInMode
  BY DEF Ownership, ModeOwner, OwnerInMode, DictationWaits, SessionEnds, Modes,
         HotkeyOwns, MainStarts, MainFinishes

\* ... before a step and after it.
LEMMA WhoOwnsNext ==
  ASSUME Ownership', mode' \in Modes
  PROVE  ModeOwner' = OwnerInMode'
  BY DEF Ownership, ModeOwner, OwnerInMode, DictationWaits, SessionEnds, Modes,
         HotkeyOwns, MainStarts, MainFinishes

ModesStep == ModesInv' /\ [Machine!ModeMachineNext]_(Machine!modeMachineVars)

\* A step that touches nothing of this.
LEMMA NothingMoves ==
  ASSUME ModesInv, InFlight' = InFlight, DictationWaits' = DictationWaits,
         UNCHANGED <<mode, shuttingDown, armed, workerPc, stopFlag>>,
         pc'.main = pc.main, pc'.hotkey = pc.hotkey
  PROVE  ModesStep
  <1>1. ModesInv'
    BY DEF ModesInv, Ownership, Shutdown, SessionEnds
  <1>2. ModeOwner' = ModeOwner
    BY DEF ModeOwner
  <1> QED
    BY <1>1, <1>2 DEF ModesStep, Machine!modeMachineVars

\* The mic-control thread gives a dictation up, and nothing else.
LEMMA MicModes ==
  ASSUME ControllerInv, ControllerInv', ModesInv, MicThread
  PROVE  ModesStep
  <1>1. UNCHANGED workerVars
    BY DEF MicThread, MicWakes, MicChecks, MicStarts, MicStartFailed, MicCancels,
           MicVerifies, MicUndoes, MicFrame
  <1>2. pc'.main = pc.main /\ pc'.hotkey = pc.hotkey
    BY OthersMove DEF MicThread, MicWakes, MicChecks, MicStarts, MicStartFailed,
       MicCancels, MicVerifies, MicUndoes, ControllerInv, OwnTypeOK, PcTypeOK
  <1>3. shuttingDown' = shuttingDown
    BY DEF MicThread, MicWakes, MicChecks, MicStarts, MicStartFailed, MicCancels,
           MicVerifies, MicUndoes, StartMic, StopMic, micVars
  <1>4. mode \in Modes /\ mode' \in Modes
    BY DEF ControllerInv, OwnTypeOK, ModeTypeOK
  <1>5. \/ mode' = mode
        \/ mode = "Dictating" /\ mode' = "Idle"
    BY <1>4 DEF MicThread, MicWakes, MicChecks, MicStarts, MicStartFailed, MicCancels,
           MicVerifies, MicUndoes
  <1>6. CASE mode' = mode
    BY <1>1, <1>2, <1>3, <1>6, WorkerKept, NothingMoves
  <1>7. CASE mode = "Dictating" /\ mode' = "Idle"
    <2>1. ModesInv'
      BY <1>1, <1>2, <1>3, <1>7, WorkerKept DEF ModesInv, Ownership, Shutdown
    <2>2. ModeOwner' = "nobody"
      BY <2>1, <1>4, <1>7, WhoOwnsNext DEF OwnerInMode, ModesInv
    <2>3. Machine!CancelDictation
      BY <2>2, <1>3, <1>7 DEF Machine!CancelDictation, Machine!Move
    <2> QED
      BY <2>1, <2>3 DEF ModesStep, Machine!ModeMachineNext
  <1> QED
    BY <1>5, <1>6, <1>7

-----------------------------------------------------------------------------

\* enqueue() puts a chunk under way; a chunk may fall out of the queue.
LEMMA EnqueueFlight ==
  ASSUME WorkerInv, NEW dictation \in BOOLEAN, NEW audio \in Audio,
         Enqueue(dictation, audio)
  PROVE  /\ \E new \in InFlight' : /\ new.dictation = dictation /\ new.audio = audio
                                  /\ InFlight' \subseteq InFlight \union {new}
         /\ UNCHANGED <<armed, stopFlag>>
         /\ \A p \in {"transcribe", "sessionDone", "exited"} :
              workerPc' = p <=> workerPc = p
  <1> USE WorkerAssumption
  <1> DEFINE new == [id |-> enqueued + 1, dictation |-> dictation, audio |-> audio]
             kept == IF Full THEN Tail(queue) ELSE queue
  <1>1. /\ queue \in Seq(Item) /\ Len(queue) \in Nat /\ enqueued \in Nat
        /\ enqueued + 1 \in Chunk
    BY LenProperties DEF WorkerInv, WorkerTypeOK, Enqueue, Chunk
  <1>2. new \in Item /\ new.dictation = dictation /\ new.audio = audio
    BY <1>1 DEF Item
  <1>3. Full => queue # <<>>
    BY <1>1, EmptySeq DEF Full
  <1>4. /\ kept \in Seq(Item) /\ Len(kept) \in Nat
        /\ \A k \in 1..Len(kept) : \E j \in 1..Len(queue) : kept[k] = queue[j]
    <2>1. CASE Full
      <3>1. /\ kept = Tail(queue) /\ kept \in Seq(Item)
            /\ Len(kept) = Len(queue) - 1 /\ Len(queue) \in Nat \ {0}
            /\ \A k \in 1..Len(kept) : kept[k] = queue[k + 1]
        BY <1>1, <1>3, <2>1, TailShifts
      <3> HIDE DEF kept
      <3>2. \A k \in 1..Len(kept) : k + 1 \in 1..Len(queue)
        BY <3>1
      <3> QED
        BY <3>1, <3>2
    <2>2. CASE ~Full
      BY <1>1, <2>2
    <2> QED
      BY <2>1, <2>2
  <1>5. queue' = Append(kept, new) /\ item' = item /\ Notify
        /\ UNCHANGED <<armed, stopFlag>>
    BY DEF Enqueue
  <1> HIDE DEF kept, new
  <1>6. /\ Len(queue') = Len(kept) + 1
        /\ \A k \in 1..Len(kept) : queue'[k] = kept[k]
        /\ queue'[Len(kept) + 1] = new
    BY <1>2, <1>4, <1>5, AppendAdds
  <1>7. \A p \in {"transcribe", "sessionDone", "exited"} : workerPc' = p <=> workerPc = p
    BY <1>5, NotifyWakes
  <1>8. new \in {queue'[k] : k \in 1..Len(queue')}
    BY <1>4, <1>6
  <1>9. {queue'[k] : k \in 1..Len(queue')}
          \subseteq {queue[k] : k \in 1..Len(queue)} \union {new}
    <2> SUFFICES ASSUME NEW k \in 1..Len(queue')
                 PROVE  queue'[k] \in {queue[j] : j \in 1..Len(queue)} \union {new}
      OBVIOUS
    <2>1. k \in 1..Len(kept) \/ k = Len(kept) + 1
      BY <1>4, <1>6
    <2> QED
      BY <2>1, <1>4, <1>6
  <1>10. new \in InFlight' /\ InFlight' \subseteq InFlight \union {new}
    BY <1>5, <1>7, <1>8, <1>9 DEF InFlight
  <1> QED
    BY <1>2, <1>5, <1>7, <1>10

\* The worker takes a chunk: it is under way as before.
LEMMA PopFlight ==
  ASSUME WorkerInv, Pop
  PROVE  InFlight' = InFlight /\ DictationWaits' = DictationWaits
  <1>1. queue \in Seq(Item) /\ queue # <<>> /\ queue' = Tail(queue)
        /\ workerPc = "check" /\ workerPc' = "transcribe" /\ item' = Head(queue)
    BY DEF Pop, GoTo, WorkerInv, WorkerTypeOK
  <1>2. /\ item' = queue[1] /\ Len(queue) \in Nat \ {0}
        /\ Len(queue') = Len(queue) - 1
        /\ \A k \in 1..Len(queue') : queue'[k] = queue[k + 1]
    BY <1>1, TailShifts
  <1>3. {queue[k] : k \in 1..Len(queue)}
          = {queue'[k] : k \in 1..Len(queue')} \union {item'}
    <2>1. ASSUME NEW k \in 1..Len(queue)
          PROVE  queue[k] \in {queue'[j] : j \in 1..Len(queue')} \union {item'}
      <3>1. CASE k = 1
        BY <3>1, <1>2
      <3>2. CASE k # 1
        <4>1. k - 1 \in 1..Len(queue') /\ (k - 1) + 1 = k
          BY <3>2, <1>2
        <4>2. queue'[k - 1] = queue[k]
          BY <4>1, <1>2
        <4> QED
          BY <4>1, <4>2
      <3> QED
        BY <3>1, <3>2
    <2>2. ASSUME NEW k \in 1..Len(queue')
          PROVE  queue'[k] \in {queue[j] : j \in 1..Len(queue)}
      <3>1. k + 1 \in 1..Len(queue)
        BY <1>2
      <3> QED
        BY <3>1, <1>2
    <2>3. item' \in {queue[j] : j \in 1..Len(queue)}
      BY <1>2
    <2> QED
      BY <2>1, <2>2, <2>3
  <1>4. InFlight' = InFlight
    BY <1>1, <1>3 DEF InFlight
  <1> QED
    BY <1>4 DEF DictationWaits

\* The worker is through with the chunk in its hand: that one is no longer under
\* way, and the others are.
LEMMA FinishFlight ==
  ASSUME WorkerInv, workerPc = "transcribe", workerPc' # "transcribe",
         UNCHANGED queue
  PROVE  item \in InFlight /\ InFlight' = InFlight \ {item}
  <1> USE WorkerAssumption
  <1>1. /\ item \in Item /\ LeftQueue(item.id) /\ QueueHoldsNewest
        /\ enqueued \in Nat /\ Len(queue) \in Nat
    BY LenProperties DEF WorkerInv, WorkerTypeOK, InHand
  <1>2. ASSUME NEW k \in 1..Len(queue) PROVE queue[k] # item
    BY <1>1 DEF QueueHoldsNewest, LeftQueue, Item, Chunk
  <1> QED
    BY <1>1, <1>2 DEF InFlight

-----------------------------------------------------------------------------

\* A move of the mode, or of its owner, that the mode machine allows.
LEMMA OwnersAre ==
  ASSUME ControllerInv, ControllerInv', ModesInv, ModesInv'
  PROVE  /\ mode \in Modes /\ mode' \in Modes
         /\ ModeOwner = OwnerInMode /\ ModeOwner' = OwnerInMode'
  BY WhoOwns, WhoOwnsNext DEF ControllerInv, OwnTypeOK, ModeTypeOK, ModesInv

\* A step after which everything has the owner it had.
LEMMA SameOwner ==
  ASSUME ControllerInv, ControllerInv', ModesInv, ModesInv',
         UNCHANGED <<mode, shuttingDown>>, OwnerInMode' = OwnerInMode
  PROVE  ModesStep
  BY OwnersAre DEF ModesStep, Machine!modeMachineVars

\* The hotkey thread takes the mode, gives it up, or hands it to the worker.
LEMMA HotkeyModes ==
  ASSUME ControllerInv, ControllerInv', WorkerInv, ModesInv,
         HotkeyDown \/ HotkeyUp \/ HotkeyHandler
  PROVE  ModesStep
  <1> USE DEF ModesInv, Ownership, Shutdown, HotkeyOwns
  <1>0. pc \in Pcs
    BY DEF ControllerInv, OwnTypeOK, PcTypeOK
  <1>1. CASE HotkeyDown
    <2>1. pc.hotkey = "idle" /\ pc'.hotkey = "want" /\ pc'.main = pc.main
      BY <1>0, <1>1, HotkeyMoves DEF HotkeyDown
    <2>2. /\ DictationWaits' = DictationWaits /\ SessionEnds' = SessionEnds
          /\ InFlight' = InFlight /\ UNCHANGED <<armed, workerPc, stopFlag>>
      BY <1>1, WorkerKept DEF HotkeyDown
    <2>3. /\ mode = "Idle" /\ mode' = "Dictating" /\ ~shuttingDown
          /\ shuttingDown' = shuttingDown
      BY <1>1 DEF HotkeyDown, CAS, micVars
    <2>4. ModesInv'
      BY <2>1, <2>2, <2>3
    <2>5. ModeOwner' = "nobody"
      BY <2>3, <2>4, OwnersAre DEF OwnerInMode
    <2> QED
      BY <2>3, <2>4, <2>5
      DEF ModesStep, Machine!ModeMachineNext, Machine!TryDictate, Machine!Move
  <1>2. CASE HotkeyUp
    <2>1. pc.hotkey = "idle" /\ pc'.hotkey = "unwant" /\ pc'.main = pc.main
      BY <1>0, <1>2, HotkeyMoves DEF HotkeyUp
    <2>2. /\ DictationWaits' = DictationWaits /\ SessionEnds' = SessionEnds
          /\ InFlight' = InFlight /\ UNCHANGED <<armed, workerPc, stopFlag>>
      BY <1>2, WorkerKept DEF HotkeyUp
    <2>3. /\ mode = "Dictating" /\ mode' = "Transcribing" /\ ~shuttingDown
          /\ shuttingDown' = shuttingDown
      BY <1>2 DEF HotkeyUp, CAS, micVars
    <2>4. ModesInv'
      BY <2>1, <2>2, <2>3
    <2>5. ModeOwner' = "hotkey"
      BY <2>1, <2>2, <2>3, <2>4, OwnersAre DEF OwnerInMode
    <2> QED
      BY <2>3, <2>4, <2>5
      DEF ModesStep, Machine!ModeMachineNext, Machine!FinishDictation, Machine!Move
  <1>3. CASE HotkeyWantsMic \/ HotkeyRequestsMic
    <2>1. /\ pc.hotkey \in {"want", "request"} /\ pc'.hotkey \in {"request", "idle"}
          /\ pc'.main = pc.main
      BY <1>0, <1>3, HotkeyMoves DEF HotkeyWantsMic, HotkeyRequestsMic
    <2>2. /\ DictationWaits' = DictationWaits /\ SessionEnds' = SessionEnds
          /\ InFlight' = InFlight /\ UNCHANGED <<armed, workerPc, stopFlag>>
      BY <1>3, WorkerKept DEF HotkeyWantsMic, HotkeyRequestsMic
    <2>3. UNCHANGED <<mode, shuttingDown>>
      BY <1>3 DEF HotkeyWantsMic, HotkeyRequestsMic, modeVars
    <2>4. ModesInv'
      BY <2>1, <2>2, <2>3
    <2>5. OwnerInMode' = OwnerInMode
      BY <2>1, <2>2, <2>3 DEF OwnerInMode
    <2> QED
      BY <2>3, <2>4, <2>5, SameOwner
  <1>4. CASE HotkeyUnwantsMic \/ HotkeyStopsMic \/ HotkeyTakesAudio
    <2>1. /\ pc.hotkey \in HotkeyOwns /\ pc'.hotkey \in HotkeyOwns
          /\ pc'.main = pc.main
      BY <1>0, <1>4, HotkeyMoves DEF HotkeyUnwantsMic, HotkeyStopsMic, HotkeyTakesAudio
    <2>2. /\ DictationWaits' = DictationWaits /\ SessionEnds' = SessionEnds
          /\ InFlight' = InFlight /\ UNCHANGED <<armed, workerPc, stopFlag>>
      BY <1>4, WorkerKept DEF HotkeyUnwantsMic, HotkeyStopsMic, HotkeyTakesAudio
    <2>3. UNCHANGED <<mode, shuttingDown>>
      BY <1>4
      DEF HotkeyUnwantsMic, HotkeyStopsMic, HotkeyTakesAudio, modeVars, micVars, StopMic
    <2>4. ModesInv'
      BY <2>1, <2>2, <2>3
    <2>5. OwnerInMode' = OwnerInMode
      BY <2>1, <2>2, <2>3 DEF OwnerInMode
    <2> QED
      BY <2>3, <2>4, <2>5, SameOwner
  <1>5. CASE HotkeyDiscards
    <2>1. pc.hotkey = "short" /\ pc'.hotkey = "idle" /\ pc'.main = pc.main
      BY <1>0, <1>5, HotkeyMoves DEF HotkeyDiscards
    <2>2. /\ DictationWaits' = DictationWaits /\ SessionEnds' = SessionEnds
          /\ InFlight' = InFlight /\ UNCHANGED <<armed, workerPc, stopFlag>>
      BY <1>5, WorkerKept DEF HotkeyDiscards
    <2>3. /\ mode = "Transcribing" /\ ~DictationWaits /\ mode' = "Idle"
          /\ shuttingDown' = shuttingDown
      BY <1>5, <2>1 DEF HotkeyDiscards, Store, micVars
    <2>4. ModesInv'
      BY <2>1, <2>2, <2>3 DEF MainStarts, MainFinishes
    <2>5. ModeOwner = "hotkey" /\ ModeOwner' = "nobody"
      BY <2>1, <2>3, <2>4, OwnersAre DEF OwnerInMode
    <2> QED
      BY <2>3, <2>4, <2>5
      DEF ModesStep, Machine!ModeMachineNext, Machine!DiscardDictation, Machine!Move
  <1>6. CASE HotkeyEnqueues
    <2>1. pc.hotkey = "emit" /\ pc'.hotkey = "idle" /\ pc'.main = pc.main
      BY <1>0, <1>6, HotkeyMoves DEF HotkeyEnqueues
    <2>2. hand.hotkey \in Audio /\ Enqueue(TRUE, hand.hotkey)
      BY <1>6 DEF HotkeyEnqueues, ControllerInv, OwnTypeOK, PcTypeOK, Hands
    <2>3. PICK new \in InFlight' : /\ new.dictation = TRUE
                                   /\ InFlight' \subseteq InFlight \union {new}
      BY <2>2, EnqueueFlight
    <2>4. /\ UNCHANGED <<armed, stopFlag>>
          /\ workerPc' = "sessionDone" <=> workerPc = "sessionDone"
          /\ workerPc' = "exited" <=> workerPc = "exited"
      BY <2>2, EnqueueFlight
    <2>5. /\ mode = "Transcribing" /\ ~DictationWaits
          /\ UNCHANGED <<mode, shuttingDown>>
      BY <1>6, <2>1 DEF HotkeyEnqueues, modeVars, micVars
    <2>6. DictationWaits'
      BY <2>3 DEF DictationWaits
    <2>7. \A c, d \in InFlight' : c.dictation /\ d.dictation => c = d
      BY <2>3, <2>5 DEF DictationWaits
    <2>8. SessionEnds' = SessionEnds
      BY <2>4 DEF SessionEnds
    <2>9. ~shuttingDown
      BY <2>1
    <2>10. ModesInv'
      BY <2>1, <2>4, <2>5, <2>6, <2>7, <2>8, <2>9
    <2>11. ModeOwner = "hotkey" /\ ModeOwner' = "worker"
      BY <2>1, <2>5, <2>6, <2>10, OwnersAre DEF OwnerInMode
    <2> QED
      BY <2>5, <2>10, <2>11
      DEF ModesStep, Machine!ModeMachineNext, Machine!QueueDictation, Machine!Move
  <1> QED
    BY <1>1, <1>2, <1>3, <1>4, <1>5, <1>6 DEF HotkeyHandler

\* A session's chunk is enqueued: it may cost a waiting dictation its place, and
\* then nobody ends the mode.
LEMMA EnqueueModes ==
  ASSUME ControllerInv, ControllerInv', WorkerInv, ModesInv,
         NEW audio \in Audio, Enqueue(FALSE, audio),
         UNCHANGED <<mode, shuttingDown>>, pc'.hotkey = pc.hotkey,
         \/ pc'.main = pc.main
         \/ pc.main = "emit" /\ pc'.main = "arm"
         \/ pc.main = "quitEmit" /\ pc'.main = "quitWorker"
  PROVE  ModesStep
  <1> USE DEF ModesInv, Ownership, Shutdown
  <1>1. PICK new \in InFlight' : /\ new.dictation = FALSE
                                 /\ InFlight' \subseteq InFlight \union {new}
    BY EnqueueFlight
  <1>2. /\ UNCHANGED <<armed, stopFlag>>
        /\ workerPc' = "sessionDone" <=> workerPc = "sessionDone"
        /\ workerPc' = "exited" <=> workerPc = "exited"
    BY EnqueueFlight
  <1>3. /\ DictationWaits' => DictationWaits
        /\ \A c, d \in InFlight' : c.dictation /\ d.dictation => c = d
    BY <1>1 DEF DictationWaits
  <1>4. SessionEnds' = SessionEnds
    BY <1>2 DEF SessionEnds
  <1>5. ModesInv'
    BY <1>2, <1>3, <1>4 DEF MainStarts, MainFinishes, MainDisarmed, MainQuits
  <1>6. CASE OwnerInMode' = OwnerInMode
    BY <1>5, <1>6, SameOwner
  <1>7. CASE OwnerInMode' # OwnerInMode
    <2>1. (pc'.main \in MainStarts <=> pc.main \in MainStarts)
          /\ (pc'.main \in MainFinishes <=> pc.main \in MainFinishes)
      BY DEF MainStarts, MainFinishes
    <2>2. mode = "Transcribing" /\ DictationWaits /\ ~DictationWaits'
      BY <1>3, <1>4, <1>7, <2>1 DEF OwnerInMode
    <2>3. ModeOwner = "worker" /\ ModeOwner' = "nobody"
      BY <1>5, <2>2, OwnersAre DEF OwnerInMode
    <2> QED
      BY <1>5, <2>2, <2>3
      DEF ModesStep, Machine!ModeMachineNext, Machine!LoseDictation, Machine!Move
  <1> QED
    BY <1>6, <1>7

\* The tap touches the mode only through the queue.
LEMMA TapModes ==
  ASSUME ControllerInv, ControllerInv', WorkerInv, ModesInv, TapBlock \/ TapHandler
  PROVE  ModesStep
  <1>0. pc \in Pcs
    BY DEF ControllerInv, OwnTypeOK, PcTypeOK
  <1>1. CASE \/ TapBlock \/ TapDiscards \/ TapFlushes
             \/ \E long \in BOOLEAN : TapDictates(long) \/ TapBuffers(long)
    <2>1. UNCHANGED workerVars /\ UNCHANGED <<mode, shuttingDown>>
      BY <1>1 DEF TapBlock, TapDiscards, TapFlushes, TapDictates, TapBuffers, TapFrame,
                  modeVars, micVars
    <2>2. pc'.hotkey = pc.hotkey /\ pc'.main = pc.main
      BY <1>0, <1>1, OthersMove
      DEF TapBlock, TapDiscards, TapFlushes, TapDictates, TapBuffers
    <2> QED
      BY <2>1, <2>2, WorkerKept, NothingMoves
  <1>2. CASE TapEnqueues
    <2>1. hand.tap \in Audio /\ Enqueue(FALSE, hand.tap)
      BY <1>2 DEF TapEnqueues, ControllerInv, OwnTypeOK, PcTypeOK, Hands
    <2>2. UNCHANGED <<mode, shuttingDown>>
      BY <1>2 DEF TapEnqueues, modeVars, micVars
    <2>3. pc'.hotkey = pc.hotkey /\ pc'.main = pc.main
      BY <1>0, <1>2, OthersMove DEF TapEnqueues
    <2> QED
      BY <2>1, <2>2, <2>3, EnqueueModes
  <1> QED
    BY <1>1, <1>2 DEF TapHandler

\* main starts a session, ends it, and hands it to the worker.
LEMMA SessionModes ==
  ASSUME ControllerInv, ControllerInv', WorkerInv, ModesInv,
         StartSession \/ StopSession \/ SessionHandler
  PROVE  ModesStep
  <1> USE DEF ModesInv, Ownership, Shutdown
  <1> USE DEF MainStarts, MainFinishes, MainDisarmed, MainQuits
  <1>0. pc \in Pcs
    BY DEF ControllerInv, OwnTypeOK, PcTypeOK
  <1>1. CASE StartSession
    <2>1. /\ pc.main = "idle" /\ pc'.main = "attach"
          /\ pc'.hotkey = pc.hotkey
      BY <1>0, <1>1, MainMoves DEF StartSession
    <2>2. /\ DictationWaits' = DictationWaits /\ SessionEnds' = SessionEnds
          /\ InFlight' = InFlight /\ UNCHANGED <<armed, workerPc, stopFlag>>
      BY <1>1, WorkerKept DEF StartSession
    <2>3. UNCHANGED <<mode, shuttingDown>>
      BY <1>1 DEF StartSession, modeVars, micVars
    <2>4. ModesInv'
      BY <2>1, <2>2, <2>3
    <2>5. OwnerInMode' = OwnerInMode
      BY <2>1, <2>2, <2>3 DEF OwnerInMode
    <2> QED
      BY <2>3, <2>4, <2>5, SameOwner
  <1>2. CASE AttachWriter \/ DetachWriter
    <2>1. /\ pc.main \in {"attach", "detach"} /\ pc'.main \in {"tryRecord", "idle"}
          /\ pc'.hotkey = pc.hotkey
      BY <1>0, <1>2, MainMoves DEF AttachWriter, DetachWriter
    <2>2. UNCHANGED <<queue, item, armed, workerPc, stopFlag, mode, shuttingDown>>
      BY <1>2 DEF AttachWriter, DetachWriter, SetOutputWriter, modeVars, micVars
    <2>3. /\ DictationWaits' = DictationWaits /\ SessionEnds' = SessionEnds
          /\ InFlight' = InFlight
      BY <2>2, FlightKept DEF SessionEnds
    <2>4. ModesInv'
      BY <2>1, <2>2, <2>3
    <2>5. OwnerInMode' = OwnerInMode
      BY <2>1, <2>2, <2>3 DEF OwnerInMode
    <2> QED
      BY <2>2, <2>4, <2>5, SameOwner
  <1>3. CASE TryRecord
    <2>1. /\ DictationWaits' = DictationWaits /\ SessionEnds' = SessionEnds
          /\ InFlight' = InFlight /\ UNCHANGED <<armed, workerPc, stopFlag>>
      BY <1>3, WorkerKept DEF TryRecord
    <2>2. shuttingDown' = shuttingDown
      BY <1>3 DEF TryRecord, micVars
    <2>3. CASE mode = "Idle" /\ mode' = "Recording" /\ At("main", "tryRecord", "startMic")
      <3>1. pc.main = "tryRecord" /\ pc'.main = "startMic" /\ pc'.hotkey = pc.hotkey
        BY <1>0, <2>3, MainMoves
      <3>2. ModesInv'
        BY <2>1, <2>2, <2>3, <3>1
      <3>3. ModeOwner' = "main"
        BY <2>3, <3>1, <3>2, OwnersAre DEF OwnerInMode
      <3> QED
        BY <2>2, <2>3, <3>2, <3>3
        DEF ModesStep, Machine!ModeMachineNext, Machine!TryRecord, Machine!Move
    <2>4. CASE mode' = mode /\ At("main", "tryRecord", "detach")
      <3>1. pc.main = "tryRecord" /\ pc'.main = "detach" /\ pc'.hotkey = pc.hotkey
        BY <1>0, <2>4, MainMoves
      <3>2. ModesInv'
        BY <2>1, <2>2, <2>4, <3>1
      <3>3. OwnerInMode' = OwnerInMode
        BY <2>1, <2>2, <2>4, <3>1 DEF OwnerInMode
      <3> QED
        BY <2>2, <2>4, <3>2, <3>3, SameOwner
    <2> QED
      BY <1>3, <2>3, <2>4 DEF TryRecord, CAS, modeVars
  <1>4. ASSUME NEW ok \in BOOLEAN, SessionStartsMic(ok) PROVE ModesStep
    <2>1. /\ pc.main = "startMic" /\ pc'.main = (IF ok THEN "idle" ELSE "micFailed")
          /\ pc'.hotkey = pc.hotkey
      BY <1>0, <1>4, MainMoves DEF SessionStartsMic
    <2>2. /\ DictationWaits' = DictationWaits /\ SessionEnds' = SessionEnds
          /\ InFlight' = InFlight /\ UNCHANGED <<armed, workerPc, stopFlag>>
      BY <1>4, WorkerKept DEF SessionStartsMic
    <2>3. UNCHANGED <<mode, shuttingDown>>
      BY <1>4 DEF SessionStartsMic, StartMic, modeVars
    <2>4. mode = "Recording"
      BY <2>1
    <2>5. ModesInv'
      BY <2>1, <2>2, <2>3, <2>4
    <2>6. ModeOwner = "main" /\ ModeOwner' = (IF ok THEN "nobody" ELSE "main")
      BY <2>1, <2>3, <2>4, <2>5, OwnersAre DEF OwnerInMode
    <2>7. CASE ok
      BY <2>3, <2>4, <2>5, <2>6, <2>7
      DEF ModesStep, Machine!ModeMachineNext, Machine!RecordingStarts, Machine!Move
    <2>8. CASE ~ok
      BY <2>3, <2>5, <2>6, <2>8 DEF ModesStep, Machine!modeMachineVars
    <2> QED
      BY <2>7, <2>8
  <1>5. CASE SessionMicFailed
    <2>1. pc.main = "micFailed" /\ pc'.main = "detach" /\ pc'.hotkey = pc.hotkey
      BY <1>0, <1>5, MainMoves DEF SessionMicFailed
    <2>2. /\ DictationWaits' = DictationWaits /\ SessionEnds' = SessionEnds
          /\ InFlight' = InFlight /\ UNCHANGED <<armed, workerPc, stopFlag>>
      BY <1>5, WorkerKept DEF SessionMicFailed
    <2>3. mode = "Recording" /\ mode' = "Idle" /\ shuttingDown' = shuttingDown
      BY <1>5, <2>1 DEF SessionMicFailed, Store, micVars
    <2>4. ModesInv'
      BY <2>1, <2>2, <2>3
    <2>5. ModeOwner = "main" /\ ModeOwner' = "nobody"
      BY <2>1, <2>3, <2>4, OwnersAre DEF OwnerInMode
    <2> QED
      BY <2>3, <2>4, <2>5
      DEF ModesStep, Machine!ModeMachineNext, Machine!RecordingFails, Machine!Move
  <1>6. CASE StopSession
    <2>1. pc.main = "idle" /\ pc'.main = "stopMic" /\ pc'.hotkey = pc.hotkey
      BY <1>0, <1>6, MainMoves DEF StopSession
    <2>2. /\ DictationWaits' = DictationWaits /\ SessionEnds' = SessionEnds
          /\ InFlight' = InFlight /\ UNCHANGED <<armed, workerPc, stopFlag>>
      BY <1>6, WorkerKept DEF StopSession
    <2>3. mode = "Recording" /\ mode' = "Finalizing" /\ shuttingDown' = shuttingDown
      BY <1>6 DEF StopSession, CAS, micVars
    <2>4. ModesInv'
      BY <2>1, <2>2, <2>3
    <2>5. ModeOwner = "nobody" /\ ModeOwner' = "main"
      BY <2>1, <2>2, <2>3, <2>4, OwnersAre DEF OwnerInMode
    <2> QED
      BY <2>3, <2>4, <2>5
      DEF ModesStep, Machine!ModeMachineNext, Machine!StopRecord, Machine!Move
  <1>7. CASE SessionStopsMic \/ SessionFlushesTail
    <2>1. /\ pc.main \in {"stopMic", "flush"} /\ pc'.main \in {"flush", "emit", "arm"}
          /\ pc'.hotkey = pc.hotkey
      BY <1>0, <1>7, MainMoves DEF SessionStopsMic, SessionFlushesTail, ForceFlush
    <2>2. /\ DictationWaits' = DictationWaits /\ SessionEnds' = SessionEnds
          /\ InFlight' = InFlight /\ UNCHANGED <<armed, workerPc, stopFlag>>
      BY <1>7, WorkerKept DEF SessionStopsMic, SessionFlushesTail
    <2>3. UNCHANGED <<mode, shuttingDown>>
      BY <1>7 DEF SessionStopsMic, SessionFlushesTail, StopMic, modeVars, micVars
    <2>4. ModesInv'
      BY <2>1, <2>2, <2>3
    <2>5. OwnerInMode' = OwnerInMode
      BY <2>1, <2>2, <2>3 DEF OwnerInMode
    <2> QED
      BY <2>3, <2>4, <2>5, SameOwner
  <1>8. CASE SessionEnqueuesTail
    <2>1. pc.main = "emit" /\ pc'.main = "arm" /\ pc'.hotkey = pc.hotkey
      BY <1>0, <1>8, MainMoves DEF SessionEnqueuesTail
    <2>2. hand.main \in Audio /\ Enqueue(FALSE, hand.main)
      BY <1>8 DEF SessionEnqueuesTail, ControllerInv, OwnTypeOK, PcTypeOK, Hands
    <2>3. UNCHANGED <<mode, shuttingDown>>
      BY <1>8 DEF SessionEnqueuesTail, modeVars, micVars
    <2> QED
      BY <2>1, <2>2, <2>3, EnqueueModes
  <1>9. CASE SessionArms
    <2>1. pc.main = "arm" /\ pc'.main = "idle" /\ pc'.hotkey = pc.hotkey
      BY <1>0, <1>9, MainMoves DEF SessionArms
    <2>2. /\ armed' = TRUE /\ Notify
          /\ UNCHANGED <<queue, item, stopFlag, mode, shuttingDown>>
      BY <1>9 DEF SessionArms, SetOnSessionDone, modeVars, micVars
    <2>3. /\ DictationWaits' = DictationWaits /\ InFlight' = InFlight
          /\ workerPc' = "sessionDone" <=> workerPc = "sessionDone"
          /\ workerPc' = "exited" <=> workerPc = "exited"
      BY <2>2, NotifyWakes, FlightKept
    <2>4. mode = "Finalizing" /\ ~SessionEnds /\ SessionEnds'
      BY <2>1, <2>2 DEF SessionEnds
    <2>5. workerPc # "sessionDone" /\ ~shuttingDown
      BY <2>1, <2>4 DEF SessionEnds
    <2>6. ModesInv'
      BY <2>1, <2>2, <2>3, <2>4, <2>5
    <2>7. ModeOwner = "main" /\ ModeOwner' = "worker"
      BY <2>1, <2>2, <2>4, <2>6, OwnersAre DEF OwnerInMode
    <2> QED
      BY <2>2, <2>4, <2>6, <2>7
      DEF ModesStep, Machine!ModeMachineNext, Machine!ArmDone, Machine!Move
  <1> QED
    BY <1>1, <1>2, <1>3, <1>4, <1>5, <1>6, <1>7, <1>8, <1>9 DEF SessionHandler

\* main in stop(): whatever mode it finds, nobody else has it when it is reset.
LEMMA QuitModes ==
  ASSUME ControllerInv, ControllerInv', WorkerInv, ModesInv, Quit \/ QuitHandler
  PROVE  ModesStep
  <1> USE DEF ModesInv, Ownership, Shutdown
  <1> USE DEF MainStarts, MainFinishes, MainDisarmed, MainQuits
  <1>0. pc \in Pcs
    BY DEF ControllerInv, OwnTypeOK, PcTypeOK
  <1>1. CASE Quit
    <2>1. pc.main = "idle" /\ pc'.main = "quit" /\ pc.hotkey = "idle"
          /\ pc'.hotkey = "idle"
      BY <1>0, <1>1, MainMoves DEF Quit
    <2>2. /\ DictationWaits' = DictationWaits /\ SessionEnds' = SessionEnds
          /\ InFlight' = InFlight /\ UNCHANGED <<armed, workerPc, stopFlag>>
      BY <1>1, WorkerKept DEF Quit
    <2>3. mode' = mode /\ shuttingDown' = TRUE /\ ~shuttingDown
      BY <1>1, <2>1 DEF Quit, modeVars, ControllerInv, OwnTypeOK, MicTypeOK
    <2>4. ModesInv'
      BY <2>1, <2>2, <2>3 DEF HotkeyOwns
    <2>5. OwnerInMode' = OwnerInMode
      BY <2>1, <2>2, <2>3 DEF OwnerInMode
    <2>6. ModeOwner' = ModeOwner
      BY <2>4, <2>5, OwnersAre
    <2> QED
      BY <2>3, <2>4, <2>6 DEF ModesStep, Machine!ModeMachineNext, Machine!Stop
  <1>2. CASE QuitStopsMicThread \/ QuitJoinsMicThread \/ QuitStopsMic
    <2>1. /\ pc.main \in {"quit", "quitJoin", "quitMic"}
          /\ pc'.main \in {"quitJoin", "quitMic", "quitDisarm"}
          /\ pc'.hotkey = pc.hotkey
      BY <1>0, <1>2, MainMoves DEF QuitStopsMicThread, QuitJoinsMicThread, QuitStopsMic
    <2>2. /\ DictationWaits' = DictationWaits /\ SessionEnds' = SessionEnds
          /\ InFlight' = InFlight /\ UNCHANGED <<armed, workerPc, stopFlag>>
      BY <1>2, WorkerKept DEF QuitStopsMicThread, QuitJoinsMicThread, QuitStopsMic
    <2>3. UNCHANGED <<mode, shuttingDown>>
      BY <1>2 DEF QuitStopsMicThread, QuitJoinsMicThread, QuitStopsMic, StopMic,
                  modeVars, micVars
    <2>4. ModesInv'
      BY <2>1, <2>2, <2>3
    <2>5. OwnerInMode' = OwnerInMode
      BY <2>1, <2>2, <2>3 DEF OwnerInMode
    <2> QED
      BY <2>3, <2>4, <2>5, SameOwner
  <1>3. CASE QuitDisarms
    <2>1. pc.main = "quitDisarm" /\ pc'.main \in {"quitFlush", "quitWorker"}
          /\ pc'.hotkey = pc.hotkey
      BY <1>0, <1>3, MainMoves DEF QuitDisarms
    <2>2. /\ armed' = FALSE /\ Notify
          /\ UNCHANGED <<queue, item, stopFlag, mode, shuttingDown>>
      BY <1>3 DEF QuitDisarms, SetOnSessionDone, modeVars, micVars
    <2>3. /\ DictationWaits' = DictationWaits /\ InFlight' = InFlight
          /\ workerPc' = "sessionDone" <=> workerPc = "sessionDone"
          /\ workerPc' = "exited" <=> workerPc = "exited"
      BY <2>2, NotifyWakes, FlightKept
    <2>4. shuttingDown /\ (SessionEnds' <=> workerPc = "sessionDone")
      BY <2>1, <2>2, <2>3 DEF SessionEnds
    <2>5. ModesInv'
      BY <2>1, <2>2, <2>3, <2>4 DEF SessionEnds
    <2>6. CASE armed
      <3>1. mode = "Finalizing" /\ workerPc # "sessionDone"
        BY <2>6 DEF SessionEnds
      <3>2. ModeOwner = "worker" /\ ModeOwner' = "nobody"
        BY <2>1, <2>2, <2>4, <2>5, <2>6, <3>1, OwnersAre DEF OwnerInMode, SessionEnds
      <3> QED
        BY <2>2, <2>4, <2>5, <3>1, <3>2
        DEF ModesStep, Machine!ModeMachineNext, Machine!Disarm, Machine!Move
    <2>7. CASE ~armed
      <3>1. SessionEnds' = SessionEnds
        BY <2>4, <2>7 DEF SessionEnds
      <3>2. OwnerInMode' = OwnerInMode
        BY <2>1, <2>2, <2>3, <3>1 DEF OwnerInMode
      <3> QED
        BY <2>2, <2>5, <3>2, SameOwner
    <2> QED
      BY <2>6, <2>7
  <1>4. CASE QuitFlushesTail
    <2>1. pc.main = "quitFlush" /\ pc'.main \in {"quitEmit", "quitWorker"}
          /\ pc'.hotkey = pc.hotkey
      BY <1>0, <1>4, MainMoves DEF QuitFlushesTail, ForceFlush
    <2>2. /\ DictationWaits' = DictationWaits /\ SessionEnds' = SessionEnds
          /\ InFlight' = InFlight /\ UNCHANGED <<armed, workerPc, stopFlag>>
      BY <1>4, WorkerKept DEF QuitFlushesTail
    <2>3. UNCHANGED <<mode, shuttingDown>>
      BY <1>4 DEF QuitFlushesTail, modeVars, micVars
    <2>4. ModesInv'
      BY <2>1, <2>2, <2>3
    <2>5. OwnerInMode' = OwnerInMode
      BY <2>1, <2>2, <2>3 DEF OwnerInMode
    <2> QED
      BY <2>3, <2>4, <2>5, SameOwner
  <1>5. CASE QuitEnqueuesTail
    <2>1. pc.main = "quitEmit" /\ pc'.main = "quitWorker" /\ pc'.hotkey = pc.hotkey
      BY <1>0, <1>5, MainMoves DEF QuitEnqueuesTail
    <2>2. hand.main \in Audio /\ Enqueue(FALSE, hand.main)
      BY <1>5 DEF QuitEnqueuesTail, ControllerInv, OwnTypeOK, PcTypeOK, Hands
    <2>3. UNCHANGED <<mode, shuttingDown>>
      BY <1>5 DEF QuitEnqueuesTail, modeVars, micVars
    <2> QED
      BY <2>1, <2>2, <2>3, EnqueueModes
  <1>6. CASE QuitStopsWorker
    <2>1. pc.main = "quitWorker" /\ pc'.main = "quitWorkerJoin"
          /\ pc'.hotkey = pc.hotkey
      BY <1>0, <1>6, MainMoves DEF QuitStopsWorker
    <2>2. /\ stopFlag' = TRUE /\ Notify
          /\ UNCHANGED <<queue, item, armed, mode, shuttingDown>>
      BY <1>6 DEF QuitStopsWorker, RequestStop, modeVars, micVars
    <2>3. /\ DictationWaits' = DictationWaits /\ InFlight' = InFlight
          /\ workerPc' = "sessionDone" <=> workerPc = "sessionDone"
          /\ workerPc' = "exited" <=> workerPc = "exited"
      BY <2>2, NotifyWakes, FlightKept
    <2>4. SessionEnds' = SessionEnds
      BY <2>2, <2>3 DEF SessionEnds
    <2>5. ModesInv'
      BY <2>1, <2>2, <2>3, <2>4
    <2>6. OwnerInMode' = OwnerInMode
      BY <2>1, <2>2, <2>3, <2>4 DEF OwnerInMode
    <2> QED
      BY <2>2, <2>5, <2>6, SameOwner
  <1>7. CASE QuitJoinsWorker \/ QuitClosesWriter
    <2>1. /\ pc.main \in {"quitWorkerJoin", "quitClose"}
          /\ pc'.main \in {"quitClose", "quitReset"} /\ pc'.hotkey = pc.hotkey
          /\ workerPc = "exited"
      BY <1>0, <1>7, MainMoves DEF QuitJoinsWorker, QuitClosesWriter, Join
    <2>2. UNCHANGED <<queue, item, armed, workerPc, stopFlag, mode, shuttingDown>>
      BY <1>7 DEF QuitJoinsWorker, QuitClosesWriter, Join, SetOutputWriter,
                  modeVars, micVars
    <2>3. /\ DictationWaits' = DictationWaits /\ SessionEnds' = SessionEnds
          /\ InFlight' = InFlight
      BY <2>2, FlightKept DEF SessionEnds
    <2>4. ModesInv'
      BY <2>1, <2>2, <2>3
    <2>5. OwnerInMode' = OwnerInMode
      BY <2>1, <2>2, <2>3 DEF OwnerInMode
    <2> QED
      BY <2>2, <2>4, <2>5, SameOwner
  <1>8. CASE QuitResets
    <2>1. pc.main = "quitReset" /\ pc'.main = "stopped" /\ pc'.hotkey = pc.hotkey
      BY <1>0, <1>8, MainMoves DEF QuitResets
    <2>2. /\ DictationWaits' = DictationWaits /\ SessionEnds' = SessionEnds
          /\ InFlight' = InFlight /\ UNCHANGED <<armed, workerPc, stopFlag>>
      BY <1>8, WorkerKept DEF QuitResets
    <2>3. mode' = "Idle" /\ shuttingDown' = shuttingDown /\ shuttingDown
      BY <1>8, <2>1 DEF QuitResets, Store, micVars
    <2>4. ~DictationWaits /\ ~SessionEnds /\ pc.hotkey = "idle"
      BY <2>1, <2>3 DEF SessionEnds
    <2>5. ModesInv'
      BY <2>1, <2>2, <2>3, <2>4 DEF HotkeyOwns
    <2>6. ModeOwner' = "nobody"
      BY <2>3, <2>5, OwnersAre DEF OwnerInMode
    <2> QED
      BY <2>3, <2>5, <2>6 DEF ModesStep, Machine!ModeMachineNext, Machine!Reset
  <1> QED
    BY <1>1, <1>2, <1>3, <1>4, <1>5, <1>6, <1>7, <1>8 DEF QuitHandler

\* The worker's loop gives up a dictation without a result; its two callbacks end
\* the mode they are meant for.
LEMMA WorkerModes ==
  ASSUME ControllerInv, ControllerInv', WorkerInv, ModesInv,
         WorkerHandler \/ (WakeSpuriously /\ UNCHANGED ownVars)
  PROVE  ModesStep
  <1> USE DEF ModesInv, Ownership, Shutdown
  <1>1. CASE (Sleep \/ WakeSpuriously) /\ UNCHANGED ownVars
    <2>1. /\ UNCHANGED <<queue, item, armed, stopFlag, mode, shuttingDown, pc>>
          /\ workerPc \in {"check", "asleep"} /\ workerPc' \in {"check", "asleep"}
      BY <1>1 DEF Sleep, WakeSpuriously, GoTo, lockedVars, ownVars, modeVars, micVars
    <2>2. /\ DictationWaits' = DictationWaits /\ InFlight' = InFlight
          /\ SessionEnds' = SessionEnds
      BY <2>1, FlightKept DEF SessionEnds
    <2>3. ModesInv'
      BY <2>1, <2>2
    <2>4. OwnerInMode' = OwnerInMode
      BY <2>1, <2>2 DEF OwnerInMode
    <2> QED
      BY <2>1, <2>3, <2>4, SameOwner
  <1>2. CASE Exit /\ UNCHANGED ownVars
    <2>1. /\ UNCHANGED <<queue, item, armed, stopFlag, mode, shuttingDown, pc>>
          /\ workerPc = "check" /\ workerPc' = "exited" /\ stopFlag /\ queue = <<>>
      BY <1>2 DEF Exit, StopAndEmpty, GoTo, lockedVars, ownVars, modeVars, micVars
    <2>2. /\ DictationWaits' = DictationWaits /\ InFlight' = InFlight
          /\ SessionEnds' = SessionEnds
      BY <2>1, FlightKept DEF SessionEnds
    <2>3. InFlight = {}
      BY <2>1 DEF InFlight
    <2>4. ModesInv'
      BY <2>1, <2>2, <2>3 DEF DictationWaits
    <2>5. OwnerInMode' = OwnerInMode
      BY <2>1, <2>2 DEF OwnerInMode
    <2> QED
      BY <2>1, <2>4, <2>5, SameOwner
  <1>3. CASE Pop /\ UNCHANGED ownVars
    <2>1. /\ UNCHANGED <<armed, stopFlag, mode, shuttingDown, pc>>
          /\ workerPc = "check" /\ workerPc' = "transcribe"
      BY <1>3 DEF Pop, GoTo, ownVars, modeVars, micVars
    <2>2. /\ DictationWaits' = DictationWaits /\ InFlight' = InFlight
          /\ SessionEnds' = SessionEnds
      BY <1>3, <2>1, PopFlight DEF SessionEnds
    <2>3. ModesInv'
      BY <2>1, <2>2
    <2>4. OwnerInMode' = OwnerInMode
      BY <2>1, <2>2 DEF OwnerInMode
    <2> QED
      BY <2>1, <2>3, <2>4, SameOwner
  <1>4. CASE /\ TakeSessionDone \/ CheckDone
             /\ UNCHANGED ownVars
    <2>1. /\ UNCHANGED <<queue, item, stopFlag, mode, shuttingDown, pc>>
          /\ workerPc \in {"check", "checkDone"}
      BY <1>4 DEF TakeSessionDone, CheckDone, GoTo, ownVars, modeVars, micVars
    <2>2. \/ armed /\ ~armed' /\ workerPc' = "sessionDone"
          \/ armed' = armed /\ workerPc' = "check"
      BY <1>4 DEF TakeSessionDone, CheckDone, GoTo, Drained
    <2>3. /\ DictationWaits' = DictationWaits /\ InFlight' = InFlight
          /\ SessionEnds' = SessionEnds
      BY <2>1, <2>2, FlightKept DEF SessionEnds
    <2>4. ModesInv'
      BY <2>1, <2>2, <2>3
    <2>5. OwnerInMode' = OwnerInMode
      BY <2>1, <2>3 DEF OwnerInMode
    <2> QED
      BY <2>1, <2>4, <2>5, SameOwner
  <1>5. CASE /\ TranscribeFails \/ TranscribeDictation("blank") \/ TranscribeSession
             /\ UNCHANGED ownVars
    <2>1. /\ UNCHANGED <<queue, armed, stopFlag, mode, shuttingDown, pc>>
          /\ workerPc = "transcribe" /\ workerPc' \in {"check", "checkDone"}
      BY <1>5 DEF TranscribeFails, TranscribeDictation, TranscribeSession, GoTo, Finish,
                  lockedVars, ownVars, modeVars, micVars
    <2>2. InFlight' = InFlight \ {item} /\ item \in InFlight
      BY <2>1, FinishFlight
    <2>3. (DictationWaits' => DictationWaits) /\ SessionEnds' = SessionEnds
      BY <2>1, <2>2 DEF DictationWaits, SessionEnds
    <2>4. ModesInv'
      BY <2>1, <2>2, <2>3
    <2>5. CASE DictationWaits' = DictationWaits
      <3>1. OwnerInMode' = OwnerInMode
        BY <2>1, <2>3, <2>5 DEF OwnerInMode
      <3> QED
        BY <2>1, <2>4, <3>1, SameOwner
    <2>6. CASE DictationWaits /\ ~DictationWaits'
      <3>1. mode = "Transcribing" /\ pc.hotkey \notin HotkeyOwns
        BY <2>6
      <3>2. ModeOwner = "worker" /\ ModeOwner' = "nobody"
        BY <2>1, <2>4, <2>6, <3>1, OwnersAre DEF OwnerInMode
      <3> QED
        BY <2>1, <2>4, <3>1, <3>2
        DEF ModesStep, Machine!ModeMachineNext, Machine!LoseDictation, Machine!Move
    <2> QED
      BY <2>3, <2>5, <2>6 DEF DictationWaits
  <1>6. CASE DictationResult
    <2>1. /\ UNCHANGED <<queue, armed, stopFlag, shuttingDown, pc>>
          /\ workerPc = "transcribe" /\ workerPc' = "check"
          /\ item.dictation /\ mode' = "Idle"
      BY <1>6 DEF DictationResult, TranscribeDictation, GoTo, Finish, Store,
                  WorkerFrame, lockedVars, micVars
    <2>2. InFlight' = InFlight \ {item} /\ item \in InFlight
      BY <2>1, FinishFlight
    <2>3. /\ DictationWaits /\ ~DictationWaits' /\ SessionEnds' = SessionEnds
          /\ mode = "Transcribing" /\ pc.hotkey \notin HotkeyOwns
      BY <2>1, <2>2 DEF DictationWaits, SessionEnds
    <2>4. ModesInv'
      BY <2>1, <2>2, <2>3
    <2>5. ModeOwner = "worker" /\ ModeOwner' = "nobody"
      BY <2>1, <2>3, <2>4, OwnersAre DEF OwnerInMode
    <2> QED
      BY <2>1, <2>3, <2>4, <2>5
      DEF ModesStep, Machine!ModeMachineNext, Machine!TranscriptionDone, Machine!Move
  <1>7. CASE SessionDoneCloses
    <2>1. UNCHANGED <<queue, item, armed, workerPc, stopFlag, mode, shuttingDown, pc>>
      BY <1>7 DEF SessionDoneCloses, SetOutputWriter, WorkerFrame, micVars
    <2>2. /\ DictationWaits' = DictationWaits /\ InFlight' = InFlight
      BY <2>1, FlightKept
    <2> QED
      BY <2>1, <2>2, NothingMoves
  <1>8. CASE SessionDoneFinalizes
    <2>1. /\ UNCHANGED <<queue, item, armed, stopFlag, shuttingDown, pc>>
          /\ workerPc = "sessionDone" /\ workerPc' = "check" /\ mode' = "Idle"
      BY <1>8 DEF SessionDoneFinalizes, SessionDoneReturns, GoTo, lockedVars, Store,
                  WorkerFrame, micVars
    <2>2. /\ DictationWaits' = DictationWaits /\ InFlight' = InFlight
      BY <2>1, FlightKept
    <2>3. SessionEnds /\ mode = "Finalizing" /\ ~armed /\ ~SessionEnds'
      BY <2>1 DEF SessionEnds
    <2>4. ModesInv'
      BY <2>1, <2>2, <2>3
    <2>5. ModeOwner = "worker" /\ ModeOwner' = "nobody"
      BY <2>1, <2>3, <2>4, OwnersAre DEF OwnerInMode
    <2> QED
      BY <2>1, <2>3, <2>4, <2>5
      DEF ModesStep, Machine!ModeMachineNext, Machine!FinalizeDone, Machine!Move
  <1> QED
    BY <1>1, <1>2, <1>3, <1>4, <1>5, <1>6, <1>7, <1>8 DEF WorkerHandler, WorkerLoop

-----------------------------------------------------------------------------

\* Every step of the controller is a step of the mode machine, or none.
LEMMA ModesNext ==
  ASSUME ControllerInv, ControllerInv', WorkerInv, ModesInv, [Next]_vars
  PROVE  ModesStep
  <1>1. CASE Next
    <2>1. CASE HotkeyDown \/ HotkeyUp \/ HotkeyHandler
      BY <2>1, HotkeyModes
    <2>2. CASE MicThread
      BY <2>2, MicModes
    <2>3. CASE TapBlock \/ TapHandler
      BY <2>3, TapModes
    <2>4. CASE StartSession \/ StopSession \/ SessionHandler
      BY <2>4, SessionModes
    <2>5. CASE Quit \/ QuitHandler
      BY <2>5, QuitModes
    <2>6. CASE WorkerHandler \/ (WakeSpuriously /\ UNCHANGED ownVars)
      BY <2>6, WorkerModes
    <2> QED
      BY <1>1, <2>1, <2>2, <2>3, <2>4, <2>5, <2>6
      DEF Next, Environment, MainHandler
  <1>2. CASE UNCHANGED vars
    <2>1. UNCHANGED workerVars /\ UNCHANGED <<mode, shuttingDown, pc>>
      BY <1>2 DEF vars, ownVars, modeVars, micVars
    <2> QED
      BY <2>1, WorkerKept, NothingMoves
  <1> QED
    BY <1>1, <1>2

\* The controller uses the mode word as ModeMachine says, so that no store of Idle
\* (mode_machine.cpp:30, :51, :56) ever ends a mode that somebody else is in the
\* middle of, and each ends the mode it is meant for: on_result a transcription,
\* the drain callback a session that is being finalized, a discarded dictation
\* itself.
THEOREM ControllerImplementsModes == SafetySpec => ImplementsModes
  <1>1. Init => Machine!ModeMachineInit
    <2> SUFFICES ASSUME Init PROVE ModeOwner = "nobody"
      BY DEF Init, Machine!ModeMachineInit
    <2>1. ModesInv /\ mode = "Idle"
      BY ModesInitInv DEF Init
    <2> QED
      BY <2>1, WhoOwns DEF ModesInv, OwnerInMode, Modes
  <1>2. SafetySpec => []ControllerInv
    BY ControllerInvariant
  <1>3. SafetySpec => []WorkerInv
    BY ControllerUsesWorker, WorkerInvariant, PTL
  <1>4. ControllerInv /\ ControllerInv' /\ WorkerInv /\ ModesInv /\ [Next]_vars
          => ModesInv' /\ [Machine!ModeMachineNext]_(Machine!modeMachineVars)
    BY ModesNext DEF ModesStep
  <1> QED
    BY <1>1, <1>2, <1>3, <1>4, ModesInitInv, PTL
    DEF SafetySpec, ImplementsModes, Machine!ModeMachineSpec

-----------------------------------------------------------------------------
(***************************************************************************)
(* The microphone and the tap.  What follows needs a capture.stop() that   *)
(* waits for the block being delivered, which app_controller.cpp:464       *)
(* relies on.                                                              *)
(***************************************************************************)

\* Where stop() has joined the mic-control thread, and where the microphone is off.
MicOff    == MainDisarmed \union {"quitDisarm"}
MicJoined == MicOff \union {"quitMic"}

\* A block is under way from a running microphone only.  One that the mic-control
\* thread has failed to start runs for a session that is not over.
MicInv ==
  /\ pc.tap # "idle" => micRunning
  /\ pc.main \in MicJoined => pc.mic = "exited"
  /\ pc.main \in MicOff => ~micRunning
  /\ pc.mic \in {"failed", "cancel"} /\ micRunning =>
       \/ mode = "Recording" /\ pc.main # "micFailed"
       \/ mode = "Finalizing" /\ pc.main = "stopMic"

\* To begin with the tap is idle.
LEMMA MicInitInv == Init => MicInv
  BY DEF Init, MicInv, MicOff, MicJoined, MainDisarmed

\* One thread moves, the others stay.
LEMMA MainMovesAlone ==
  ASSUME NEW from, NEW to, pc \in Pcs, At("main", from, to)
  PROVE  /\ pc.main = from /\ pc'.main = to
         /\ pc'.hotkey = pc.hotkey /\ pc'.mic = pc.mic /\ pc'.tap = pc.tap
  BY DEF At, Pcs

\* The hotkey thread moves.
LEMMA HotkeyMovesAlone ==
  ASSUME NEW from, NEW to, pc \in Pcs, At("hotkey", from, to)
  PROVE  /\ pc.hotkey = from /\ pc'.hotkey = to
         /\ pc'.main = pc.main /\ pc'.mic = pc.mic /\ pc'.tap = pc.tap
  BY DEF At, Pcs

\* The mic-control thread moves.
LEMMA MicMovesAlone ==
  ASSUME NEW from, NEW to, pc \in Pcs, At("mic", from, to)
  PROVE  /\ pc.mic = from /\ pc'.mic = to
         /\ pc'.main = pc.main /\ pc'.hotkey = pc.hotkey /\ pc'.tap = pc.tap
  BY DEF At, Pcs

\* The tap moves.
LEMMA TapMovesAlone ==
  ASSUME NEW from, NEW to, pc \in Pcs, At("tap", from, to)
  PROVE  /\ pc.tap = from /\ pc'.tap = to
         /\ pc'.main = pc.main /\ pc'.hotkey = pc.hotkey /\ pc'.mic = pc.mic
  BY DEF At, Pcs

\* A step of a thread that is neither main, mic-control nor tap: it may stop the
\* microphone, and end a mode that is no session's.
LEMMA OthersKeepMicInv ==
  ASSUME MicInv, UNCHANGED <<pc.main, pc.mic, pc.tap>>,
         micRunning' = micRunning \/ (~micRunning' /\ pc.tap = "idle"),
         \/ mode' = mode \/ mode \notin {"Recording", "Finalizing"}
         \/ mode = "Finalizing" /\ pc.main # "stopMic"
  PROVE  MicInv'
  BY DEF MicInv

\* The hotkey thread's steps.
LEMMA HotkeyMicInv ==
  ASSUME TapDrains, ControllerInv, ModesInv, MicInv,
         HotkeyDown \/ HotkeyUp \/ HotkeyHandler
  PROVE  MicInv'
  <1>0. pc \in Pcs /\ mode \in Modes
    BY DEF ControllerInv, OwnTypeOK, PcTypeOK, ModeTypeOK
  <1>1. UNCHANGED <<pc.main, pc.mic, pc.tap>>
    BY <1>0, HotkeyMovesAlone
    DEF HotkeyDown, HotkeyUp, HotkeyHandler, HotkeyWantsMic, HotkeyRequestsMic,
        HotkeyUnwantsMic, HotkeyStopsMic, HotkeyTakesAudio, HotkeyDiscards,
        HotkeyEnqueues
  <1>2. micRunning' = micRunning \/ (~micRunning' /\ pc.tap = "idle")
    BY DEF HotkeyDown, HotkeyUp, HotkeyHandler, HotkeyWantsMic, HotkeyRequestsMic,
        HotkeyUnwantsMic, HotkeyStopsMic, HotkeyTakesAudio, HotkeyDiscards,
        HotkeyEnqueues, StopMic, micVars, MicInv
  <1>3. mode' = mode \/ mode \notin {"Recording", "Finalizing"}
    <2>1. CASE HotkeyDiscards
      BY <2>1, <1>0, HotkeyMovesAlone
      DEF HotkeyDiscards, ModesInv, Ownership, HotkeyOwns
    <2> QED
      BY <2>1 DEF HotkeyDown, HotkeyUp, HotkeyHandler, HotkeyWantsMic,
          HotkeyRequestsMic, HotkeyUnwantsMic, HotkeyStopsMic, HotkeyTakesAudio,
          HotkeyEnqueues, CAS, modeVars
  <1> QED
    BY <1>1, <1>2, <1>3, OthersKeepMicInv

\* The worker's steps.
LEMMA WorkerMicInv ==
  ASSUME ControllerInv, ModesInv, MicInv,
         WorkerHandler \/ (WakeSpuriously /\ UNCHANGED ownVars)
  PROVE  MicInv'
  <1>1. UNCHANGED <<pc.main, pc.mic, pc.tap, micRunning>>
    BY DEF WorkerHandler, DictationResult, SessionDoneCloses, SessionDoneFinalizes,
           WorkerFrame, ownVars, micVars
  <1>2. \/ mode' = mode \/ mode \notin {"Recording", "Finalizing"}
        \/ mode = "Finalizing" /\ pc.main # "stopMic"
    <2>1. CASE DictationResult
      <3>1. item.dictation /\ workerPc = "transcribe"
        BY <2>1 DEF DictationResult, TranscribeDictation, GoTo
      <3>2. mode = "Transcribing"
        BY <3>1 DEF ModesInv, Ownership, DictationWaits, InFlight
      <3> QED
        BY <3>2
    <2>2. CASE SessionDoneFinalizes
      <3>1. workerPc = "sessionDone"
        BY <2>2 DEF SessionDoneFinalizes, SessionDoneReturns, GoTo
      <3> QED
        BY <3>1 DEF ModesInv, Ownership, SessionEnds, MainFinishes
    <2>3. CASE SessionDoneCloses \/ (WorkerLoop /\ UNCHANGED ownVars)
               \/ (WakeSpuriously /\ UNCHANGED ownVars)
      BY <2>3 DEF SessionDoneCloses, ownVars, modeVars
    <2> QED
      BY <2>1, <2>2, <2>3 DEF WorkerHandler
  <1> QED
    BY <1>1, <1>2, OthersKeepMicInv

\* The mic-control thread's steps.
LEMMA MicThreadMicInv ==
  ASSUME TapDrains, ControllerInv, MicInv, MicThread
  PROVE  MicInv'
  <1> USE DEF MicInv, MicOff, MicJoined
  <1>0. pc \in Pcs
    BY DEF ControllerInv, OwnTypeOK, PcTypeOK
  <1>1. CASE MicWakes \/ MicChecks \/ MicStartFailed \/ MicVerifies
    <2>1. /\ UNCHANGED <<pc.main, pc.tap, mode, micRunning>> /\ pc.mic # "exited"
          /\ pc'.mic \in {"failed", "cancel"} => pc.mic = "failed"
      BY <1>0, <1>1, MicMovesAlone
      DEF MicWakes, MicChecks, MicStartFailed, MicVerifies, micVars
    <2> QED
      BY <2>1
  <1>2. ASSUME NEW ok \in BOOLEAN, MicStarts(ok) PROVE MicInv'
    <2>1. /\ UNCHANGED <<pc.main, pc.tap, mode>> /\ pc.mic = "start"
          /\ pc'.mic = (IF ok THEN "verify" ELSE "failed")
          /\ micRunning' = ok /\ (micRunning => ok)
      BY <1>0, <1>2, MicMovesAlone DEF MicStarts, StartMic
    <2> QED
      BY <2>1
  <1>3. CASE MicCancels
    <2>1. /\ UNCHANGED <<pc.main, pc.tap, micRunning>>
          /\ pc.mic = "cancel" /\ pc'.mic = "wait"
      BY <1>0, <1>3, MicMovesAlone DEF MicCancels, micVars
    <2> QED
      BY <2>1
  <1>4. CASE MicUndoes
    <2>1. /\ UNCHANGED <<pc.main, pc.tap>> /\ pc.mic = "undo" /\ pc'.mic = "wait"
          /\ ~micRunning' /\ (micRunning => pc.tap = "idle")
      BY <1>0, <1>4, MicMovesAlone DEF MicUndoes, StopMic
    <2> QED
      BY <2>1
  <1> QED
    BY <1>1, <1>2, <1>3, <1>4 DEF MicThread

\* The tap's steps.
LEMMA TapMicInv ==
  ASSUME ControllerInv, MicInv, TapBlock \/ TapHandler
  PROVE  MicInv'
  <1>0. pc \in Pcs
    BY DEF ControllerInv, OwnTypeOK, PcTypeOK
  <1>1. UNCHANGED <<mode, micRunning>>
    BY DEF TapBlock, TapHandler, TapDictates, TapBuffers, TapDiscards, TapFlushes,
           TapEnqueues, TapFrame, modeVars, micVars
  <1>2. UNCHANGED <<pc.main, pc.mic>> /\ (micRunning \/ pc.tap # "idle")
    <2>1. CASE TapBlock
      <3>1. At("tap", "idle", "dictate") \/ At("tap", "idle", "feed")
        BY <2>1 DEF TapBlock
      <3>2. UNCHANGED <<pc.main, pc.mic>>
        BY <1>0, <3>1, TapMovesAlone
      <3> QED
        BY <2>1, <3>2 DEF TapBlock
    <2>2. CASE TapHandler
      <3>1. \/ At("tap", "dictate", "idle") \/ At("tap", "feed", "idle")
            \/ At("tap", "feed", "emit") \/ At("tap", "emit", "idle")
        BY <2>2
        DEF TapHandler, TapDictates, TapBuffers, TapDiscards, TapFlushes, TapEnqueues
      <3> QED
        BY <1>0, <3>1, TapMovesAlone
    <2> QED
      BY <2>1, <2>2
  <1> QED
    BY <1>1, <1>2 DEF MicInv

\* Main's steps in a session.
LEMMA SessionMicInv ==
  ASSUME TapDrains, ControllerInv, ModesInv, MicInv,
         StartSession \/ StopSession \/ SessionHandler
  PROVE  MicInv'
  <1> USE DEF MicInv, MicOff, MicJoined, MainDisarmed
  <1>0. pc \in Pcs /\ assembler \in Buffer
    BY DEF ControllerInv, OwnTypeOK, PcTypeOK, AudioTypeOK
  <1>1. CASE StartSession \/ AttachWriter \/ DetachWriter
             \/ SessionFlushesTail \/ SessionEnqueuesTail \/ SessionArms
    <2>1. UNCHANGED <<mode, micRunning>>
      BY <1>1 DEF StartSession, AttachWriter, DetachWriter,
         SessionFlushesTail, SessionEnqueuesTail, SessionArms, modeVars, micVars
    <2>2. \/ At("main", "idle", "attach")
          \/ At("main", "attach", "tryRecord") \/ At("main", "detach", "idle")
          \/ At("main", "flush", "emit") \/ At("main", "flush", "arm")
          \/ At("main", "emit", "arm") \/ At("main", "arm", "idle")
      BY <1>1
      DEF StartSession, AttachWriter, DetachWriter, SessionFlushesTail,
          ForceFlush, SessionEnqueuesTail, SessionArms
    <2>3. /\ UNCHANGED <<pc.mic, pc.tap>> /\ pc.main # "stopMic"
          /\ pc'.main \in {"attach", "tryRecord", "idle", "emit", "arm"}
      BY <1>0, <2>2, MainMovesAlone
    <2> QED
      BY <2>1, <2>3
  <1>2. CASE TryRecord
    <2>1. At("main", "tryRecord", "startMic") \/ At("main", "tryRecord", "detach")
      BY <1>2 DEF TryRecord
    <2>2. /\ UNCHANGED <<pc.mic, pc.tap>> /\ pc.main = "tryRecord"
          /\ pc'.main \in {"startMic", "detach"}
      BY <1>0, <2>1, MainMovesAlone
    <2>3. UNCHANGED micRunning /\ (mode' = mode \/ (mode = "Idle" /\ mode' = "Recording"))
      BY <1>2 DEF TryRecord, CAS, modeVars, micVars
    <2> QED
      BY <2>2, <2>3
  <1>3. ASSUME NEW ok \in BOOLEAN, SessionStartsMic(ok) PROVE MicInv'
    <2>1. /\ UNCHANGED <<pc.mic, pc.tap>> /\ pc.main = "startMic"
          /\ pc'.main = (IF ok THEN "idle" ELSE "micFailed")
      BY <1>0, <1>3, MainMovesAlone DEF SessionStartsMic
    <2>2. micRunning' = ok /\ (micRunning => ok) /\ UNCHANGED mode
      BY <1>3 DEF SessionStartsMic, StartMic, modeVars
    <2>3. mode = "Recording"
      BY <2>1 DEF ModesInv, Ownership, MainStarts
    <2> QED
      BY <2>1, <2>2, <2>3
  <1>4. CASE SessionMicFailed
    <2>1. /\ UNCHANGED <<pc.mic, pc.tap, micRunning>> /\ pc.main = "micFailed"
          /\ pc'.main = "detach"
      BY <1>0, <1>4, MainMovesAlone DEF SessionMicFailed, micVars
    <2> QED
      BY <2>1
  <1>5. CASE StopSession
    <2>1. /\ UNCHANGED <<pc.mic, pc.tap, micRunning>> /\ pc.main = "idle"
          /\ pc'.main = "stopMic" /\ mode = "Recording" /\ mode' = "Finalizing"
      BY <1>0, <1>5, MainMovesAlone DEF StopSession, CAS, micVars
    <2> QED
      BY <2>1
  <1>6. CASE SessionStopsMic
    <2>1. /\ UNCHANGED <<pc.mic, pc.tap>> /\ pc'.main = "flush"
          /\ ~micRunning' /\ (micRunning => pc.tap = "idle")
      BY <1>0, <1>6, MainMovesAlone DEF SessionStopsMic, StopMic
    <2> QED
      BY <2>1
  <1> QED
    BY <1>1, <1>2, <1>3, <1>4, <1>5, <1>6 DEF SessionHandler

\* Main's steps in stop(), which joins the mic-control thread before it stops the
\* microphone.
LEMMA QuitMicInv ==
  ASSUME TapDrains, ControllerInv, ModesInv, MicInv, Quit \/ QuitHandler
  PROVE  MicInv'
  <1> USE DEF MicInv, MicOff, MicJoined, MainDisarmed
  <1>0. pc \in Pcs
    BY DEF ControllerInv, OwnTypeOK, PcTypeOK
  <1>1. CASE QuitStopsMic
    <2>1. /\ UNCHANGED <<pc.mic, pc.tap>> /\ pc.main = "quitMic"
          /\ pc'.main = "quitDisarm"
          /\ ~micRunning' /\ (micRunning => pc.tap = "idle")
      BY <1>0, <1>1, MainMovesAlone DEF QuitStopsMic, StopMic
    <2> QED
      BY <2>1
  <1>2. CASE Quit \/ QuitStopsMicThread
    <2>1. UNCHANGED <<mode, micRunning>>
      BY <1>2 DEF Quit, QuitStopsMicThread, modeVars
    <2>2. /\ UNCHANGED <<pc.mic, pc.tap>> /\ pc.main \in {"idle", "quit"}
          /\ pc'.main \in {"quit", "quitJoin"}
      BY <1>0, <1>2, MainMovesAlone DEF Quit, QuitStopsMicThread
    <2> QED
      BY <2>1, <2>2
  <1>3. CASE QuitJoinsMicThread
    <2>1. /\ UNCHANGED <<pc.mic, pc.tap, micRunning, mode>> /\ pc.mic = "exited"
          /\ pc'.main = "quitMic"
      BY <1>0, <1>3, MainMovesAlone DEF QuitJoinsMicThread, modeVars, micVars
    <2> QED
      BY <2>1
  <1>4. CASE \/ QuitDisarms \/ QuitFlushesTail \/ QuitEnqueuesTail \/ QuitStopsWorker
             \/ QuitJoinsWorker \/ QuitClosesWriter \/ QuitResets
    <2>1. UNCHANGED micRunning
      BY <1>4 DEF QuitDisarms, QuitFlushesTail, QuitEnqueuesTail, QuitStopsWorker,
         QuitJoinsWorker, QuitClosesWriter, QuitResets, micVars
    <2>2. UNCHANGED <<pc.mic, pc.tap>> /\ pc.main \in MicOff /\ pc'.main \in MicOff
      BY <1>0, <1>4, MainMovesAlone
      DEF QuitDisarms, QuitFlushesTail, ForceFlush, QuitEnqueuesTail, QuitStopsWorker,
          QuitJoinsWorker, QuitClosesWriter, QuitResets
    <2> QED
      BY <2>1, <2>2
  <1> QED
    BY <1>1, <1>2, <1>3, <1>4 DEF QuitHandler

\* Every step.
LEMMA MicInvStep ==
  ASSUME TapDrains, ControllerInv, ModesInv, MicInv, [Next]_vars
  PROVE  MicInv'
  <1>1. CASE UNCHANGED vars
    BY <1>1 DEF vars, ownVars, modeVars, micVars, MicInv
  <1> QED
    BY <1>1, HotkeyMicInv, WorkerMicInv, MicThreadMicInv, TapMicInv, SessionMicInv,
       QuitMicInv DEF Next, Environment, MainHandler

-----------------------------------------------------------------------------
(***************************************************************************)
(* Dictations.                                                             *)
(***************************************************************************)

\* What was said during a press stays with it: in the tap's hand, in the buffer, in
\* the hotkey thread's hand, and in the worker.
DictInv ==
  /\ dictBuffer.audio \subseteq {presses}
  /\ dictBuffer.long => dictBuffer.audio = {presses}
  /\ pc.tap = "dictate" =>
       /\ hand.tap = {presses}
       /\ \/ mode = "Dictating"
          \/ mode = "Transcribing" /\ pc.hotkey \in {"unwant", "stopMic"}
  /\ pc.hotkey = "emit" => hand.hotkey = {presses}
  /\ \A c \in InFlight : c.dictation => c.audio = {presses}

\* To begin with nothing is dictated.
LEMMA DictInitInv == Init => DictInv
  BY DEF Init, WorkerInit, DictInv, EmptyBuffer, InFlight

\* A step that does not concern dictations.
LEMMA DictKept ==
  ASSUME DictInv, \A c \in InFlight' : c.dictation => c \in InFlight,
         UNCHANGED <<presses, dictBuffer, pc.hotkey, hand.hotkey>>,
         pc'.tap = "dictate" => pc.tap = "dictate" /\ UNCHANGED hand.tap,
         mode' = mode \/ pc.tap # "dictate"
  PROVE  DictInv'
  BY DEF DictInv

\* Thread t's hand is its own.
LEMMA TakesAlone ==
  ASSUME NEW t \in {"main", "hotkey", "tap"}, NEW audio, hand \in Hands, Take(t, audio)
  PROVE  /\ hand'[t] = audio
         /\ \A u \in {"main", "hotkey", "tap"} \ {t} : hand'[u] = hand[u]
  BY DEF Take, Hands

\* A chunk of a session is enqueued.
LEMMA EnqueueSession ==
  ASSUME WorkerInv, NEW audio \in Audio, Enqueue(FALSE, audio)
  PROVE  \A c \in InFlight' : c.dictation => c \in InFlight
  <1>1. \E new \in InFlight' : /\ new.dictation = FALSE
                              /\ InFlight' \subseteq InFlight \union {new}
    BY EnqueueFlight
  <1> QED
    BY <1>1

\* The worker adds nothing to what is under way.
LEMMA WorkerFlight ==
  ASSUME WorkerInv, WorkerHandler \/ (WakeSpuriously /\ UNCHANGED ownVars)
  PROVE  InFlight' \subseteq InFlight
  <1>1. CASE Pop
    BY <1>1, PopFlight
  <1>2. CASE \/ TranscribeFails \/ TranscribeDictation("blank") \/ TranscribeSession
             \/ DictationResult
    <2>1. UNCHANGED queue /\ workerPc = "transcribe" /\ workerPc' # "transcribe"
      BY <1>2 DEF TranscribeFails, TranscribeDictation, TranscribeSession, GoTo, Finish,
                  lockedVars, DictationResult
    <2> QED
      BY <2>1, FinishFlight
  <1>3. CASE \/ Sleep \/ WakeSpuriously \/ Exit \/ TakeSessionDone \/ CheckDone
             \/ SessionDoneCloses \/ SessionDoneFinalizes
    <2>1. /\ UNCHANGED <<queue, item>>
          /\ workerPc' = "transcribe" <=> workerPc = "transcribe"
      BY <1>3 DEF Sleep, WakeSpuriously, Exit, TakeSessionDone, CheckDone, GoTo, lockedVars,
                  SessionDoneCloses, SetOutputWriter, SessionDoneFinalizes,
                  SessionDoneReturns
    <2> QED
      BY <2>1, FlightKept
  <1> QED
    BY <1>1, <1>2, <1>3 DEF WorkerHandler, WorkerLoop

\* The worker ends a transcription whose block is no longer in the tap.
LEMMA WorkerDictInv ==
  ASSUME WorkerInv, ModesInv, DictInv,
         WorkerHandler \/ (WakeSpuriously /\ UNCHANGED ownVars)
  PROVE  DictInv'
  <1>1. UNCHANGED <<presses, dictBuffer, pc, hand>>
    BY DEF WorkerHandler, DictationResult, SessionDoneCloses, SessionDoneFinalizes,
           WorkerFrame, ownVars, audioVars
  <1>2. mode' = mode \/ pc.tap # "dictate"
    <2>1. CASE DictationResult
      <3>1. item.dictation /\ workerPc = "transcribe"
        BY <2>1 DEF DictationResult, TranscribeDictation, GoTo
      <3>2. mode = "Transcribing" /\ pc.hotkey \notin HotkeyOwns
        BY <3>1 DEF ModesInv, Ownership, DictationWaits, InFlight
      <3> QED
        BY <3>2 DEF DictInv, HotkeyOwns
    <2>2. CASE SessionDoneFinalizes
      <3>1. mode = "Finalizing"
        BY <2>2 DEF SessionDoneFinalizes, SessionDoneReturns, GoTo, ModesInv, Ownership,
                    SessionEnds
      <3> QED
        BY <3>1 DEF DictInv
    <2>3. CASE SessionDoneCloses \/ (WorkerLoop /\ UNCHANGED ownVars)
               \/ (WakeSpuriously /\ UNCHANGED ownVars)
      BY <2>3 DEF SessionDoneCloses, ownVars, modeVars
    <2> QED
      BY <2>1, <2>2, <2>3 DEF WorkerHandler
  <1>3. InFlight' \subseteq InFlight
    BY WorkerFlight
  <1> QED
    BY <1>1, <1>2, <1>3, DictKept

\* The mic-control thread gives up no dictation whose microphone runs.
LEMMA MicThreadDictInv ==
  ASSUME ControllerInv, MicInv, DictInv, MicThread
  PROVE  DictInv'
  <1>0. pc \in Pcs
    BY DEF ControllerInv, OwnTypeOK, PcTypeOK
  <1>1. UNCHANGED <<presses, dictBuffer, hand, workerVars>>
    BY DEF MicThread, MicWakes, MicChecks, MicStarts, MicStartFailed, MicCancels,
           MicVerifies, MicUndoes, MicFrame, audioVars
  <1>2. UNCHANGED <<pc.hotkey, pc.tap>>
    BY <1>0, MicMovesAlone
    DEF MicThread, MicWakes, MicChecks, MicStarts, MicStartFailed, MicCancels,
        MicVerifies, MicUndoes
  <1>3. mode' = mode \/ pc.tap # "dictate"
    <2>1. CASE MicCancels
      <3>1. pc.mic = "cancel"
        BY <2>1 DEF MicCancels, At
      <3> QED
        BY <3>1 DEF MicInv, DictInv
    <2> QED
      BY <2>1 DEF MicThread, MicWakes, MicChecks, MicStarts, MicStartFailed,
                  MicVerifies, MicUndoes
  <1>4. InFlight' = InFlight
    BY <1>1, WorkerKept
  <1> QED
    BY <1>1, <1>2, <1>3, <1>4, DictKept

\* The tap adds a block to the dictation it was taken for.
LEMMA TapDictInv ==
  ASSUME ControllerInv, WorkerInv, DictInv, TapBlock \/ TapHandler
  PROVE  DictInv'
  <1>0. pc \in Pcs /\ hand \in Hands /\ dictBuffer \in Buffer
    BY DEF ControllerInv, OwnTypeOK, PcTypeOK, AudioTypeOK
  <1>1. CASE TapBlock
    <2>1. At("tap", "idle", "dictate") \/ At("tap", "idle", "feed")
      BY <1>1 DEF TapBlock
    <2>2. UNCHANGED <<pc.hotkey, hand.hotkey>> /\ pc'.tap \in {"dictate", "feed"}
      BY <1>0, <1>1, <2>1, TapMovesAlone, TakesAlone DEF TapBlock
    <2>3. pc'.tap = "dictate" => mode = "Dictating" /\ hand'.tap = {presses}
      BY <1>0, <1>1, TapMovesAlone, TakesAlone DEF TapBlock
    <2>4. UNCHANGED <<mode, presses, dictBuffer, workerVars>>
      BY <1>1 DEF TapBlock, TapFrame, modeVars
    <2>5. InFlight' = InFlight
      BY <2>4, WorkerKept
    <2> QED
      BY <2>2, <2>3, <2>4, <2>5 DEF DictInv
  <1>2. ASSUME NEW long \in BOOLEAN, TapDictates(long) PROVE DictInv'
    <2>1. UNCHANGED pc.hotkey /\ pc.tap = "dictate" /\ pc'.tap = "idle"
      BY <1>0, <1>2, TapMovesAlone DEF TapDictates
    <2>2. UNCHANGED <<presses, workerVars, hand.hotkey>>
      BY <1>0, <1>2, TakesAlone DEF TapDictates, TapFrame
    <2>3. dictBuffer' = [audio |-> dictBuffer.audio \union hand.tap,
                         long  |-> long \/ dictBuffer.long]
      BY <1>2 DEF TapDictates
    <2>4. dictBuffer'.audio = {presses}
      BY <2>1, <2>3 DEF DictInv
    <2>5. InFlight' = InFlight
      BY <2>2, WorkerKept
    <2> QED
      BY <2>1, <2>2, <2>4, <2>5 DEF DictInv
  <1>3. CASE TapDiscards \/ TapFlushes \/ \E long \in BOOLEAN : TapBuffers(long)
    <2>1. At("tap", "feed", "idle") \/ At("tap", "feed", "emit")
      BY <1>3 DEF TapDiscards, TapFlushes, TapBuffers
    <2>2. UNCHANGED pc.hotkey /\ pc'.tap # "dictate" /\ pc.tap # "dictate"
      BY <1>0, <2>1, TapMovesAlone
    <2>3. UNCHANGED <<presses, dictBuffer, workerVars, hand.hotkey>>
      BY <1>0, <1>3, TakesAlone DEF TapDiscards, TapFlushes, TapBuffers, TapFrame
    <2>4. InFlight' = InFlight
      BY <2>3, WorkerKept
    <2> QED
      BY <2>2, <2>3, <2>4, DictKept
  <1>4. CASE TapEnqueues
    <2>1. UNCHANGED pc.hotkey /\ pc'.tap # "dictate" /\ pc.tap # "dictate"
      BY <1>0, <1>4, TapMovesAlone DEF TapEnqueues
    <2>2. UNCHANGED <<presses, dictBuffer, hand.hotkey>>
      BY <1>0, <1>4, TakesAlone DEF TapEnqueues, audioVars
    <2>3. \A c \in InFlight' : c.dictation => c \in InFlight
      BY <1>0, <1>4, EnqueueSession DEF TapEnqueues, Hands
    <2> QED
      BY <2>1, <2>2, <2>3, DictKept
  <1> QED
    BY <1>1, <1>2, <1>3, <1>4 DEF TapHandler

\* Main touches no dictation.
LEMMA MainDictInv ==
  ASSUME ControllerInv, WorkerInv, ModesInv, MicInv, DictInv,
         \/ StartSession \/ StopSession \/ SessionHandler \/ Quit \/ QuitHandler
  PROVE  DictInv'
  <1>0. pc \in Pcs /\ hand \in Hands /\ assembler \in Buffer
    BY DEF ControllerInv, OwnTypeOK, PcTypeOK, AudioTypeOK
  <1>1. UNCHANGED <<presses, dictBuffer>>
    BY DEF StartSession, StopSession, SessionHandler, AttachWriter, TryRecord,
           DetachWriter, SessionStartsMic, SessionMicFailed, SessionStopsMic,
           SessionFlushesTail, SessionEnqueuesTail, SessionArms, Quit, QuitHandler,
           QuitStopsMicThread, QuitJoinsMicThread, QuitStopsMic, QuitDisarms,
           QuitFlushesTail, QuitEnqueuesTail, QuitStopsWorker, QuitJoinsWorker,
           QuitClosesWriter, QuitResets, audioVars
  <1>2. \E from, to \in MainPcs : At("main", from, to)
    BY DEF MainPcs, StartSession, StopSession, SessionHandler, AttachWriter,
           TryRecord, DetachWriter, SessionStartsMic, SessionMicFailed, SessionStopsMic,
           SessionFlushesTail, SessionEnqueuesTail, SessionArms, Quit, QuitHandler,
           QuitStopsMicThread, QuitJoinsMicThread, QuitStopsMic, QuitDisarms,
           QuitFlushesTail, QuitEnqueuesTail, QuitStopsWorker, QuitJoinsWorker,
           QuitClosesWriter, QuitResets, ForceFlush
  <1>3. UNCHANGED <<pc.hotkey, pc.tap>>
    BY <1>0, <1>2, MainMovesAlone
  <1>4. UNCHANGED <<hand.hotkey, hand.tap>>
    <2>1. UNCHANGED hand \/ \E audio : Take("main", audio)
      BY DEF StartSession, StopSession, SessionHandler, AttachWriter,
             TryRecord, DetachWriter, SessionStartsMic, SessionMicFailed,
             SessionStopsMic, SessionFlushesTail, SessionEnqueuesTail, SessionArms, Quit,
             QuitHandler, QuitStopsMicThread, QuitJoinsMicThread, QuitStopsMic,
             QuitDisarms, QuitFlushesTail, QuitEnqueuesTail, QuitStopsWorker,
             QuitJoinsWorker, QuitClosesWriter, QuitResets, ForceFlush
    <2> QED
      BY <1>0, <2>1, TakesAlone
  <1>5. mode' = mode \/ pc.tap # "dictate"
    <2>1. CASE TryRecord \/ StopSession
      BY <2>1 DEF TryRecord, StopSession, CAS, DictInv, modeVars
    <2>2. CASE SessionMicFailed
      <3>1. mode = "Recording"
        BY <2>2 DEF SessionMicFailed, At, ModesInv, Ownership, MainStarts
      <3> QED
        BY <3>1 DEF DictInv
    <2>3. CASE QuitResets
      <3>1. ~micRunning
        BY <2>3 DEF QuitResets, At, MicInv, MicOff, MainDisarmed
      <3> QED
        BY <3>1 DEF MicInv
    <2> QED
      BY <2>1, <2>2, <2>3
      DEF StartSession, SessionHandler, AttachWriter, DetachWriter,
          SessionStartsMic, SessionStopsMic, SessionFlushesTail, SessionEnqueuesTail,
          SessionArms, Quit, QuitHandler, QuitStopsMicThread, QuitJoinsMicThread,
          QuitStopsMic, QuitDisarms, QuitFlushesTail, QuitEnqueuesTail, QuitStopsWorker,
          QuitJoinsWorker, QuitClosesWriter, modeVars
  <1>6. \A c \in InFlight' : c.dictation => c \in InFlight
    <2>1. CASE SessionEnqueuesTail \/ QuitEnqueuesTail
      BY <1>0, <2>1, EnqueueSession DEF SessionEnqueuesTail, QuitEnqueuesTail, Hands
    <2>2. CASE SessionArms \/ QuitDisarms \/ QuitStopsWorker
      <3>1. UNCHANGED <<queue, item>> /\ Notify
        BY <2>2 DEF SessionArms, QuitDisarms, QuitStopsWorker, SetOnSessionDone, RequestStop
      <3> QED
        BY <3>1, FlightKept, NotifyWakes
    <2>3. CASE AttachWriter \/ DetachWriter \/ QuitClosesWriter \/ QuitJoinsWorker
      <3>1. UNCHANGED <<queue, item, workerPc>>
        BY <2>3 DEF AttachWriter, DetachWriter, QuitClosesWriter, QuitJoinsWorker,
                    SetOutputWriter, Join
      <3> QED
        BY <3>1, FlightKept
    <2>4. CASE UNCHANGED workerVars
      BY <2>4, WorkerKept
    <2> QED
      BY <2>1, <2>2, <2>3, <2>4
      DEF StartSession, StopSession, SessionHandler, TryRecord,
          SessionStartsMic, SessionMicFailed, SessionStopsMic, SessionFlushesTail, Quit,
          QuitHandler, QuitStopsMicThread, QuitJoinsMicThread, QuitStopsMic,
          QuitFlushesTail, QuitResets
  <1> QED
    BY <1>1, <1>3, <1>4, <1>5, <1>6, DictKept

\* The hotkey thread begins a dictation with an empty buffer, and takes it once the
\* microphone is off.
LEMMA HotkeyDictInv ==
  ASSUME TapDrains, ControllerInv, WorkerInv, ModesInv, MicInv, DictInv,
         HotkeyDown \/ HotkeyUp \/ HotkeyHandler
  PROVE  DictInv'
  <1>0. pc \in Pcs /\ hand \in Hands /\ dictBuffer \in Buffer
    BY DEF ControllerInv, OwnTypeOK, PcTypeOK, AudioTypeOK
  <1>1. CASE HotkeyDown
    <2>1. /\ UNCHANGED <<hand, pc.tap, workerVars>>
          /\ pc'.hotkey = "want" /\ mode = "Idle" /\ dictBuffer' = EmptyBuffer
      BY <1>0, <1>1, HotkeyMovesAlone DEF HotkeyDown, CAS
    <2>2. InFlight' = InFlight
      BY <2>1, WorkerKept
    <2>3. \A c \in InFlight : ~c.dictation
      BY <2>1 DEF ModesInv, Ownership, DictationWaits
    <2>4. pc.tap # "dictate"
      BY <2>1 DEF DictInv
    <2> QED
      BY <2>1, <2>2, <2>3, <2>4 DEF DictInv, EmptyBuffer
  <1>2. CASE HotkeyUp
    <2>1. /\ UNCHANGED <<hand, pc.tap, presses, dictBuffer, workerVars>>
          /\ pc'.hotkey = "unwant" /\ mode' = "Transcribing"
      BY <1>0, <1>2, HotkeyMovesAlone DEF HotkeyUp, CAS, audioVars
    <2>2. InFlight' = InFlight
      BY <2>1, WorkerKept
    <2> QED
      BY <2>1, <2>2 DEF DictInv
  <1>3. CASE HotkeyWantsMic \/ HotkeyRequestsMic \/ HotkeyUnwantsMic
    <2>1. UNCHANGED <<hand, mode, presses, dictBuffer, workerVars>>
      BY <1>3 DEF HotkeyWantsMic, HotkeyRequestsMic, HotkeyUnwantsMic, modeVars, audioVars
    <2>2. \/ At("hotkey", "want", "request") \/ At("hotkey", "request", "idle")
          \/ At("hotkey", "unwant", "stopMic")
      BY <1>3 DEF HotkeyWantsMic, HotkeyRequestsMic, HotkeyUnwantsMic
    <2>3. /\ UNCHANGED pc.tap /\ pc'.hotkey # "emit"
          /\ pc.hotkey \in {"unwant", "stopMic"} => pc'.hotkey = "stopMic"
      BY <1>0, <2>2, HotkeyMovesAlone
    <2>4. InFlight' = InFlight
      BY <2>1, WorkerKept
    <2> QED
      BY <2>1, <2>3, <2>4 DEF DictInv
  <1>4. CASE HotkeyStopsMic
    <2>1. UNCHANGED <<hand, mode, presses, dictBuffer, workerVars>>
      BY <1>4 DEF HotkeyStopsMic, modeVars, audioVars
    <2>2. UNCHANGED pc.tap /\ pc'.hotkey = "take"
      BY <1>0, <1>4, HotkeyMovesAlone DEF HotkeyStopsMic
    <2>3. pc.tap = "idle"
      BY <1>4 DEF HotkeyStopsMic, StopMic, MicInv
    <2>4. InFlight' = InFlight
      BY <2>1, WorkerKept
    <2> QED
      BY <2>1, <2>2, <2>3, <2>4 DEF DictInv
  <1>5. CASE HotkeyTakesAudio
    <2>1. /\ UNCHANGED <<pc.tap, mode, presses, workerVars, hand.tap>>
          /\ dictBuffer' = EmptyBuffer /\ hand'.hotkey = dictBuffer.audio
          /\ pc.hotkey = "take"
          /\ pc'.hotkey = (IF dictBuffer.long THEN "emit" ELSE "short")
      BY <1>0, <1>5, HotkeyMovesAlone, TakesAlone DEF HotkeyTakesAudio, modeVars
    <2>2. InFlight' = InFlight
      BY <2>1, WorkerKept
    <2> QED
      BY <2>1, <2>2 DEF DictInv, EmptyBuffer
  <1>6. CASE HotkeyDiscards
    <2>1. /\ UNCHANGED <<pc.tap, presses, dictBuffer, workerVars, hand.tap>>
          /\ pc.hotkey = "short" /\ pc'.hotkey = "idle"
      BY <1>0, <1>6, HotkeyMovesAlone, TakesAlone DEF HotkeyDiscards, audioVars
    <2>2. mode = "Transcribing"
      BY <2>1 DEF ModesInv, Ownership, HotkeyOwns
    <2>3. InFlight' = InFlight
      BY <2>1, WorkerKept
    <2> QED
      BY <2>1, <2>2, <2>3 DEF DictInv
  <1>7. CASE HotkeyEnqueues
    <2>1. /\ UNCHANGED <<pc.tap, mode, presses, dictBuffer, hand.tap>>
          /\ pc.hotkey = "emit" /\ pc'.hotkey = "idle"
      BY <1>0, <1>7, HotkeyMovesAlone, TakesAlone DEF HotkeyEnqueues, audioVars, modeVars
    <2>2. hand.hotkey = {presses}
      BY <2>1 DEF DictInv
    <2>3. \E new \in InFlight' : /\ new.dictation = TRUE /\ new.audio = {presses}
                                /\ InFlight' \subseteq InFlight \union {new}
      <3>1. Enqueue(TRUE, hand.hotkey) /\ hand.hotkey \in Audio
        BY <1>0, <1>7 DEF HotkeyEnqueues, Hands
      <3> QED
        BY <3>1, <2>2, EnqueueFlight
    <2>4. mode = "Transcribing"
      BY <2>1 DEF ModesInv, Ownership, HotkeyOwns
    <2> QED
      BY <2>1, <2>3, <2>4 DEF DictInv
  <1> QED
    BY <1>1, <1>2, <1>3, <1>4, <1>5, <1>6, <1>7 DEF HotkeyHandler

\* Every step.
LEMMA DictInvStep ==
  ASSUME TapDrains, ControllerInv, WorkerInv, ModesInv, MicInv, DictInv, [Next]_vars
  PROVE  DictInv'
  <1>1. CASE UNCHANGED vars
    <2>1. UNCHANGED <<mode, pc, hand, presses, dictBuffer, workerVars>>
      BY <1>1 DEF vars, ownVars, modeVars, audioVars
    <2>2. InFlight' = InFlight
      BY <2>1, WorkerKept
    <2> QED
      BY <2>1, <2>2, DictKept
  <1> QED
    BY <1>1, HotkeyDictInv, WorkerDictInv, MicThreadDictInv, TapDictInv, MainDictInv
    DEF Next, Environment, MainHandler

-----------------------------------------------------------------------------
(***************************************************************************)
(* The end of stop().                                                      *)
(***************************************************************************)

\* Where the worker has been told to stop.
WorkerStops == {"quitWorkerJoin", "quitClose", "quitReset", "stopped"}

\* Nobody enqueues any more once the worker may exit, and nobody attaches a writer
\* once main has detached the last one.
QuitInv ==
  /\ stopFlag => pc.main \in WorkerStops
  /\ workerPc = "exited" => queue = <<>>
  /\ pc.main \in {"quitReset", "stopped"} =>
       sessionWriter = NoWriter /\ outputWriter = NoWriter

\* To begin with nobody is told to stop.
LEMMA QuitInitInv == Init => QuitInv
  BY DEF Init, WorkerInit, QuitInv

\* Another thread than main and the worker: it enqueues only while the worker runs.
LEMMA OthersKeepQuitInv ==
  ASSUME QuitInv, UNCHANGED <<pc.main, stopFlag, sessionWriter, outputWriter>>,
         workerPc' = "exited" <=> workerPc = "exited",
         UNCHANGED queue \/ workerPc # "exited"
  PROVE  QuitInv'
  BY DEF QuitInv

\* enqueue() notifies.
LEMMA EnqueueKeeps ==
  ASSUME NEW dictation, NEW audio, Enqueue(dictation, audio)
  PROVE  /\ UNCHANGED <<stopFlag, outputWriter>>
         /\ workerPc' = "exited" <=> workerPc = "exited"
  BY NotifyWakes DEF Enqueue

\* The hotkey thread enqueues a dictation while the worker runs.
LEMMA HotkeyQuitInv ==
  ASSUME ControllerInv, ModesInv, QuitInv, HotkeyDown \/ HotkeyUp \/ HotkeyHandler
  PROVE  QuitInv'
  <1>0. pc \in Pcs
    BY DEF ControllerInv, OwnTypeOK, PcTypeOK
  <1>1. UNCHANGED pc.main
    BY <1>0, HotkeyMovesAlone
    DEF HotkeyDown, HotkeyUp, HotkeyHandler, HotkeyWantsMic, HotkeyRequestsMic,
        HotkeyUnwantsMic, HotkeyStopsMic, HotkeyTakesAudio, HotkeyDiscards,
        HotkeyEnqueues
  <1>2. UNCHANGED sessionWriter
    BY DEF HotkeyDown, HotkeyUp, HotkeyHandler, HotkeyWantsMic, HotkeyRequestsMic,
           HotkeyUnwantsMic, HotkeyStopsMic, HotkeyTakesAudio, HotkeyDiscards,
           HotkeyEnqueues, sessionVars
  <1>3. CASE HotkeyEnqueues
    <2>1. /\ UNCHANGED <<stopFlag, outputWriter>>
          /\ workerPc' = "exited" <=> workerPc = "exited"
      BY <1>3, EnqueueKeeps DEF HotkeyEnqueues
    <2>2. pc.hotkey = "emit"
      BY <1>3 DEF HotkeyEnqueues, At
    <2>3. workerPc # "exited"
      BY <2>2 DEF ModesInv, Shutdown
    <2> QED
      BY <1>1, <1>2, <2>1, <2>3, OthersKeepQuitInv
  <1>4. CASE UNCHANGED workerVars
    BY <1>1, <1>2, <1>4, OthersKeepQuitInv DEF workerVars
  <1> QED
    BY <1>3, <1>4
    DEF HotkeyDown, HotkeyUp, HotkeyHandler, HotkeyWantsMic, HotkeyRequestsMic,
        HotkeyUnwantsMic, HotkeyStopsMic, HotkeyTakesAudio, HotkeyDiscards

\* The tap is idle by then.
LEMMA TapQuitInv ==
  ASSUME ControllerInv, ModesInv, MicInv, QuitInv, TapBlock \/ TapHandler
  PROVE  QuitInv'
  <1>0. pc \in Pcs
    BY DEF ControllerInv, OwnTypeOK, PcTypeOK
  <1>1. UNCHANGED pc.main
    <2>1. \/ At("tap", "idle", "dictate") \/ At("tap", "idle", "feed")
          \/ At("tap", "dictate", "idle") \/ At("tap", "feed", "idle")
          \/ At("tap", "feed", "emit") \/ At("tap", "emit", "idle")
      BY DEF TapBlock, TapHandler, TapDictates, TapBuffers, TapDiscards, TapFlushes,
             TapEnqueues
    <2> QED
      BY <1>0, <2>1, TapMovesAlone
  <1>2. UNCHANGED sessionWriter
    BY DEF TapBlock, TapHandler, TapDictates, TapBuffers, TapDiscards, TapFlushes,
           TapEnqueues, TapFrame, sessionVars, modeVars, micVars, audioVars
  <1>3. CASE TapEnqueues
    <2>1. /\ UNCHANGED <<stopFlag, outputWriter>>
          /\ workerPc' = "exited" <=> workerPc = "exited"
      BY <1>3, EnqueueKeeps DEF TapEnqueues
    <2>2. pc.tap = "emit"
      BY <1>3 DEF TapEnqueues, At
    <2>3. ~stopFlag
      BY <2>2 DEF QuitInv, MicInv, WorkerStops, MicOff, MainDisarmed
    <2>4. workerPc # "exited"
      BY <2>3 DEF ModesInv, Shutdown
    <2> QED
      BY <1>1, <1>2, <2>1, <2>4, OthersKeepQuitInv
  <1>4. CASE UNCHANGED workerVars
    BY <1>1, <1>2, <1>4, OthersKeepQuitInv DEF workerVars
  <1> QED
    BY <1>3, <1>4 DEF TapBlock, TapHandler, TapDictates, TapBuffers, TapDiscards,
                      TapFlushes, TapFrame

\* The mic-control thread enqueues nothing.
LEMMA MicThreadQuitInv ==
  ASSUME ControllerInv, QuitInv, MicThread
  PROVE  QuitInv'
  <1>0. pc \in Pcs
    BY DEF ControllerInv, OwnTypeOK, PcTypeOK
  <1>1. UNCHANGED <<workerVars, sessionVars>>
    BY DEF MicThread, MicWakes, MicChecks, MicStarts, MicStartFailed, MicCancels,
           MicVerifies, MicUndoes, MicFrame
  <1>2. UNCHANGED pc.main
    BY <1>0, MicMovesAlone
    DEF MicThread, MicWakes, MicChecks, MicStarts, MicStartFailed, MicCancels,
        MicVerifies, MicUndoes
  <1> QED
    BY <1>1, <1>2, OthersKeepQuitInv DEF workerVars, sessionVars

\* The worker exits with an empty queue; its callback detaches the writer, too.
LEMMA WorkerQuitInv ==
  ASSUME QuitInv, WorkerHandler \/ (WakeSpuriously /\ UNCHANGED ownVars)
  PROVE  QuitInv'
  <1> USE DEF QuitInv
  <1>1. UNCHANGED <<pc, stopFlag>>
    BY DEF WorkerHandler, WorkerLoop, DictationResult, SessionDoneCloses,
           SessionDoneFinalizes, WorkerFrame, ownVars, Sleep, WakeSpuriously, Exit, Pop,
           TakeSessionDone, CheckDone, TranscribeFails, TranscribeDictation,
           TranscribeSession, SetOutputWriter, SessionDoneReturns, Finish, lockedVars
  <1>2. \/ UNCHANGED <<sessionWriter, outputWriter>>
        \/ sessionWriter' = NoWriter /\ outputWriter' = NoWriter
    BY DEF WorkerHandler, WorkerLoop, DictationResult, SessionDoneCloses,
           SessionDoneFinalizes, ownVars, sessionVars, Sleep, WakeSpuriously, Exit, Pop,
           TakeSessionDone, CheckDone, TranscribeFails, TranscribeDictation,
           TranscribeSession, SetOutputWriter, SessionDoneReturns, Finish, lockedVars
  <1>3. workerPc' = "exited" => queue' = <<>>
    <2>1. CASE Exit
      BY <2>1 DEF Exit, StopAndEmpty, lockedVars
    <2>2. CASE SessionDoneCloses
      BY <2>2 DEF SessionDoneCloses, SetOutputWriter
    <2> QED
      BY <2>1, <2>2
      DEF WorkerHandler, WorkerLoop, DictationResult, SessionDoneFinalizes, Sleep,
          WakeSpuriously, Pop, TakeSessionDone, CheckDone, TranscribeFails,
          TranscribeDictation, TranscribeSession, SessionDoneReturns, GoTo
  <1> QED
    BY <1>1, <1>2, <1>3

\* In a session the worker has not been told to stop.
LEMMA SessionQuitInv ==
  ASSUME ControllerInv, ModesInv, QuitInv, StartSession \/ StopSession \/ SessionHandler
  PROVE  QuitInv'
  <1>0. pc \in Pcs
    BY DEF ControllerInv, OwnTypeOK, PcTypeOK
  <1> DEFINE Here  == {"idle", "attach", "tryRecord", "detach", "startMic",
                       "micFailed", "stopMic", "flush", "emit", "arm"}
  <1>1. \E from, to \in Here : At("main", from, to)
    BY DEF StartSession, StopSession, SessionHandler, AttachWriter,
           TryRecord, DetachWriter, SessionStartsMic, SessionMicFailed, SessionStopsMic,
           SessionFlushesTail, SessionEnqueuesTail, SessionArms, ForceFlush
  <1>2. pc.main \in Here /\ pc'.main \in Here
    BY <1>0, <1>1, MainMovesAlone
  <1>3. ~stopFlag /\ workerPc # "exited"
    BY <1>2 DEF QuitInv, WorkerStops, ModesInv, Shutdown
  <1>4. UNCHANGED stopFlag /\ (workerPc' = "exited" <=> workerPc = "exited")
    <2>1. CASE SessionEnqueuesTail
      BY <2>1, EnqueueKeeps DEF SessionEnqueuesTail
    <2>2. CASE SessionArms
      BY <2>2, NotifyWakes DEF SessionArms, SetOnSessionDone
    <2>3. CASE AttachWriter \/ DetachWriter
      BY <2>3 DEF AttachWriter, DetachWriter, SetOutputWriter
    <2>4. CASE UNCHANGED workerVars
      BY <2>4 DEF workerVars
    <2> QED
      BY <2>1, <2>2, <2>3, <2>4
      DEF StartSession, StopSession, SessionHandler, TryRecord,
          SessionStartsMic, SessionMicFailed, SessionStopsMic, SessionFlushesTail
  <1> QED
    BY <1>2, <1>3, <1>4 DEF QuitInv

\* stop() tells the worker last, and detaches the writer when it has exited.
LEMMA StopQuitInv ==
  ASSUME ControllerInv, ModesInv, QuitInv, Quit \/ QuitHandler
  PROVE  QuitInv'
  <1> USE DEF QuitInv, WorkerStops
  <1>0. pc \in Pcs
    BY DEF ControllerInv, OwnTypeOK, PcTypeOK
  <1> DEFINE Here == {"idle", "quit", "quitJoin", "quitMic", "quitDisarm", "quitFlush",
                      "quitEmit", "quitWorker"}
  <1>1. CASE \/ Quit \/ QuitStopsMicThread \/ QuitJoinsMicThread \/ QuitStopsMic
             \/ QuitDisarms \/ QuitFlushesTail \/ QuitEnqueuesTail
    <2>1. \E from, to \in Here : At("main", from, to)
      BY <1>1 DEF Quit, QuitStopsMicThread, QuitJoinsMicThread, QuitStopsMic, QuitDisarms,
                  QuitFlushesTail, QuitEnqueuesTail, ForceFlush
    <2>2. pc.main \in Here /\ pc'.main \in Here
      BY <1>0, <2>1, MainMovesAlone
    <2>3. ~stopFlag /\ workerPc # "exited"
      BY <2>2 DEF ModesInv, Shutdown
    <2>4. UNCHANGED stopFlag /\ (workerPc' = "exited" <=> workerPc = "exited")
      <3>1. CASE QuitEnqueuesTail
        BY <3>1, EnqueueKeeps DEF QuitEnqueuesTail
      <3>2. CASE QuitDisarms
        BY <3>2, NotifyWakes DEF QuitDisarms, SetOnSessionDone
      <3>3. CASE UNCHANGED workerVars
        BY <3>3 DEF workerVars
      <3> QED
        BY <1>1, <3>1, <3>2, <3>3 DEF Quit, QuitStopsMicThread, QuitJoinsMicThread,
           QuitStopsMic, QuitFlushesTail
    <2> QED
      BY <2>2, <2>3, <2>4
  <1>2. CASE QuitStopsWorker
    <2>1. pc.main = "quitWorker" /\ pc'.main = "quitWorkerJoin"
      BY <1>0, <1>2, MainMovesAlone DEF QuitStopsWorker
    <2>2. workerPc # "exited" /\ (workerPc' = "exited" <=> workerPc = "exited")
      BY <1>2, <2>1, NotifyWakes DEF QuitStopsWorker, RequestStop, ModesInv, Shutdown
    <2> QED
      BY <2>1, <2>2
  <1>3. CASE QuitJoinsWorker
    <2>1. pc'.main = "quitClose" /\ UNCHANGED <<queue, workerPc>>
      BY <1>0, <1>3, MainMovesAlone DEF QuitJoinsWorker, Join
    <2> QED
      BY <2>1
  <1>4. CASE QuitClosesWriter
    <2>1. /\ pc'.main = "quitReset" /\ UNCHANGED <<queue, workerPc>>
          /\ sessionWriter' = NoWriter /\ outputWriter' = NoWriter
      BY <1>0, <1>4, MainMovesAlone DEF QuitClosesWriter, SetOutputWriter
    <2> QED
      BY <2>1
  <1>5. CASE QuitResets
    <2>1. /\ pc.main = "quitReset" /\ pc'.main = "stopped"
          /\ UNCHANGED <<queue, workerPc, sessionWriter, outputWriter>>
      BY <1>0, <1>5, MainMovesAlone DEF QuitResets, workerVars, sessionVars
    <2> QED
      BY <2>1
  <1> QED
    BY <1>1, <1>2, <1>3, <1>4, <1>5 DEF QuitHandler

\* Every step.
LEMMA QuitInvStep ==
  ASSUME ControllerInv, ModesInv, MicInv, QuitInv, [Next]_vars
  PROVE  QuitInv'
  <1>1. CASE UNCHANGED vars
    BY <1>1, OthersKeepQuitInv DEF vars, ownVars, sessionVars, workerVars
  <1> QED
    BY <1>1, HotkeyQuitInv, TapQuitInv, MicThreadQuitInv, WorkerQuitInv, SessionQuitInv,
       StopQuitInv DEF Next, Environment, MainHandler

-----------------------------------------------------------------------------
\* The invariants so far, for any controller.
LEMMA ModesInvariant == SafetySpec => [](ControllerInv /\ WorkerInv /\ ModesInv)
  <1>1. SafetySpec => []ControllerInv
    BY ControllerInvariant
  <1>2. SafetySpec => []WorkerInv
    BY ControllerUsesWorker, WorkerInvariant, PTL
  <1>3. ControllerInv /\ ControllerInv' /\ WorkerInv /\ ModesInv /\ [Next]_vars => ModesInv'
    BY ModesNext DEF ModesStep
  <1> QED
    BY <1>1, <1>2, <1>3, ModesInitInv, PTL DEF SafetySpec

\* And the microphone's.
LEMMA MicInvariant ==
  ASSUME TapDrains
  PROVE  SafetySpec => []MicInv
  <1>1. ControllerInv /\ ModesInv /\ MicInv /\ [Next]_vars => MicInv'
    BY MicInvStep
  <1> QED
    BY <1>1, ModesInvariant, MicInitInv, PTL DEF SafetySpec

\* The end of stop(), of any controller whose capture.stop() waits.
LEMMA QuitInvariant ==
  ASSUME TapDrains
  PROVE  SafetySpec => []QuitInv
  <1>1. ControllerInv /\ ModesInv /\ MicInv /\ QuitInv /\ [Next]_vars => QuitInv'
    BY QuitInvStep
  <1> QED
    BY <1>1, ModesInvariant, MicInvariant, QuitInitInv, PTL DEF SafetySpec

\* app_controller.cpp:105, :282: when capture.stop() waits for the block being
\* delivered, a dictation in the worker is of the last press and of nothing else,
\* it is the only one, and the mode waits for it: for any number of presses and
\* sessions, with a microphone that may fail to start at any of them.
THEOREM OneDictationAlways ==
  ASSUME TapDrains
  PROVE  SafetySpec => []OneDictation
  <1>1. ControllerInv /\ WorkerInv /\ ModesInv /\ MicInv /\ DictInv /\ [Next]_vars
          => DictInv'
    BY DictInvStep
  <1>2. SafetySpec => []DictInv
    BY <1>1, ModesInvariant, MicInvariant, DictInitInv, PTL DEF SafetySpec
  <1>3. ModesInv /\ DictInv => OneDictation
    BY DEF ModesInv, Ownership, DictInv, OneDictation, DictationWaits
  <1> QED
    BY <1>2, <1>3, ModesInvariant, PTL

\* app_controller.cpp:335: stop() returns with both threads joined, the microphone
\* off, every chunk settled and the session's writer closed, whatever the hotkey,
\* the tap and the drain callback were doing when it was called.
THEOREM QuitLeavesNothingAlways ==
  ASSUME TapDrains
  PROVE  SafetySpec => []QuitLeavesNothing
  <1>1. WorkerInv /\ ModesInv /\ MicInv /\ QuitInv => QuitLeavesNothing
    <2> SUFFICES ASSUME WorkerInv, ModesInv, MicInv, QuitInv, pc.main = "stopped"
                 PROVE  /\ AllSettled
                        /\ ~micRunning /\ pc.mic = "exited"
                        /\ outputWriter = NoWriter /\ sessionWriter = NoWriter
      BY DEF QuitLeavesNothing
    <2>1. workerPc = "exited" /\ queue = <<>>
      BY DEF ModesInv, Shutdown, QuitInv
    <2>2. AllSettled
      BY <2>1, EmptyMeansSettled
    <2> QED
      BY <2>2 DEF MicInv, MicJoined, MicOff, MainDisarmed, QuitInv
  <1> QED
    BY <1>1, QuitInvariant, ModesInvariant, MicInvariant, PTL

-----------------------------------------------------------------------------
(***************************************************************************)
(* What each thread leaves alone.                                          *)
(***************************************************************************)

\* The hotkey thread.
LEMMA HotkeyLeaves ==
  ASSUME pc \in Pcs, hand \in Hands, HotkeyDown \/ HotkeyUp \/ HotkeyHandler
  PROVE  /\ UNCHANGED <<pc.main, pc.mic, pc.tap, hand.main, hand.tap, recorded,
                        shuttingDown, sessionVars, assembler, writerClosed, outputWriter,
                        item, itemWriter>>
         /\ workerPc' = "sessionDone" <=> workerPc = "sessionDone"
         /\ workerPc' = "transcribe" <=> workerPc = "transcribe"
  <1>1. CASE HotkeyEnqueues
    BY <1>1, HotkeyMovesAlone, TakesAlone, NotifyWakes
    DEF HotkeyEnqueues, Enqueue, modeVars, micVars, sessionVars, audioVars
  <1>2. CASE HotkeyTakesAudio \/ HotkeyDiscards
    BY <1>2, HotkeyMovesAlone, TakesAlone
    DEF HotkeyTakesAudio, HotkeyDiscards, modeVars, micVars, sessionVars, audioVars,
        workerVars
  <1>3. CASE HotkeyDown \/ HotkeyUp \/ HotkeyWantsMic \/ HotkeyRequestsMic
             \/ HotkeyUnwantsMic \/ HotkeyStopsMic
    BY <1>3, HotkeyMovesAlone
    DEF HotkeyDown, HotkeyUp, HotkeyWantsMic, HotkeyRequestsMic, HotkeyUnwantsMic,
        HotkeyStopsMic, StopMic, modeVars, micVars, sessionVars, audioVars, workerVars
  <1> QED
    BY <1>1, <1>2, <1>3 DEF HotkeyHandler

\* The mic-control thread.
LEMMA MicLeaves ==
  ASSUME pc \in Pcs, MicThread
  PROVE  /\ UNCHANGED <<workerVars, recorded, sessionVars, audioVars, hand, writerClosed,
                        pc.main, pc.hotkey, pc.tap, micWanted, shuttingDown>>
         /\ mode' = mode \/ (pc.mic = "cancel" /\ mode = "Dictating" /\ mode' = "Idle")
  BY MicMovesAlone
  DEF MicThread, MicWakes, MicChecks, MicStarts, MicStartFailed, MicCancels,
      MicVerifies, MicUndoes, MicFrame, StartMic, StopMic, micVars

\* The tap.
LEMMA TapLeaves ==
  ASSUME pc \in Pcs, hand \in Hands, TapBlock \/ TapHandler
  PROVE  /\ UNCHANGED <<pc.main, pc.hotkey, pc.mic, hand.main, hand.hotkey, mode, recorded,
                        micVars, sessionVars, writerClosed, outputWriter, item,
                        itemWriter>>
         /\ workerPc' = "sessionDone" <=> workerPc = "sessionDone"
         /\ workerPc' = "transcribe" <=> workerPc = "transcribe"
  <1>1. CASE TapEnqueues
    BY <1>1, TapMovesAlone, TakesAlone, NotifyWakes
    DEF TapEnqueues, Enqueue, modeVars, micVars, sessionVars, audioVars
  <1>2. CASE TapBlock
    <2>1. At("tap", "idle", "dictate") \/ At("tap", "idle", "feed")
      BY <1>2 DEF TapBlock
    <2> QED
      BY <1>2, <2>1, TapMovesAlone, TakesAlone
      DEF TapBlock, TapFrame, modeVars, micVars, sessionVars, workerVars
  <1>3. ASSUME NEW long \in BOOLEAN,
               TapDictates(long) \/ TapBuffers(long) \/ TapDiscards \/ TapFlushes
        PROVE  /\ UNCHANGED <<pc.main, pc.hotkey, pc.mic, hand.main, hand.hotkey>>
               /\ TapFrame
    BY <1>3, TapMovesAlone, TakesAlone DEF TapDictates, TapBuffers, TapDiscards, TapFlushes
  <1> QED
    BY <1>1, <1>2, <1>3 DEF TapHandler, TapFrame, modeVars, micVars, sessionVars, workerVars

\* The worker.
LEMMA WorkerLeaves ==
  ASSUME WorkerHandler \/ (WakeSpuriously /\ UNCHANGED ownVars)
  PROVE  UNCHANGED <<pc, hand, recorded, micVars, sessions, overlapped, audioVars>>
  BY DEF WorkerHandler, DictationResult, SessionDoneCloses, SessionDoneFinalizes,
         WorkerFrame, ownVars, modeVars, sessionVars

\* And the modes it ends.
LEMMA WorkerEnds ==
  ASSUME ModesInv, WorkerHandler \/ (WakeSpuriously /\ UNCHANGED ownVars)
  PROVE  \/ mode' = mode
         \/ mode = "Transcribing" /\ mode' = "Idle"
         \/ /\ SessionDoneFinalizes /\ mode = "Finalizing" /\ mode' = "Idle"
            /\ workerPc = "sessionDone" /\ pc.main \notin MainFinishes
  <1>1. CASE DictationResult
    <2>1. item.dictation /\ workerPc = "transcribe"
      BY <1>1 DEF DictationResult, TranscribeDictation, GoTo
    <2>2. mode = "Transcribing"
      BY <2>1 DEF ModesInv, Ownership, DictationWaits, InFlight
    <2> QED
      BY <1>1, <2>2 DEF DictationResult, Store
  <1>2. CASE SessionDoneFinalizes
    <2>1. workerPc = "sessionDone"
      BY <1>2 DEF SessionDoneFinalizes, SessionDoneReturns, GoTo
    <2> QED
      BY <1>2, <2>1 DEF SessionDoneFinalizes, Store, ModesInv, Ownership, SessionEnds
  <1>3. CASE SessionDoneCloses \/ (WorkerLoop /\ UNCHANGED ownVars)
             \/ (WakeSpuriously /\ UNCHANGED ownVars)
    BY <1>3 DEF SessionDoneCloses, ownVars, modeVars
  <1> QED
    BY <1>1, <1>2, <1>3 DEF WorkerHandler

\* Main.
LEMMA MainLeaves ==
  ASSUME pc \in Pcs, hand \in Hands,
         StartSession \/ StopSession \/ SessionHandler \/ Quit \/ QuitHandler
  PROVE  /\ UNCHANGED <<pc.hotkey, pc.mic, pc.tap, hand.hotkey, hand.tap, dictBuffer,
                        presses, blocks, writerClosed, item, itemWriter>>
         /\ workerPc' = "sessionDone" <=> workerPc = "sessionDone"
         /\ workerPc' = "transcribe" <=> workerPc = "transcribe"
  <1>1. \E from, to \in MainPcs : At("main", from, to)
    BY DEF MainPcs, StartSession, StopSession, SessionHandler, AttachWriter,
           TryRecord, DetachWriter, SessionStartsMic, SessionMicFailed, SessionStopsMic,
           SessionFlushesTail, SessionEnqueuesTail, SessionArms, Quit, QuitHandler,
           QuitStopsMicThread, QuitJoinsMicThread, QuitStopsMic, QuitDisarms,
           QuitFlushesTail, QuitEnqueuesTail, QuitStopsWorker, QuitJoinsWorker,
           QuitClosesWriter, QuitResets, ForceFlush
  <1>2. UNCHANGED <<pc.hotkey, pc.mic, pc.tap>>
    BY <1>1, MainMovesAlone
  <1>3. UNCHANGED hand \/ \E audio : Take("main", audio)
    BY DEF StartSession, StopSession, SessionHandler, AttachWriter,
           TryRecord, DetachWriter, SessionStartsMic, SessionMicFailed,
           SessionStopsMic, SessionFlushesTail, SessionEnqueuesTail, SessionArms, Quit,
           QuitHandler, QuitStopsMicThread, QuitJoinsMicThread, QuitStopsMic,
           QuitDisarms, QuitFlushesTail, QuitEnqueuesTail, QuitStopsWorker,
           QuitJoinsWorker, QuitClosesWriter, QuitResets, ForceFlush
  <1>4. UNCHANGED <<hand.hotkey, hand.tap>>
    BY <1>3, TakesAlone
  <1>5. UNCHANGED <<dictBuffer, presses, blocks, writerClosed>>
    BY DEF StartSession, StopSession, SessionHandler, AttachWriter,
           TryRecord, DetachWriter, SessionStartsMic, SessionMicFailed,
           SessionStopsMic, SessionFlushesTail, SessionEnqueuesTail, SessionArms, Quit,
           QuitHandler, QuitStopsMicThread, QuitJoinsMicThread, QuitStopsMic,
           QuitDisarms, QuitFlushesTail, QuitEnqueuesTail, QuitStopsWorker,
           QuitJoinsWorker, QuitClosesWriter, QuitResets, audioVars
  <1>6. /\ UNCHANGED <<item, itemWriter>>
        /\ UNCHANGED workerPc \/ Notify
    BY DEF StartSession, StopSession, SessionHandler, AttachWriter,
           TryRecord, DetachWriter, SessionStartsMic, SessionMicFailed,
           SessionStopsMic, SessionFlushesTail, SessionEnqueuesTail, SessionArms, Quit,
           QuitHandler, QuitStopsMicThread, QuitJoinsMicThread, QuitStopsMic,
           QuitDisarms, QuitFlushesTail, QuitEnqueuesTail, QuitStopsWorker,
           QuitJoinsWorker, QuitClosesWriter, QuitResets, workerVars, Enqueue,
           SetOutputWriter, SetOnSessionDone, RequestStop, Join
  <1> QED
    BY <1>2, <1>4, <1>5, <1>6, NotifyWakes

-----------------------------------------------------------------------------
(***************************************************************************)
(* The writer of a session.                                                *)
(***************************************************************************)

\* Where startSession() has not entered Recording, where it has the writer, and where
\* the worker may have it as well.
Attaching == {"attach", "tryRecord"}
Attached  == {"tryRecord", "detach"}
Arriving  == Attaching \union Attached
Sessional == {"Recording", "Finalizing"}

\* A writer's place holds what it should, or nothing once somebody has emptied it.
Holds(writer, n, emptied) == writer = n \/ (emptied /\ writer = NoWriter)

\* main attaches a writer and detaches it again while no session is on, or with
\* overlapped set, and only main begins one.  A session keeps the writer it began with
\* until the worker's callback, stop() or an overlapping startSession() closes it.
WriterInv ==
  /\ pc.main \in Arriving /\ mode \in Sessional => overlapped
  /\ pc.main \in Attaching => Holds(sessionWriter, sessions, overlapped)
  /\ \/ pc.main = "tryRecord"
     \/ pc.main = "detach" /\ mode \in Sessional
     => Holds(outputWriter, sessions, overlapped)
  /\ writerClosed => workerPc = "sessionDone"
  /\ mode \in Sessional /\ pc.main \notin Attached \union {"quitReset"} =>
       Holds(outputWriter, recorded, overlapped \/ writerClosed)

\* To begin with no session is on.
LEMMA WriterInitInv == Init => WriterInv
  BY DEF Init, WriterInv, Arriving, Attaching, Attached, Sessional

\* A step that begins no session, and leaves the writer alone.
LEMMA OthersKeepWriterInv ==
  ASSUME WriterInv,
         UNCHANGED <<pc.main, recorded, sessionWriter, sessions, overlapped, writerClosed,
                     outputWriter>>,
         workerPc' = "sessionDone" <=> workerPc = "sessionDone",
         mode' = mode \/ mode' \notin Sessional
  PROVE  WriterInv'
  BY DEF WriterInv, Holds

\* The hotkey thread, the mic-control thread and the tap.
LEMMA PressKeepsWriterInv ==
  ASSUME ControllerInv, WriterInv,
         \/ HotkeyDown \/ HotkeyUp \/ HotkeyHandler
         \/ MicThread \/ TapBlock \/ TapHandler
  PROVE  WriterInv'
  <1>0. pc \in Pcs /\ hand \in Hands
    BY DEF ControllerInv, OwnTypeOK, PcTypeOK
  <1>1. CASE HotkeyDown \/ HotkeyUp \/ HotkeyHandler
    <2>1. mode' = mode \/ mode' \notin Sessional
      BY <1>1 DEF HotkeyDown, HotkeyUp, HotkeyHandler, HotkeyWantsMic, HotkeyRequestsMic,
         HotkeyUnwantsMic, HotkeyStopsMic, HotkeyTakesAudio, HotkeyDiscards,
         HotkeyEnqueues, modeVars, CAS, Store, Sessional
    <2> QED
      BY <1>0, <1>1, <2>1, HotkeyLeaves, OthersKeepWriterInv DEF sessionVars
  <1>2. CASE MicThread
    BY <1>0, <1>2, MicLeaves, OthersKeepWriterInv DEF workerVars, sessionVars, Sessional
  <1>3. CASE TapBlock \/ TapHandler
    BY <1>0, <1>3, TapLeaves, OthersKeepWriterInv DEF sessionVars
  <1> QED
    BY <1>1, <1>2, <1>3

\* The worker's callback closes the writer of the session it ends, and no other.
LEMMA WorkerWriterInv ==
  ASSUME ModesInv, WriterInv, WorkerHandler \/ (WakeSpuriously /\ UNCHANGED ownVars)
  PROVE  WriterInv'
  <1>1. UNCHANGED <<pc, recorded, sessions, overlapped>>
    BY WorkerLeaves
  <1>2. CASE SessionDoneCloses
    <2>1. /\ workerPc = "sessionDone" /\ workerPc' = "sessionDone" /\ writerClosed'
          /\ outputWriter' = NoWriter /\ sessionWriter' = NoWriter
          /\ mode' = mode
      BY <1>2 DEF SessionDoneCloses, SetOutputWriter
    <2>2. mode \in Sessional
      BY <2>1 DEF ModesInv, Ownership, SessionEnds, Sessional
    <2>3. pc.main \in Arriving => overlapped
      BY <2>2 DEF WriterInv
    <2> QED
      BY <1>1, <2>1, <2>3 DEF WriterInv, Holds, Arriving, Attaching, Attached
  <1>3. CASE SessionDoneFinalizes
    BY <1>1, <1>3 DEF SessionDoneFinalizes, SessionDoneReturns, lockedVars, Store, WriterInv,
                      Holds, Sessional
  <1>4. CASE \/ WorkerLoop /\ UNCHANGED ownVars
             \/ DictationResult
             \/ WakeSpuriously /\ UNCHANGED ownVars
    <2>1. UNCHANGED <<outputWriter, writerClosed, sessionWriter>>
      BY <1>4 DEF ownVars, sessionVars, DictationResult, WorkerLoop, Sleep, WakeSpuriously,
         Exit, Pop, TakeSessionDone, CheckDone, TranscribeFails, TranscribeDictation,
         TranscribeSession, Finish, lockedVars
    <2>2. workerPc = "sessionDone" => workerPc' = "sessionDone"
      BY <1>4 DEF DictationResult, WorkerLoop, Sleep, WakeSpuriously,
         Exit, Pop, TakeSessionDone, CheckDone, TranscribeFails, TranscribeDictation,
         TranscribeSession, GoTo
    <2>3. mode' = mode \/ mode' \notin Sessional
      BY <1>4 DEF DictationResult, Store, ownVars, modeVars, Sessional
    <2> QED
      BY <1>1, <2>1, <2>2, <2>3 DEF WriterInv, Holds
  <1> QED
    BY <1>2, <1>3, <1>4 DEF WorkerHandler

\* Main's steps in a session.
LEMMA SessionWriterInv ==
  ASSUME ControllerInv, ModesInv, WriterInv,
         StartSession \/ StopSession \/ SessionHandler
  PROVE  WriterInv'
  <1> USE DEF WriterInv, Holds, Arriving, Attaching, Attached, Sessional
  <1>0. pc \in Pcs /\ hand \in Hands
    BY DEF ControllerInv, OwnTypeOK, PcTypeOK
  <1>1. /\ UNCHANGED writerClosed
        /\ workerPc' = "sessionDone" <=> workerPc = "sessionDone"
    BY <1>0, MainLeaves
  <1>2. CASE StartSession
    <2>1. /\ pc.main = "idle" /\ pc'.main = "attach"
          /\ sessions' = sessions + 1 /\ sessionWriter' = sessions + 1
          /\ overlapped' = (mode \in {"Recording", "Finalizing"})
          /\ UNCHANGED <<mode, recorded, outputWriter>>
      BY <1>0, <1>2, MainMovesAlone DEF StartSession, modeVars, workerVars
    <2> QED
      BY <1>1, <2>1
  <1>3. CASE AttachWriter
    <2>1. /\ pc.main = "attach" /\ pc'.main = "tryRecord"
          /\ outputWriter' = sessionWriter
          /\ UNCHANGED <<mode, recorded, sessionWriter, sessions, overlapped>>
      BY <1>0, <1>3, MainMovesAlone DEF AttachWriter, SetOutputWriter, modeVars, sessionVars
    <2> QED
      BY <1>1, <2>1
  <1>4. CASE TryRecord
    <2>1. /\ pc.main = "tryRecord" /\ pc'.main \in {"startMic", "detach"}
          /\ \/ pc'.main = "startMic" /\ recorded' = sessions
             \/ pc'.main = "detach" /\ UNCHANGED <<mode, recorded>>
          /\ UNCHANGED <<sessionWriter, sessions, overlapped, outputWriter>>
      <3>1. \/ At("main", "tryRecord", "startMic") /\ recorded' = sessions
            \/ At("main", "tryRecord", "detach") /\ UNCHANGED <<mode, recorded>>
        BY <1>4 DEF TryRecord, modeVars
      <3> QED
        BY <1>0, <1>4, <3>1, MainMovesAlone DEF TryRecord, sessionVars, workerVars
    <2> QED
      BY <1>1, <2>1
  <1>5. CASE DetachWriter
    <2>1. /\ pc.main = "detach" /\ pc'.main = "idle"
          /\ outputWriter' = NoWriter
          /\ UNCHANGED <<mode, overlapped>>
      BY <1>0, <1>5, MainMovesAlone DEF DetachWriter, SetOutputWriter, modeVars
    <2> QED
      BY <1>1, <2>1
  <1>6. CASE SessionMicFailed
    <2>1. /\ pc'.main = "detach" /\ mode' = "Idle"
      BY <1>0, <1>6, MainMovesAlone DEF SessionMicFailed, Store
    <2> QED
      BY <1>1, <2>1
  <1>7. CASE StopSession
    <2>1. /\ pc.main = "idle" /\ pc'.main = "stopMic"
          /\ mode = "Recording" /\ UNCHANGED <<recorded, overlapped, outputWriter>>
      BY <1>0, <1>7, MainMovesAlone DEF StopSession, CAS, sessionVars, workerVars
    <2> QED
      BY <1>1, <2>1
  <1>8. CASE \/ \E ok \in BOOLEAN : SessionStartsMic(ok)
             \/ SessionStopsMic \/ SessionFlushesTail \/ SessionEnqueuesTail \/ SessionArms
    <2>1. UNCHANGED <<mode, recorded, sessionWriter, sessions, overlapped>>
      BY <1>8 DEF SessionStartsMic, SessionStopsMic, SessionFlushesTail, SessionEnqueuesTail,
                  SessionArms, modeVars, sessionVars
    <2>2. UNCHANGED outputWriter
      BY <1>8 DEF SessionStartsMic, SessionStopsMic, SessionFlushesTail, SessionEnqueuesTail,
                  SessionArms, workerVars, Enqueue, SetOnSessionDone
    <2>3. /\ pc.main \in MainStarts \union MainFinishes
          /\ pc'.main \in {"idle", "micFailed", "flush", "emit", "arm"}
      BY <1>0, <1>8, MainMovesAlone
      DEF SessionStartsMic, SessionStopsMic, SessionFlushesTail, ForceFlush,
          SessionEnqueuesTail, SessionArms, MainStarts, MainFinishes
    <2> QED
      BY <1>1, <2>1, <2>2, <2>3 DEF MainStarts, MainFinishes
  <1> QED
    BY <1>2, <1>3, <1>4, <1>5, <1>6, <1>7, <1>8 DEF SessionHandler

\* Main's steps in stop().
LEMMA QuitWriterInv ==
  ASSUME ControllerInv, WriterInv, Quit \/ QuitHandler
  PROVE  WriterInv'
  <1> USE DEF WriterInv, Holds, Arriving, Attaching, Attached, Sessional
  <1>0. pc \in Pcs /\ hand \in Hands
    BY DEF ControllerInv, OwnTypeOK, PcTypeOK
  <1>1. /\ UNCHANGED writerClosed
        /\ workerPc' = "sessionDone" <=> workerPc = "sessionDone"
    BY <1>0, MainLeaves
  <1>2. CASE QuitClosesWriter
    <2>1. pc'.main = "quitReset"
      BY <1>0, <1>2, MainMovesAlone DEF QuitClosesWriter
    <2> QED
      BY <1>1, <2>1
  <1>3. CASE QuitResets
    <2>1. pc'.main = "stopped" /\ mode' = "Idle"
      BY <1>0, <1>3, MainMovesAlone DEF QuitResets, Store
    <2> QED
      BY <1>1, <2>1
  <1>4. CASE \/ Quit \/ QuitStopsMicThread \/ QuitJoinsMicThread \/ QuitStopsMic
             \/ QuitDisarms \/ QuitFlushesTail \/ QuitEnqueuesTail \/ QuitStopsWorker
             \/ QuitJoinsWorker
    <2>1. UNCHANGED <<mode, recorded, overlapped, outputWriter>>
      BY <1>4 DEF Quit, QuitStopsMicThread, QuitJoinsMicThread, QuitStopsMic, QuitDisarms,
         QuitFlushesTail, QuitEnqueuesTail, QuitStopsWorker, QuitJoinsWorker, modeVars,
         sessionVars, workerVars, Enqueue, SetOnSessionDone, RequestStop, Join
    <2> DEFINE Here == {"idle", "quit", "quitJoin", "quitMic", "quitDisarm", "quitFlush",
                        "quitEmit", "quitWorker", "quitWorkerJoin", "quitClose"}
    <2>2. \E from, to \in Here : At("main", from, to)
      BY <1>4 DEF Quit, QuitStopsMicThread, QuitJoinsMicThread, QuitStopsMic, QuitDisarms,
         QuitFlushesTail, ForceFlush, QuitEnqueuesTail, QuitStopsWorker, QuitJoinsWorker
    <2>3. /\ pc'.main \notin Arriving \union {"quitReset"}
          /\ pc.main \notin Arriving \union {"quitReset"}
      BY <1>0, <2>2, MainMovesAlone
    <2> QED
      BY <1>1, <2>1, <2>3
  <1> QED
    BY <1>2, <1>3, <1>4 DEF QuitHandler

\* Every step.
LEMMA WriterInvStep ==
  ASSUME ControllerInv, ModesInv, WriterInv, [Next]_vars
  PROVE  WriterInv'
  <1>1. CASE UNCHANGED vars
    BY <1>1 DEF vars, ownVars, modeVars, sessionVars, workerVars, WriterInv
  <1> QED
    BY <1>1, PressKeepsWriterInv, WorkerWriterInv, SessionWriterInv, QuitWriterInv
    DEF Next, Environment, MainHandler

\* The writer of a session.
LEMMA WriterInvariant == SafetySpec => []WriterInv
  <1>1. ControllerInv /\ ModesInv /\ WriterInv /\ [Next]_vars => WriterInv'
    BY WriterInvStep
  <1> QED
    BY <1>1, ModesInvariant, WriterInitInv, PTL DEF SafetySpec

\* app_controller.h:35 and where it ends: a session that is recording has its own
\* writer in the worker, or startSession() was called with a session under way, and
\* then it has that one or none; in every mode a call may come in, whether or not the
\* microphone starts, and whether or not capture.stop() waits.
THEOREM WriterLostToStartAlways == SafetySpec => []WriterLostToStart
  <1>1. ModesInv /\ WriterInv => WriterLostToStart
    BY DEF ModesInv, Ownership, SessionEnds, WriterInv, Holds, Arriving, Attached, Attaching,
           Sessional, WriterLostToStart
  <1> QED
    BY <1>1, WriterInvariant, ModesInvariant, PTL

-----------------------------------------------------------------------------
(***************************************************************************)
(* A microphone that starts.                                               *)
(***************************************************************************)

\* micWanted is the dictation's, and a microphone that runs has somebody who is
\* going to stop it: the mode's owner, or the mic-control thread, which looks at
\* micWanted once more after it has started it.
MicDuty ==
  /\ pc.mic \notin {"failed", "cancel"} /\ pc.main # "micFailed"
  /\ pc.hotkey \in {"want", "request"} => mode = "Dictating"
  /\ micWanted => ~shuttingDown /\ (mode = "Dictating" \/ pc.hotkey = "unwant")
  /\ micRunning => \/ shuttingDown \/ mode \in {"Dictating", "Recording"}
                   \/ pc.hotkey \in {"unwant", "stopMic"} \/ pc.main = "stopMic"
                   \/ pc.mic \in {"verify", "undo"}

\* To begin with it is off.
LEMMA DutyInit == Init => MicDuty
  BY DEF Init, MicDuty

\* The hotkey thread starts nothing, and stops the microphone on its way.
LEMMA HotkeyDuty ==
  ASSUME ControllerInv, ModesInv, MicDuty, HotkeyDown \/ HotkeyUp \/ HotkeyHandler
  PROVE  MicDuty'
  <1> USE DEF MicDuty
  <1>0. pc \in Pcs /\ hand \in Hands
    BY DEF ControllerInv, OwnTypeOK, PcTypeOK
  <1>1. UNCHANGED <<pc.main, pc.mic, shuttingDown>>
    BY <1>0, HotkeyLeaves
  <1>2. CASE HotkeyDown
    <2>1. /\ pc.hotkey = "idle" /\ pc'.hotkey = "want"
          /\ mode = "Idle" /\ mode' = "Dictating"
          /\ UNCHANGED <<micRunning, micWanted>> /\ ~shuttingDown
      BY <1>0, <1>2, HotkeyMovesAlone DEF HotkeyDown, CAS, micVars
    <2> QED
      BY <1>1, <2>1
  <1>3. CASE HotkeyUp
    <2>1. /\ pc.hotkey = "idle" /\ pc'.hotkey = "unwant" /\ mode = "Dictating"
          /\ UNCHANGED <<micRunning, micWanted>>
      BY <1>0, <1>3, HotkeyMovesAlone DEF HotkeyUp, CAS, micVars
    <2> QED
      BY <1>1, <2>1
  <1>4. CASE HotkeyWantsMic
    <2>1. /\ pc.hotkey = "want" /\ pc'.hotkey = "request"
          /\ UNCHANGED <<mode, micRunning>>
      BY <1>0, <1>4, HotkeyMovesAlone DEF HotkeyWantsMic, modeVars
    <2>2. ~shuttingDown
      BY <2>1 DEF ModesInv, Shutdown
    <2> QED
      BY <1>1, <2>1, <2>2
  <1>5. CASE HotkeyRequestsMic
    <2>1. /\ pc.hotkey = "request" /\ pc'.hotkey = "idle"
          /\ UNCHANGED <<mode, micRunning, micWanted>>
      BY <1>0, <1>5, HotkeyMovesAlone DEF HotkeyRequestsMic, modeVars
    <2> QED
      BY <1>1, <2>1
  <1>6. CASE HotkeyUnwantsMic
    <2>1. /\ pc'.hotkey = "stopMic" /\ ~micWanted' /\ UNCHANGED <<mode, micRunning>>
      BY <1>0, <1>6, HotkeyMovesAlone DEF HotkeyUnwantsMic, modeVars
    <2> QED
      BY <1>1, <2>1
  <1>7. CASE HotkeyStopsMic
    <2>1. /\ pc.hotkey = "stopMic" /\ pc'.hotkey = "take" /\ ~micRunning'
          /\ UNCHANGED <<mode, micWanted>>
      BY <1>0, <1>7, HotkeyMovesAlone DEF HotkeyStopsMic, StopMic, modeVars
    <2> QED
      BY <1>1, <2>1
  <1>8. CASE HotkeyTakesAudio \/ HotkeyDiscards \/ HotkeyEnqueues
    <2>1. /\ pc.hotkey \in {"take", "short", "emit"}
          /\ pc'.hotkey \in {"emit", "short", "idle"}
          /\ UNCHANGED <<micRunning, micWanted>>
      BY <1>0, <1>8, HotkeyMovesAlone
      DEF HotkeyTakesAudio, HotkeyDiscards, HotkeyEnqueues, micVars
    <2>2. mode = "Transcribing"
      BY <2>1 DEF ModesInv, Ownership, HotkeyOwns
    <2> QED
      BY <1>1, <2>1, <2>2
  <1> QED
    BY <1>2, <1>3, <1>4, <1>5, <1>6, <1>7, <1>8 DEF HotkeyHandler

\* The mic-control thread stops what nobody wants any more.
LEMMA MicThreadDuty ==
  ASSUME ~micFailed', ControllerInv, MicDuty, MicThread
  PROVE  MicDuty'
  <1> USE DEF MicDuty
  <1>0. pc \in Pcs
    BY DEF ControllerInv, OwnTypeOK, PcTypeOK
  <1>1. UNCHANGED <<pc.main, pc.hotkey, mode, micWanted, shuttingDown>>
    BY <1>0, MicLeaves
  <1>2. CASE MicWakes \/ MicChecks
    <2>1. /\ pc.mic \in {"wait", "check"} /\ pc'.mic \in {"exited", "check", "start", "wait"}
          /\ UNCHANGED micRunning
      BY <1>0, <1>2, MicMovesAlone DEF MicWakes, MicChecks, micVars
    <2> QED
      BY <1>1, <2>1
  <1>3. ASSUME NEW ok \in BOOLEAN, MicStarts(ok) PROVE MicDuty'
    <2>1. pc'.mic = "verify"
      BY <1>0, <1>3, MicMovesAlone DEF MicStarts, StartMic
    <2> QED
      BY <1>1, <2>1
  <1>4. CASE MicVerifies
    <2>1. /\ pc'.mic = (IF micWanted /\ ~shuttingDown THEN "wait" ELSE "undo")
          /\ UNCHANGED micRunning
      BY <1>0, <1>4, MicMovesAlone DEF MicVerifies, MicStillWanted, micVars
    <2> QED
      BY <1>1, <2>1
  <1>5. CASE MicUndoes
    <2>1. pc'.mic = "wait" /\ ~micRunning'
      BY <1>0, <1>5, MicMovesAlone DEF MicUndoes, StopMic
    <2> QED
      BY <1>1, <2>1
  <1>6. CASE MicStartFailed \/ MicCancels
    BY <1>6 DEF MicStartFailed, MicCancels, At
  <1> QED
    BY <1>2, <1>3, <1>4, <1>5, <1>6 DEF MicThread

\* The tap and the worker do not touch the microphone.
LEMMA OthersDuty ==
  ASSUME ControllerInv, ModesInv, MicDuty,
         \/ TapBlock \/ TapHandler
         \/ WorkerHandler \/ (WakeSpuriously /\ UNCHANGED ownVars)
  PROVE  MicDuty'
  <1>0. pc \in Pcs /\ hand \in Hands
    BY DEF ControllerInv, OwnTypeOK, PcTypeOK
  <1>1. CASE TapBlock \/ TapHandler
    BY <1>0, <1>1, TapLeaves DEF MicDuty, micVars
  <1>2. CASE WorkerHandler \/ (WakeSpuriously /\ UNCHANGED ownVars)
    BY <1>2, WorkerLeaves, WorkerEnds DEF MicDuty, micVars
  <1> QED
    BY <1>1, <1>2

\* Main begins a session with the microphone on, and ends it with the microphone off.
LEMMA SessionDuty ==
  ASSUME ~micFailed', ControllerInv, ModesInv, MicDuty,
         StartSession \/ StopSession \/ SessionHandler
  PROVE  MicDuty'
  <1> USE DEF MicDuty
  <1>0. pc \in Pcs /\ hand \in Hands
    BY DEF ControllerInv, OwnTypeOK, PcTypeOK
  <1>1. UNCHANGED <<pc.hotkey, pc.mic>>
    BY <1>0, MainLeaves
  <1>2. CASE \/ AttachWriter \/ DetachWriter
             \/ SessionFlushesTail \/ SessionEnqueuesTail \/ SessionArms
    <2>1. UNCHANGED <<mode, micRunning, micWanted, shuttingDown>>
      BY <1>2 DEF AttachWriter, DetachWriter, SessionFlushesTail,
                  SessionEnqueuesTail, SessionArms, modeVars, micVars
    <2>2. \/ At("main", "attach", "tryRecord")
          \/ At("main", "detach", "idle") \/ At("main", "flush", "emit")
          \/ At("main", "flush", "arm") \/ At("main", "emit", "arm")
          \/ At("main", "arm", "idle")
      BY <1>2 DEF AttachWriter, DetachWriter, SessionFlushesTail, ForceFlush,
                  SessionEnqueuesTail, SessionArms
    <2>3. pc.main # "stopMic" /\ pc'.main # "micFailed"
      BY <1>0, <2>2, MainMovesAlone
    <2> QED
      BY <1>1, <2>1, <2>3
  <1>3. CASE StartSession
    <2>1. /\ pc.main = "idle" /\ pc'.main = "attach" /\ ~micWanted'
          /\ UNCHANGED <<mode, micRunning, shuttingDown>>
      BY <1>0, <1>3, MainMovesAlone DEF StartSession, modeVars
    <2> QED
      BY <1>1, <2>1
  <1>4. CASE TryRecord
    <2>1. /\ pc.main = "tryRecord" /\ pc'.main \in {"startMic", "detach"}
          /\ mode' = mode \/ (mode = "Idle" /\ mode' = "Recording")
          /\ UNCHANGED <<micRunning, micWanted, shuttingDown>>
      <3>1. \/ At("main", "tryRecord", "startMic")
            \/ At("main", "tryRecord", "detach")
        BY <1>4 DEF TryRecord
      <3> QED
        BY <1>0, <1>4, <3>1, MainMovesAlone DEF TryRecord, CAS, modeVars, micVars
    <2> QED
      BY <1>1, <2>1
  <1>5. ASSUME NEW ok \in BOOLEAN, SessionStartsMic(ok) PROVE MicDuty'
    <2>1. /\ pc.main = "startMic" /\ pc'.main = "idle"
          /\ UNCHANGED <<mode, micWanted, shuttingDown>>
      BY <1>0, <1>5, MainMovesAlone DEF SessionStartsMic, StartMic, modeVars
    <2>2. mode = "Recording"
      BY <2>1 DEF ModesInv, Ownership, MainStarts
    <2> QED
      BY <1>1, <2>1, <2>2
  <1>6. CASE SessionMicFailed
    BY <1>6 DEF SessionMicFailed, At
  <1>7. CASE StopSession
    <2>1. /\ pc'.main = "stopMic" /\ mode = "Recording"
          /\ UNCHANGED <<micRunning, micWanted, shuttingDown>>
      BY <1>0, <1>7, MainMovesAlone DEF StopSession, CAS, micVars
    <2> QED
      BY <1>1, <2>1
  <1>8. CASE SessionStopsMic
    <2>1. /\ pc'.main = "flush" /\ ~micRunning' /\ UNCHANGED <<mode, micWanted, shuttingDown>>
      BY <1>0, <1>8, MainMovesAlone DEF SessionStopsMic, StopMic, modeVars
    <2> QED
      BY <1>1, <2>1
  <1> QED
    BY <1>2, <1>3, <1>4, <1>5, <1>6, <1>7, <1>8 DEF SessionHandler

\* stop() takes the wish away first, and the hotkey thread is at rest.
LEMMA QuitDuty ==
  ASSUME ControllerInv, ModesInv, MicDuty, Quit \/ QuitHandler
  PROVE  MicDuty'
  <1> USE DEF MicDuty
  <1>0. pc \in Pcs /\ hand \in Hands
    BY DEF ControllerInv, OwnTypeOK, PcTypeOK
  <1>1. UNCHANGED <<pc.hotkey, pc.mic>> /\ pc.hotkey = "idle"
    <2>1. UNCHANGED <<pc.hotkey, pc.mic>>
      BY <1>0, MainLeaves
    <2>2. CASE Quit
      BY <2>1, <2>2 DEF Quit
    <2>3. CASE QuitHandler
      <3>1. pc.main \in MainQuits
        BY <2>3 DEF QuitHandler, QuitStopsMicThread, QuitJoinsMicThread, QuitStopsMic,
           QuitDisarms, QuitFlushesTail, ForceFlush, QuitEnqueuesTail, QuitStopsWorker,
           QuitJoinsWorker, QuitClosesWriter, QuitResets, At, MainQuits, MainDisarmed
      <3> QED
        BY <2>1, <3>1 DEF ModesInv, Shutdown
    <2> QED
      BY <2>1, <2>2, <2>3
  <1>2. shuttingDown' /\ ~micWanted'
    <2>1. CASE Quit
      BY <2>1 DEF Quit
    <2>2. CASE QuitHandler
      <3>1. pc.main \in MainQuits
        BY <2>2 DEF QuitHandler, QuitStopsMicThread, QuitJoinsMicThread, QuitStopsMic,
           QuitDisarms, QuitFlushesTail, ForceFlush, QuitEnqueuesTail, QuitStopsWorker,
           QuitJoinsWorker, QuitClosesWriter, QuitResets, At, MainQuits, MainDisarmed
      <3>2. UNCHANGED <<shuttingDown, micWanted>>
        BY <2>2 DEF QuitHandler, QuitStopsMicThread, QuitJoinsMicThread, QuitStopsMic,
           QuitDisarms, QuitFlushesTail, QuitEnqueuesTail, QuitStopsWorker,
           QuitJoinsWorker, QuitClosesWriter, QuitResets, StopMic, micVars
      <3> QED
        BY <3>1, <3>2 DEF ModesInv, Shutdown
    <2> QED
      BY <2>1, <2>2
  <1> DEFINE Stops == {"idle", "quit", "quitJoin", "quitMic", "quitDisarm", "quitFlush",
                       "quitEmit", "quitWorker", "quitWorkerJoin", "quitClose",
                       "quitReset", "stopped"}
  <1>3. \E from, to \in Stops : At("main", from, to)
    BY DEF Quit, QuitHandler, QuitStopsMicThread, QuitJoinsMicThread, QuitStopsMic,
        QuitDisarms, QuitFlushesTail, ForceFlush, QuitEnqueuesTail, QuitStopsWorker,
        QuitJoinsWorker, QuitClosesWriter, QuitResets
  <1>4. pc'.main # "micFailed"
    BY <1>0, <1>3, MainMovesAlone
  <1> QED
    BY <1>1, <1>2, <1>4

\* Every step.
LEMMA DutyStep ==
  ASSUME ~micFailed', ControllerInv, ModesInv, MicDuty, [Next]_vars
  PROVE  MicDuty'
  <1>1. CASE UNCHANGED vars
    BY <1>1 DEF vars, ownVars, modeVars, micVars, MicDuty
  <1> QED
    BY <1>1, HotkeyDuty, MicThreadDuty, OthersDuty, SessionDuty, QuitDuty
    DEF Next, Environment, MainHandler

\* A microphone that has failed has failed for good.
LEMMA FailedStays ==
  ASSUME [Next]_vars, micFailed
  PROVE  micFailed'
  <1>1. CASE UNCHANGED vars
    BY <1>1 DEF vars, ownVars, micVars
  <1>2. CASE HotkeyDown \/ HotkeyUp \/ HotkeyHandler
    BY <1>2 DEF HotkeyDown, HotkeyUp, HotkeyHandler, HotkeyWantsMic, HotkeyRequestsMic,
       HotkeyUnwantsMic, HotkeyStopsMic, StopMic, HotkeyTakesAudio, HotkeyDiscards,
       HotkeyEnqueues, micVars
  <1>3. CASE MicThread
    BY <1>3 DEF MicThread, MicWakes, MicChecks, MicStarts, StartMic, MicStartFailed,
       MicCancels, MicVerifies, MicUndoes, StopMic, micVars
  <1>4. CASE TapBlock \/ TapHandler
    BY <1>4 DEF TapBlock, TapHandler, TapDictates, TapBuffers, TapDiscards, TapFlushes,
       TapEnqueues, TapFrame, micVars
  <1>5. CASE StartSession \/ StopSession \/ SessionHandler
    BY <1>5 DEF StartSession, StopSession, SessionHandler, AttachWriter, TryRecord,
       DetachWriter, SessionStartsMic, StartMic, SessionMicFailed, SessionStopsMic, StopMic,
       SessionFlushesTail, SessionEnqueuesTail, SessionArms, micVars
  <1>6. CASE Quit \/ QuitHandler
    BY <1>6 DEF Quit, QuitHandler, QuitStopsMicThread, QuitJoinsMicThread, QuitStopsMic,
       StopMic, QuitDisarms, QuitFlushesTail, QuitEnqueuesTail, QuitStopsWorker,
       QuitJoinsWorker, QuitClosesWriter, QuitResets, micVars
  <1>7. CASE WorkerHandler \/ (WakeSpuriously /\ UNCHANGED ownVars)
    BY <1>7 DEF WorkerHandler, DictationResult, SessionDoneCloses, SessionDoneFinalizes,
       WorkerFrame, ownVars, micVars
  <1> QED
    BY <1>1, <1>2, <1>3, <1>4, <1>5, <1>6, <1>7 DEF Next, Environment, MainHandler

\* As long as the microphone has not failed.
LEMMA DutyInvariant == SafetySpec => [](~micFailed => MicDuty)
  <1>1. ControllerInv /\ ModesInv /\ (~micFailed => MicDuty) /\ [Next]_vars
        => (~micFailed => MicDuty)'
    BY DutyStep, FailedStays
  <1>2. Init => (~micFailed => MicDuty)
    BY DutyInit
  <1> QED
    BY <1>1, <1>2, ModesInvariant, PTL DEF SafetySpec

\* README.md:190: a microphone that has not failed is off in Idle once main, the hotkey
\* thread and the mic-control thread are at rest, whatever was pressed, released, started
\* and stopped while it was starting, and whether or not capture.stop() waits.
THEOREM MicOffWhenIdleAlways == SafetySpec => []MicOffWhenIdle
  <1>1. ModesInv /\ (~micFailed => MicDuty) => MicOffWhenIdle
    BY DEF ModesInv, Shutdown, MainQuits, MainDisarmed, MicDuty, MicOffWhenIdle
  <1> QED
    BY <1>1, DutyInvariant, ModesInvariant, PTL

-----------------------------------------------------------------------------
(***************************************************************************)
(* What is left of a session.                                              *)
(***************************************************************************)

\* A session's chunk is in the worker.
SessionWaits == \E c \in InFlight : ~c.dictation

\* The audio of a session is in the tap, in the assembler, on main's way to the queue
\* or in the worker only while the session is on, and stays ahead of the drain.
DrainInv ==
  /\ pc.tap \in {"feed", "emit"} => mode = "Recording" \/ pc.main = "stopMic"
  /\ assembler.long /\ pc.main # "stopped" =>
       mode = "Recording" \/ pc.main \in {"stopMic", "flush"}
  /\ pc.main = "quitEmit" => mode = "Recording"
  /\ SessionWaits => mode \in Sessional
  /\ workerPc = "sessionDone" => InFlight = {}

\* To begin with there is none.
LEMMA DrainInit == Init => DrainInv
  BY DEF Init, WorkerInit, DrainInv, SessionWaits, InFlight, EmptyBuffer

\* A step that adds no chunk of a session to the worker and keeps the session.
LEMMA DrainKept ==
  ASSUME DrainInv, UNCHANGED <<pc.main, pc.tap, assembler>>,
         mode' = mode \/ mode \notin Sessional,
         \A c \in InFlight' : c.dictation \/ c \in InFlight,
         workerPc' = "sessionDone" => workerPc = "sessionDone" /\ InFlight' = InFlight
  PROVE  DrainInv'
  BY DEF DrainInv, SessionWaits, Sessional

\* The hotkey thread enqueues no session's chunk, and the mic-control thread nothing.
LEMMA PressDrains ==
  ASSUME ControllerInv, WorkerInv, ModesInv, DrainInv,
         HotkeyDown \/ HotkeyUp \/ HotkeyHandler \/ MicThread
  PROVE  DrainInv'
  <1>0. pc \in Pcs /\ hand \in Hands
    BY DEF ControllerInv, OwnTypeOK, PcTypeOK
  <1>1. CASE HotkeyEnqueues
    <2>1. mode = "Transcribing" /\ mode' = mode
      BY <1>1 DEF HotkeyEnqueues, At, ModesInv, Ownership, HotkeyOwns, modeVars
    <2>2. workerPc # "sessionDone"
      BY <2>1 DEF ModesInv, Ownership, SessionEnds
    <2>3. \A c \in InFlight' : c.dictation \/ c \in InFlight
      <3>1. Enqueue(TRUE, hand.hotkey) /\ hand.hotkey \in Audio
        BY <1>0, <1>1 DEF HotkeyEnqueues, Hands
      <3>2. \E new \in InFlight' : /\ new.dictation = TRUE
                                  /\ InFlight' \subseteq InFlight \union {new}
        BY <3>1, EnqueueFlight
      <3> QED
        BY <3>2
    <2> QED
      BY <1>0, <1>1, <2>1, <2>2, <2>3, HotkeyLeaves, DrainKept DEF HotkeyHandler
  <1>2. CASE \/ HotkeyDown \/ HotkeyUp \/ HotkeyWantsMic \/ HotkeyRequestsMic
             \/ HotkeyUnwantsMic \/ HotkeyStopsMic \/ HotkeyTakesAudio \/ HotkeyDiscards
    <2>1. mode' = mode \/ mode \notin Sessional
      <3>1. CASE HotkeyDiscards
        BY <3>1 DEF HotkeyDiscards, At, ModesInv, Ownership, HotkeyOwns, Sessional
      <3> QED
        BY <1>2, <3>1 DEF HotkeyDown, HotkeyUp, HotkeyWantsMic, HotkeyRequestsMic,
           HotkeyUnwantsMic, HotkeyStopsMic, HotkeyTakesAudio, CAS, modeVars, Sessional
    <2>2. UNCHANGED workerVars
      BY <1>2 DEF HotkeyDown, HotkeyUp, HotkeyWantsMic, HotkeyRequestsMic,
           HotkeyUnwantsMic, HotkeyStopsMic, HotkeyTakesAudio, HotkeyDiscards
    <2> QED
      BY <1>0, <1>2, <2>1, <2>2, WorkerKept, HotkeyLeaves, DrainKept DEF HotkeyHandler
  <1>3. CASE MicThread
    BY <1>0, <1>3, MicLeaves, WorkerKept, DrainKept DEF audioVars, Sessional
  <1> QED
    BY <1>1, <1>2, <1>3 DEF HotkeyHandler

\* The tap is at work for a session that has not been flushed.
LEMMA TapDrainInv ==
  ASSUME ControllerInv, WorkerInv, ModesInv, DrainInv, TapBlock \/ TapHandler
  PROVE  DrainInv'
  <1> USE DEF DrainInv
  <1>0. pc \in Pcs /\ hand \in Hands /\ assembler \in Buffer
    BY DEF ControllerInv, OwnTypeOK, PcTypeOK, AudioTypeOK
  <1>1. UNCHANGED <<pc.main, mode>>
        /\ (workerPc' = "sessionDone" <=> workerPc = "sessionDone")
    BY <1>0, TapLeaves
  <1>2. CASE TapBlock
    <2>1. pc'.tap \in {"feed", "emit"} => mode = "Recording"
      BY <1>0, <1>2, TapMovesAlone DEF TapBlock
    <2>2. UNCHANGED <<assembler, workerVars>>
      BY <1>2 DEF TapBlock, TapFrame
    <2> QED
      BY <1>1, <2>1, <2>2, WorkerKept DEF SessionWaits
  <1>3. ASSUME NEW long \in BOOLEAN, TapDictates(long) PROVE DrainInv'
    <2>1. pc'.tap = "idle" /\ UNCHANGED <<assembler, workerVars>>
      BY <1>0, <1>3, TapMovesAlone DEF TapDictates, TapFrame
    <2> QED
      BY <1>1, <2>1, WorkerKept DEF SessionWaits
  <1>4. ASSUME NEW long \in BOOLEAN, TapBuffers(long) \/ TapDiscards \/ TapFlushes
        PROVE  DrainInv'
    <2>1. pc.tap = "feed" /\ UNCHANGED workerVars
      BY <1>0, <1>4, TapMovesAlone DEF TapBuffers, TapDiscards, TapFlushes, TapFrame
    <2> QED
      BY <1>1, <2>1, WorkerKept DEF SessionWaits
  <1>5. CASE TapEnqueues
    <2>1. pc.tap = "emit" /\ pc'.tap = "idle" /\ UNCHANGED assembler
      BY <1>0, <1>5, TapMovesAlone DEF TapEnqueues, audioVars
    <2>2. mode \in Sessional /\ workerPc # "sessionDone"
      BY <2>1 DEF ModesInv, Ownership, SessionEnds, MainFinishes, Sessional
    <2> QED
      BY <1>1, <2>1, <2>2
  <1> QED
    BY <1>2, <1>3, <1>4, <1>5 DEF TapHandler

\* The worker ends a session when it has nothing left of it.
LEMMA WorkerDrains ==
  ASSUME WorkerInv, ModesInv, DrainInv,
         WorkerHandler \/ (WakeSpuriously /\ UNCHANGED ownVars)
  PROVE  DrainInv'
  <1> USE DEF DrainInv
  <1>1. UNCHANGED <<pc, assembler>>
    BY WorkerLeaves DEF audioVars
  <1>2. InFlight' \subseteq InFlight
    BY WorkerFlight
  <1>3. workerPc' = "sessionDone" => InFlight' = {}
    <2>1. CASE workerPc = "sessionDone"
      BY <1>2, <2>1
    <2>2. CASE workerPc # "sessionDone" /\ workerPc' = "sessionDone"
      <3>1. TakeSessionDone \/ CheckDone
        BY <2>2 DEF WorkerHandler, WorkerLoop, DictationResult, SessionDoneCloses,
           SessionDoneFinalizes, Sleep, WakeSpuriously, Exit, Pop, TranscribeFails,
           TranscribeDictation, TranscribeSession, SessionDoneReturns, GoTo
      <3>2. queue' = <<>>
        BY <2>2, <3>1 DEF TakeSessionDone, CheckDone, Drained
      <3>3. Len(queue') = 0
        BY <3>2
      <3> QED
        BY <2>2, <3>3 DEF InFlight
    <2> QED
      BY <2>1, <2>2
  <1>4. \/ mode' = mode
        \/ mode = "Transcribing" /\ mode' = "Idle"
        \/ /\ mode = "Finalizing" /\ mode' = "Idle"
           /\ workerPc = "sessionDone" /\ pc.main \notin MainFinishes
    BY WorkerEnds
  <1> QED
    BY <1>1, <1>2, <1>3, <1>4 DEF SessionWaits, MainFinishes, Sessional

\* Main adds nothing to what is under way, except by enqueue().
LEMMA MainFlight ==
  ASSUME StartSession \/ StopSession \/ SessionHandler \/ Quit \/ QuitHandler,
         ~SessionEnqueuesTail, ~QuitEnqueuesTail
  PROVE  InFlight' = InFlight /\ DictationWaits' = DictationWaits
  <1>1. CASE SessionArms \/ QuitDisarms \/ QuitStopsWorker
    <2>1. UNCHANGED <<queue, item>> /\ Notify
      BY <1>1 DEF SessionArms, QuitDisarms, QuitStopsWorker, SetOnSessionDone, RequestStop
    <2> QED
      BY <2>1, FlightKept, NotifyWakes
  <1>2. CASE AttachWriter \/ DetachWriter \/ QuitClosesWriter \/ QuitJoinsWorker
    <2>1. UNCHANGED <<queue, item, workerPc>>
      BY <1>2 DEF AttachWriter, DetachWriter, QuitClosesWriter, QuitJoinsWorker,
                  SetOutputWriter, Join
    <2> QED
      BY <2>1, FlightKept
  <1>3. CASE UNCHANGED workerVars
    BY <1>3, WorkerKept
  <1> QED
    BY <1>1, <1>2, <1>3
    DEF StartSession, StopSession, SessionHandler, TryRecord,
        SessionStartsMic, SessionMicFailed, SessionStopsMic, SessionFlushesTail, Quit,
        QuitHandler, QuitStopsMicThread, QuitJoinsMicThread, QuitStopsMic,
        QuitFlushesTail, QuitResets

\* Main stops the microphone, flushes, and only then arms the drain.
LEMMA SessionDrains ==
  ASSUME TapDrains, ControllerInv, WorkerInv, ModesInv, MicInv, MicDuty, DrainInv,
         StartSession \/ StopSession \/ SessionHandler
  PROVE  DrainInv'
  <1> USE DEF DrainInv
  <1>0. pc \in Pcs /\ hand \in Hands /\ assembler \in Buffer
    BY DEF ControllerInv, OwnTypeOK, PcTypeOK, AudioTypeOK
  <1>1. UNCHANGED pc.tap /\ (workerPc' = "sessionDone" <=> workerPc = "sessionDone")
    BY <1>0, MainLeaves
  <1>2. CASE SessionEnqueuesTail
    <2>1. pc.main = "emit" /\ pc'.main = "arm" /\ UNCHANGED <<mode, assembler>>
      BY <1>0, <1>2, MainMovesAlone DEF SessionEnqueuesTail, modeVars, audioVars
    <2>2. mode = "Finalizing" /\ workerPc # "sessionDone"
      BY <2>1 DEF ModesInv, Ownership, SessionEnds, MainFinishes
    <2> QED
      BY <1>1, <2>1, <2>2 DEF Sessional
  <1>3. CASE ~SessionEnqueuesTail
    <2>1. UNCHANGED InFlight /\ UNCHANGED SessionWaits
      <3>1. ~QuitEnqueuesTail
        BY <1>0, MainMovesAlone DEF QuitEnqueuesTail, At, StartSession, StopSession,
           SessionHandler, AttachWriter, TryRecord, DetachWriter,
           SessionStartsMic, SessionMicFailed, SessionStopsMic, SessionFlushesTail,
           ForceFlush, SessionArms, SessionEnqueuesTail
      <3> QED
        BY <1>3, <3>1, MainFlight DEF SessionWaits
    <2>2. CASE \/ StartSession \/ AttachWriter \/ DetachWriter \/ SessionArms
               \/ \E ok \in BOOLEAN : SessionStartsMic(ok)
      <3>1. \/ At("main", "idle", "attach")
            \/ At("main", "attach", "tryRecord") \/ At("main", "detach", "idle")
            \/ At("main", "arm", "idle") \/ At("main", "startMic", "idle")
            \/ At("main", "startMic", "micFailed")
        BY <2>2 DEF StartSession, AttachWriter, DetachWriter, SessionArms,
                    SessionStartsMic
      <3>2. /\ pc.main \notin {"stopMic", "flush", "quitEmit", "stopped"}
            /\ pc'.main # "quitEmit"
        BY <1>0, <3>1, MainMovesAlone
      <3>3. UNCHANGED <<mode, assembler>>
        BY <2>2 DEF StartSession, AttachWriter, DetachWriter, SessionArms,
                    SessionStartsMic, modeVars, audioVars
      <3> QED
        BY <1>1, <2>1, <3>2, <3>3
    <2>3. CASE TryRecord
      <3>1. /\ mode' = mode \/ (mode = "Idle" /\ mode' = "Recording")
            /\ UNCHANGED assembler
        BY <2>3 DEF TryRecord, CAS, modeVars, audioVars
      <3>2. At("main", "tryRecord", "startMic") \/ At("main", "tryRecord", "detach")
        BY <2>3 DEF TryRecord
      <3>3. pc.main = "tryRecord" /\ pc'.main # "quitEmit"
        BY <1>0, <3>2, MainMovesAlone
      <3> QED
        BY <1>1, <2>1, <3>1, <3>3 DEF Sessional
    <2>4. CASE StopSession
      <3>1. /\ mode = "Recording" /\ mode' = "Finalizing" /\ pc'.main = "stopMic"
            /\ UNCHANGED assembler
        BY <1>0, <2>4, MainMovesAlone DEF StopSession, CAS, audioVars
      <3> QED
        BY <1>1, <2>1, <3>1 DEF Sessional
    <2>5. CASE SessionStopsMic
      <3>1. /\ pc.main = "stopMic" /\ pc'.main = "flush" /\ UNCHANGED <<mode, assembler>>
            /\ pc.tap = "idle"
        BY <1>0, <2>5, MainMovesAlone
        DEF SessionStopsMic, StopMic, MicInv, modeVars, audioVars
      <3> QED
        BY <1>1, <2>1, <3>1
    <2>6. CASE SessionFlushesTail
      <3>1. At("main", "flush", "emit") \/ At("main", "flush", "arm")
        BY <2>6 DEF SessionFlushesTail, ForceFlush
      <3>2. pc.main = "flush" /\ pc'.main \in {"emit", "arm"}
        BY <1>0, <3>1, MainMovesAlone
      <3>3. ~assembler'.long /\ UNCHANGED mode
        BY <2>6 DEF SessionFlushesTail, ForceFlush, EmptyBuffer, modeVars
      <3> QED
        BY <1>1, <2>1, <3>2, <3>3
    <2>7. CASE SessionMicFailed
      BY <2>7 DEF SessionMicFailed, At, MicDuty
    <2> QED
      BY <1>3, <2>2, <2>3, <2>4, <2>5, <2>6, <2>7 DEF SessionHandler
  <1> QED
    BY <1>2, <1>3

\* stop() flushes a session's tail before it stops the worker, which then takes all
\* that is left.
LEMMA QuitDrains ==
  ASSUME ControllerInv, WorkerInv, ModesInv, MicInv, QuitInv, DrainInv,
         Quit \/ QuitHandler
  PROVE  DrainInv'
  <1> USE DEF DrainInv
  <1>0. pc \in Pcs /\ hand \in Hands /\ assembler \in Buffer
    BY DEF ControllerInv, OwnTypeOK, PcTypeOK, AudioTypeOK
  <1>1. UNCHANGED pc.tap /\ (workerPc' = "sessionDone" <=> workerPc = "sessionDone")
    BY <1>0, MainLeaves
  <1>2. CASE QuitEnqueuesTail
    <2>1. pc.main = "quitEmit" /\ pc'.main = "quitWorker" /\ UNCHANGED <<mode, assembler>>
      BY <1>0, <1>2, MainMovesAlone DEF QuitEnqueuesTail, modeVars, audioVars
    <2>2. mode = "Recording" /\ workerPc # "sessionDone"
      BY <2>1 DEF ModesInv, Ownership, SessionEnds
    <2> QED
      BY <1>1, <2>1, <2>2 DEF Sessional
  <1>3. CASE QuitFlushesTail
    <2>1. \/ assembler.long /\ At("main", "quitFlush", "quitEmit")
          \/ At("main", "quitFlush", "quitWorker") /\ UNCHANGED assembler
      BY <1>3 DEF QuitFlushesTail, ForceFlush
    <2>2. /\ pc.main = "quitFlush"
          /\ pc'.main = "quitWorker" \/ (pc'.main = "quitEmit" /\ assembler.long)
      BY <1>0, <2>1, MainMovesAlone
    <2>3. ~assembler'.long /\ UNCHANGED <<mode, workerVars>>
      BY <1>3 DEF QuitFlushesTail, ForceFlush, EmptyBuffer, modeVars
    <2> QED
      BY <1>1, <2>2, <2>3, WorkerKept DEF SessionWaits
  <1>4. CASE QuitResets
    <2>1. /\ pc.main = "quitReset" /\ pc'.main = "stopped" /\ UNCHANGED workerVars
      BY <1>0, <1>4, MainMovesAlone DEF QuitResets
    <2>2. pc.tap = "idle"
      BY <2>1 DEF MicInv, MicOff, MainDisarmed
    <2>3. workerPc = "exited" /\ queue = <<>>
      BY <2>1 DEF ModesInv, Shutdown, QuitInv
    <2>4. Len(queue) = 0
      BY <2>3
    <2>5. InFlight = {}
      BY <2>3, <2>4 DEF InFlight
    <2> QED
      BY <1>1, <2>1, <2>2, <2>5, WorkerKept DEF SessionWaits
  <1>5. CASE \/ Quit \/ QuitStopsMicThread \/ QuitJoinsMicThread \/ QuitStopsMic
             \/ QuitDisarms \/ QuitStopsWorker \/ QuitJoinsWorker \/ QuitClosesWriter
    <2> DEFINE Here == {"idle", "quit", "quitJoin", "quitMic", "quitDisarm", "quitFlush",
                        "quitWorker", "quitWorkerJoin", "quitClose", "quitReset"}
    <2>1. \E from, to \in Here : At("main", from, to)
      BY <1>5 DEF Quit, QuitStopsMicThread, QuitJoinsMicThread, QuitStopsMic, QuitDisarms,
                  QuitStopsWorker, QuitJoinsWorker, QuitClosesWriter
    <2>2. /\ pc.main \notin {"stopMic", "flush", "quitEmit", "emit", "stopped"}
          /\ pc'.main # "quitEmit"
      BY <1>0, <2>1, MainMovesAlone
    <2>3. ~SessionEnqueuesTail /\ ~QuitEnqueuesTail
      BY <2>2 DEF SessionEnqueuesTail, QuitEnqueuesTail, At
    <2>4. InFlight' = InFlight
      BY <1>5, <2>3, MainFlight DEF QuitHandler
    <2>5. UNCHANGED <<mode, assembler>>
      BY <1>5 DEF Quit, QuitStopsMicThread, QuitJoinsMicThread, QuitStopsMic, QuitDisarms,
         QuitStopsWorker, QuitJoinsWorker, QuitClosesWriter, modeVars, audioVars
    <2> QED
      BY <1>1, <2>2, <2>4, <2>5 DEF SessionWaits
  <1> QED
    BY <1>2, <1>3, <1>4, <1>5 DEF QuitHandler

\* Every step.
LEMMA DrainStep ==
  ASSUME TapDrains, ControllerInv, WorkerInv, ModesInv, MicInv, QuitInv, MicDuty, DrainInv,
         [Next]_vars
  PROVE  DrainInv'
  <1>1. CASE UNCHANGED vars
    <2>1. UNCHANGED <<mode, pc, assembler, workerVars>>
      BY <1>1 DEF vars, ownVars, modeVars, audioVars
    <2> QED
      BY <2>1, WorkerKept, DrainKept
  <1> QED
    BY <1>1, PressDrains, TapDrainInv, WorkerDrains, SessionDrains, QuitDrains
    DEF Next, Environment, MainHandler

\* Of any controller whose capture.stop() waits, as long as the microphone has not
\* failed.
LEMMA DrainInvariant ==
  ASSUME TapDrains
  PROVE  SafetySpec => [](~micFailed => DrainInv)
  <1>1. /\ ControllerInv /\ WorkerInv /\ ModesInv /\ MicInv /\ QuitInv
        /\ (~micFailed => MicDuty) /\ (~micFailed => DrainInv) /\ [Next]_vars
        => (~micFailed => DrainInv)'
    BY DrainStep, FailedStays
  <1>2. Init => (~micFailed => DrainInv)
    BY DrainInit
  <1> QED
    BY <1>1, <1>2, ModesInvariant, MicInvariant, QuitInvariant, DutyInvariant, PTL
    DEF SafetySpec

\* app_controller.cpp:464, :484: stop the producer, flush the tail, then arm the drain:
\* a session that is over has no chunk left in the worker, none on its way there, and
\* nothing that flush() could still emit; for any number of sessions and blocks,
\* in every mode a call may come in, as long as the microphone has not failed, when
\* capture.stop() waits.
THEOREM SessionOverMeansDrainedAlways ==
  ASSUME TapDrains
  PROVE  SafetySpec => []SessionOverMeansDrained
  <1>1. ModesInv /\ (~micFailed => DrainInv) => SessionOverMeansDrained
    BY DEF ModesInv, Ownership, MainFinishes, DrainInv, SessionWaits, Sessional,
           SessionOverMeansDrained
  <1> QED
    BY <1>1, DrainInvariant, ModesInvariant, PTL

\* README.md:192: a dictation in the worker is alone there, so that no chunk of a
\* session can push it out of a full queue; under the same conditions.
THEOREM DictationAloneAlways ==
  ASSUME TapDrains
  PROVE  SafetySpec => []DictationAlone
  <1>1. ModesInv /\ (~micFailed => DrainInv) => DictationAlone
    BY DEF ModesInv, Ownership, DictationWaits, DrainInv, SessionWaits, Sessional,
           DictationAlone
  <1> QED
    BY <1>1, DrainInvariant, ModesInvariant, PTL

-----------------------------------------------------------------------------
(***************************************************************************)
(* Whose audio it is.                                                      *)
(***************************************************************************)

\* Audio of the session recorded last, with what was left of earlier ones.
OfSession(audio) == recorded \in audio /\ \A n \in audio : n <= recorded

\* The writer of the session recorded last, or, with overlapped set, none or that of a
\* call of startSession() that came later.
Serves(writer) ==
  \/ writer = recorded
  \/ overlapped /\ (writer = NoWriter \/ (writer \in Nat /\ recorded <= writer))

\* Wherever audio is on its way into a session's file, and whichever writer is going
\* to get it.
SavedInv ==
  /\ recorded <= sessions
  /\ \A n \in assembler.audio : n <= recorded
  /\ assembler.long => recorded \in assembler.audio
  /\ pc.tap = "feed" => hand.tap = {recorded}
  /\ pc.tap = "emit" => OfSession(hand.tap)
  /\ pc.main \in {"emit", "quitEmit"} => OfSession(hand.main)
  /\ \A c \in InFlight : c.dictation \/ OfSession(c.audio)
  /\ workerPc = "transcribe" /\ ~item.dictation => Serves(itemWriter)

\* To begin with there is no audio.
LEMMA SavedInit == Init => SavedInv
  BY DEF Init, WorkerInit, SavedInv, InFlight, EmptyBuffer

\* A session's number.
LEMMA Numbers ==
  ASSUME ControllerInv
  PROVE  /\ recorded \in Nat /\ sessions \in Nat
         /\ \A a \in Audio : a \subseteq Nat
         /\ assembler.audio \in Audio
  BY ControllerAssumption
  DEF ControllerInv, OwnTypeOK, ModeTypeOK, SessionTypeOK, AudioTypeOK, Buffer

\* A step that leaves a session's audio where it is.
LEMMA SavedKept ==
  ASSUME SavedInv, UNCHANGED <<recorded, sessions, overlapped, assembler, item, itemWriter,
                               pc.tap, pc.main, hand.tap, hand.main>>,
         \A c \in InFlight' : c.dictation \/ c \in InFlight,
         workerPc' = "transcribe" <=> workerPc = "transcribe"
  PROVE  SavedInv'
  BY DEF SavedInv, OfSession, Serves

\* The hotkey thread and the mic-control thread.
LEMMA PressSaves ==
  ASSUME ControllerInv, WorkerInv, SavedInv,
         HotkeyDown \/ HotkeyUp \/ HotkeyHandler \/ MicThread
  PROVE  SavedInv'
  <1>0. pc \in Pcs /\ hand \in Hands
    BY DEF ControllerInv, OwnTypeOK, PcTypeOK
  <1>1. CASE HotkeyEnqueues
    <2>1. Enqueue(TRUE, hand.hotkey) /\ hand.hotkey \in Audio
      BY <1>0, <1>1 DEF HotkeyEnqueues, Hands
    <2>2. \E new \in InFlight' : /\ new.dictation = TRUE
                                /\ InFlight' \subseteq InFlight \union {new}
      BY <2>1, EnqueueFlight
    <2>3. \A c \in InFlight' : c.dictation \/ c \in InFlight
      BY <2>2
    <2> QED
      BY <1>0, <1>1, <2>3, HotkeyLeaves, SavedKept DEF HotkeyHandler, sessionVars
  <1>2. CASE \/ HotkeyDown \/ HotkeyUp \/ HotkeyWantsMic \/ HotkeyRequestsMic
             \/ HotkeyUnwantsMic \/ HotkeyStopsMic \/ HotkeyTakesAudio \/ HotkeyDiscards
    <2>1. UNCHANGED workerVars
      BY <1>2 DEF HotkeyDown, HotkeyUp, HotkeyWantsMic, HotkeyRequestsMic,
           HotkeyUnwantsMic, HotkeyStopsMic, HotkeyTakesAudio, HotkeyDiscards
    <2> QED
      BY <1>0, <1>2, <2>1, WorkerKept, HotkeyLeaves, SavedKept
      DEF HotkeyHandler, sessionVars
  <1>3. CASE MicThread
    BY <1>0, <1>3, MicLeaves, WorkerKept, SavedKept DEF audioVars, sessionVars, workerVars
  <1> QED
    BY <1>1, <1>2, <1>3 DEF HotkeyHandler

\* The tap adds the session that is on.
LEMMA TapSaves ==
  ASSUME ControllerInv, WorkerInv, SavedInv, TapBlock \/ TapHandler
  PROVE  SavedInv'
  <1> USE DEF SavedInv, OfSession, Serves
  <1>0. pc \in Pcs /\ hand \in Hands /\ assembler \in Buffer
    BY DEF ControllerInv, OwnTypeOK, PcTypeOK, AudioTypeOK
  <1>1. /\ UNCHANGED <<pc.main, hand.main, recorded, sessions, overlapped, item, itemWriter>>
        /\ workerPc' = "transcribe" <=> workerPc = "transcribe"
    BY <1>0, TapLeaves DEF sessionVars
  <1>2. recorded \in Nat
    BY Numbers
  <1>3. CASE TapBlock
    <2>1. /\ pc'.tap \in {"dictate", "feed"}
          /\ pc'.tap = "feed" => hand'.tap = {recorded}
      BY <1>0, <1>3, TapMovesAlone, TakesAlone DEF TapBlock
    <2>2. UNCHANGED <<assembler, workerVars>>
      BY <1>3 DEF TapBlock, TapFrame
    <2> QED
      BY <1>1, <2>1, <2>2, WorkerKept
  <1>4. ASSUME NEW long \in BOOLEAN, TapDictates(long) \/ TapDiscards PROVE SavedInv'
    <2>1. pc'.tap = "idle" /\ UNCHANGED <<assembler, workerVars>>
      BY <1>0, <1>4, TapMovesAlone DEF TapDictates, TapDiscards, TapFrame
    <2> QED
      BY <1>1, <2>1, WorkerKept
  <1>5. ASSUME NEW long \in BOOLEAN, TapBuffers(long) PROVE SavedInv'
    <2>1. pc.tap = "feed" /\ pc'.tap = "idle" /\ UNCHANGED workerVars
      BY <1>0, <1>5, TapMovesAlone DEF TapBuffers, TapFrame
    <2>2. assembler'.audio = assembler.audio \union {recorded}
      BY <1>5, <2>1 DEF TapBuffers
    <2> QED
      BY <1>1, <1>2, <2>1, <2>2, WorkerKept
  <1>6. CASE TapFlushes
    <2>1. pc.tap = "feed" /\ pc'.tap = "emit" /\ UNCHANGED workerVars
      BY <1>0, <1>6, TapMovesAlone DEF TapFlushes, TapFrame
    <2>2. assembler' = EmptyBuffer /\ hand'.tap = assembler.audio \union {recorded}
      BY <1>0, <1>6, <2>1, TakesAlone DEF TapFlushes
    <2> QED
      BY <1>1, <1>2, <2>1, <2>2, WorkerKept DEF EmptyBuffer
  <1>7. CASE TapEnqueues
    <2>1. pc.tap = "emit" /\ pc'.tap = "idle" /\ UNCHANGED assembler
      BY <1>0, <1>7, TapMovesAlone DEF TapEnqueues, audioVars
    <2>2. Enqueue(FALSE, hand.tap) /\ hand.tap \in Audio
      BY <1>0, <1>7 DEF TapEnqueues, Hands
    <2>3. \E new \in InFlight' : /\ new.dictation = FALSE /\ new.audio = hand.tap
                                /\ InFlight' \subseteq InFlight \union {new}
      BY <2>2, EnqueueFlight
    <2> QED
      BY <1>1, <2>1, <2>3
  <1> QED
    BY <1>3, <1>4, <1>5, <1>6, <1>7 DEF TapHandler

\* The worker takes a session's chunk together with the session's writer.
LEMMA WorkerSaves ==
  ASSUME ControllerInv, WorkerInv, ModesInv, WriterInv, DrainInv, SavedInv,
         WorkerHandler \/ (WakeSpuriously /\ UNCHANGED ownVars)
  PROVE  SavedInv'
  <1>1. UNCHANGED <<pc, hand, recorded, sessions, overlapped, assembler>>
    BY WorkerLeaves DEF audioVars
  <1>2. InFlight' \subseteq InFlight
    BY WorkerFlight
  <1>3. workerPc' = "transcribe" /\ ~item'.dictation => Serves(itemWriter)'
    <2>1. CASE Pop
      <3>1. /\ item' \in InFlight' /\ itemWriter' = outputWriter
            /\ workerPc = "check"
        BY <2>1 DEF Pop, GoTo, InFlight
      <3>2. ~item'.dictation => mode \in Sessional
        BY <1>2, <3>1 DEF DrainInv, SessionWaits
      <3>3. ~writerClosed /\ pc.main # "quitReset"
        BY <3>1 DEF WriterInv, ModesInv, Shutdown
      <3>4. mode \in Sessional => Serves(outputWriter)
        <4>1. CASE pc.main \in Attached
          BY <3>3, <4>1, Numbers DEF WriterInv, Holds, Attached, Arriving, Serves, SavedInv
        <4>2. CASE pc.main \notin Attached
          BY <3>3, <4>2 DEF WriterInv, Holds, Serves
        <4> QED
          BY <4>1, <4>2
      <3> QED
        BY <1>1, <3>1, <3>2, <3>4 DEF Serves
    <2>2. CASE ~Pop
      <3>1. workerPc' = "transcribe" =>
              workerPc = "transcribe" /\ UNCHANGED <<item, itemWriter>>
        BY <2>2 DEF WorkerHandler, WorkerLoop, DictationResult, SessionDoneCloses,
           SessionDoneFinalizes, Sleep, WakeSpuriously, Exit, TakeSessionDone, CheckDone,
           TranscribeFails, TranscribeDictation, TranscribeSession, SessionDoneReturns,
           SetOutputWriter, GoTo
      <3> QED
        BY <1>1, <3>1 DEF SavedInv, Serves
    <2> QED
      BY <2>1, <2>2
  <1> QED
    BY <1>1, <1>2, <1>3 DEF SavedInv, OfSession

\* Main begins a session when nothing is left of the one before, and flushes the tail
\* of the one that ends.
LEMMA MainSaves ==
  ASSUME ControllerInv, WorkerInv, DrainInv, SavedInv,
         StartSession \/ StopSession \/ SessionHandler \/ Quit \/ QuitHandler
  PROVE  SavedInv'
  <1> USE DEF SavedInv, OfSession, Serves
  <1>0. pc \in Pcs /\ hand \in Hands /\ assembler \in Buffer
    BY DEF ControllerInv, OwnTypeOK, PcTypeOK, AudioTypeOK
  <1>1. /\ UNCHANGED <<pc.tap, hand.tap, item, itemWriter>>
        /\ workerPc' = "transcribe" <=> workerPc = "transcribe"
    BY <1>0, MainLeaves
  <1>2. /\ recorded \in Nat /\ sessions \in Nat
        /\ \A n \in assembler.audio : n \in Nat
    BY Numbers
  <1>3. CASE SessionEnqueuesTail \/ QuitEnqueuesTail
    <2>1. pc.main \in {"emit", "quitEmit"} /\ pc'.main \in {"arm", "quitWorker"}
      BY <1>0, <1>3, MainMovesAlone DEF SessionEnqueuesTail, QuitEnqueuesTail
    <2>2. Enqueue(FALSE, hand.main) /\ hand.main \in Audio
      BY <1>0, <1>3 DEF SessionEnqueuesTail, QuitEnqueuesTail, Hands
    <2>3. \E new \in InFlight' : /\ new.dictation = FALSE /\ new.audio = hand.main
                                /\ InFlight' \subseteq InFlight \union {new}
      BY <2>2, EnqueueFlight
    <2>4. UNCHANGED <<recorded, sessions, overlapped, assembler>>
      BY <1>3 DEF SessionEnqueuesTail, QuitEnqueuesTail, modeVars, sessionVars, audioVars
    <2> QED
      BY <1>1, <2>1, <2>3, <2>4
  <1>4. CASE SessionFlushesTail \/ QuitFlushesTail
    <2>1. UNCHANGED <<recorded, sessions, overlapped, workerVars>>
      BY <1>4 DEF SessionFlushesTail, QuitFlushesTail, modeVars, sessionVars
    <2>2. \/ /\ assembler.long /\ hand'.main = assembler.audio
             /\ assembler' = EmptyBuffer
          \/ pc'.main \in {"arm", "quitWorker"} /\ UNCHANGED assembler
      BY <1>0, <1>4, MainMovesAlone, TakesAlone
      DEF SessionFlushesTail, QuitFlushesTail, ForceFlush
    <2> QED
      BY <1>1, <2>1, <2>2, WorkerKept DEF EmptyBuffer
  <1>5. CASE TryRecord
    <2>1. pc.main = "tryRecord" /\ UNCHANGED <<sessions, overlapped, assembler, workerVars>>
      BY <1>5 DEF TryRecord, At, sessionVars, audioVars
    <2>2. pc'.main \in {"startMic", "detach"}
      <3>1. At("main", "tryRecord", "startMic") \/ At("main", "tryRecord", "detach")
        BY <1>5 DEF TryRecord
      <3> QED
        BY <1>0, <3>1, MainMovesAlone
    <2>3. CASE mode = "Idle" /\ recorded' = sessions
      <3>1. ~SessionWaits /\ ~assembler.long /\ pc.tap \notin {"feed", "emit"}
        BY <2>1, <2>3 DEF DrainInv, Sessional
      <3>2. workerPc = "transcribe" => item.dictation
        BY <3>1 DEF SessionWaits, InFlight
      <3>3. \A n \in assembler.audio : n <= sessions
        BY <1>2
      <3> QED
        BY <1>1, <1>2, <2>1, <2>2, <2>3, <3>1, <3>2, <3>3, WorkerKept DEF SessionWaits
    <2>4. CASE UNCHANGED recorded
      BY <1>1, <2>1, <2>2, <2>4, WorkerKept
    <2> QED
      BY <1>5, <2>3, <2>4 DEF TryRecord, CAS, modeVars
  <1>6. CASE \/ StartSession \/ StopSession \/ AttachWriter \/ DetachWriter
             \/ \E ok \in BOOLEAN : SessionStartsMic(ok)
             \/ SessionMicFailed \/ SessionStopsMic \/ SessionArms
             \/ Quit \/ QuitStopsMicThread \/ QuitJoinsMicThread \/ QuitStopsMic
             \/ QuitDisarms \/ QuitStopsWorker \/ QuitJoinsWorker \/ QuitClosesWriter
             \/ QuitResets
    <2> DEFINE Here == MainPcs \ {"emit", "quitEmit"}
    <2>1. \E from, to \in Here : At("main", from, to)
      BY <1>6 DEF MainPcs, StartSession, StopSession, AttachWriter, DetachWriter,
         SessionStartsMic, SessionMicFailed, SessionStopsMic, SessionArms, Quit,
         QuitStopsMicThread, QuitJoinsMicThread, QuitStopsMic, QuitDisarms, QuitStopsWorker,
         QuitJoinsWorker, QuitClosesWriter, QuitResets
    <2>2. pc.main \notin {"emit", "quitEmit"} /\ pc'.main \notin {"emit", "quitEmit"}
      BY <1>0, <2>1, MainMovesAlone
    <2>3. ~SessionEnqueuesTail /\ ~QuitEnqueuesTail
      BY <2>2 DEF SessionEnqueuesTail, QuitEnqueuesTail, At
    <2>4. InFlight' = InFlight
      BY <2>3, MainFlight
    <2>5. /\ UNCHANGED <<recorded, assembler>>
          /\ \/ UNCHANGED <<sessions, overlapped>>
             \/ sessions' = sessions + 1 /\ overlapped' = (mode \in Sessional)
      BY <1>6 DEF StartSession, StopSession, AttachWriter, DetachWriter,
         SessionStartsMic, SessionMicFailed, SessionStopsMic, SessionArms, Quit,
         QuitStopsMicThread, QuitJoinsMicThread, QuitStopsMic, QuitDisarms, QuitStopsWorker,
         QuitJoinsWorker, QuitClosesWriter, QuitResets, modeVars, sessionVars, audioVars,
         Sessional
    <2>6. workerPc = "transcribe" /\ ~item.dictation => mode \in Sessional
      BY DEF DrainInv, SessionWaits, InFlight
    <2>7. recorded <= sessions /\ recorded <= sessions'
      BY <1>2, <2>5
    <2>8. workerPc' = "transcribe" /\ ~item'.dictation => Serves(itemWriter)'
      BY <1>1, <2>5, <2>6
    <2>9. \A c \in InFlight' : c.dictation \/ OfSession(c.audio)'
      BY <2>4, <2>5
    <2> QED
      BY <1>1, <2>2, <2>5, <2>7, <2>8, <2>9
  <1> QED
    BY <1>3, <1>4, <1>5, <1>6 DEF SessionHandler, QuitHandler

\* Every step.
LEMMA SavedStep ==
  ASSUME ControllerInv, WorkerInv, ModesInv, WriterInv, DrainInv, SavedInv, [Next]_vars
  PROVE  SavedInv'
  <1>1. CASE UNCHANGED vars
    <2>1. UNCHANGED <<recorded, sessions, overlapped, assembler, pc, hand, workerVars>>
      BY <1>1 DEF vars, ownVars, modeVars, sessionVars, audioVars
    <2> QED
      BY <2>1, WorkerKept, SavedKept DEF workerVars
  <1> QED
    BY <1>1, PressSaves, TapSaves, WorkerSaves, MainSaves DEF Next, Environment, MainHandler

\* app_controller.cpp:378: every chunk of a session is added to the writer of the session
\* it was spoken in, the last one recorded, with what flush() left of earlier ones, unless
\* startSession() was called with the session under way, and never to the writer of an
\* earlier session; for any number of sessions, blocks and places in the queue, as long
\* as the microphone has not failed, when capture.stop() waits.
THEOREM SavedInItsSessionAlways ==
  ASSUME TapDrains
  PROVE  SafetySpec => SavedInItsSession
  <1>1. /\ ControllerInv /\ WorkerInv /\ ModesInv /\ WriterInv
        /\ (~micFailed => DrainInv) /\ (~micFailed => SavedInv) /\ [Next]_vars
        => (~micFailed => SavedInv)'
    BY SavedStep, FailedStays
  <1>2. Init => (~micFailed => SavedInv)
    BY SavedInit
  <1>3. SafetySpec => [](~micFailed => SavedInv)
    BY <1>1, <1>2, ModesInvariant, WriterInvariant, DrainInvariant, PTL DEF SafetySpec
  <1>4. ControllerInv /\ WorkerInv /\ (~micFailed => SavedInv) /\ [Next]_vars
          => [workerPc = "transcribe" /\ workerPc' = "checkDone" /\ ~micFailed =>
                /\ ~overlapped => itemWriter \in item.audio
                /\ itemWriter = NoWriter \/ \A n \in item.audio : n <= itemWriter]_vars
    <2> SUFFICES ASSUME ControllerInv, WorkerInv, SavedInv, Next,
                        workerPc = "transcribe", workerPc' = "checkDone"
                 PROVE  /\ ~overlapped => itemWriter \in item.audio
                        /\ itemWriter = NoWriter \/ \A n \in item.audio : n <= itemWriter
      OBVIOUS
    <2>0. pc \in Pcs /\ hand \in Hands
      BY DEF ControllerInv, OwnTypeOK, PcTypeOK
    <2>1. WorkerHandler \/ (WakeSpuriously /\ UNCHANGED ownVars)
      BY <2>0, HotkeyLeaves, MicLeaves, TapLeaves, MainLeaves
      DEF Next, Environment, MainHandler, workerVars
    <2>2. TranscribeSession
      BY <2>1 DEF WorkerHandler, WorkerLoop, DictationResult, SessionDoneCloses,
         SessionDoneFinalizes, Sleep, WakeSpuriously, Exit, TakeSessionDone, CheckDone, Pop,
         TranscribeFails, TranscribeDictation, SessionDoneReturns, SetOutputWriter, GoTo
    <2>3. item \in InFlight /\ ~item.dictation
      BY <2>2 DEF InFlight, TranscribeSession
    <2>4. Serves(itemWriter) /\ OfSession(item.audio)
      BY <2>2, <2>3 DEF SavedInv, TranscribeSession
    <2>5. recorded \in Nat /\ \A n \in item.audio : n \in Nat
      <3>1. item.audio \in Audio
        BY <2>2 DEF WorkerInv, InHand, Item, TranscribeSession, GoTo
      <3> QED
        BY <3>1, Numbers
    <2> QED
      BY <2>4, <2>5 DEF Serves, OfSession
  <1> QED
    BY <1>3, <1>4, ModesInvariant, PTL DEF SafetySpec, SavedInItsSession

=============================================================================
