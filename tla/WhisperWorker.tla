---------------------------- MODULE WhisperWorker ----------------------------
(***************************************************************************)
(* The transcription worker (src/src/whisper_worker.cpp): one thread that  *)
(* takes audio chunks from a bounded queue and transcribes them one at a   *)
(* time.  Any thread enqueues, attaches an OutputWriter, or arms the       *)
(* session-done callback; each of those runs under impl_->mutex and is one *)
(* action.  The worker thread's loop is cut where it takes or releases the *)
(* mutex: between two of its actions every other thread may run.           *)
(*                                                                         *)
(* Chunks are numbered in the order of their enqueue() calls.  outcome[i]  *)
(* records what became of chunk i; it is a history variable, no action     *)
(* reads it.                                                               *)
(***************************************************************************)
EXTENDS Naturals, Sequences

CONSTANTS
  QueueMax,      \* PROCESSING_QUEUE_MAX: chunks the queue holds
  MaxChunks,     \* bound: number of enqueue() calls in a behaviour
  Audio,         \* what a chunk contains, as far as its users care
  Writers,       \* the OutputWriters that may be attached
  NoWriter,      \* a null shared_ptr<OutputWriter>
  Transcription  \* what whisper_full may come back with, see Transcriptions

Transcriptions == {"text", "blank", "failed"}

ASSUME WorkerAssumption ==
  /\ QueueMax \in Nat \ {0}
  /\ MaxChunks \in Nat
  /\ NoWriter \notin Writers
  /\ Transcription \subseteq Transcriptions

VARIABLES
  queue,         \* impl_->queue
  stopFlag,      \* impl_->stop_flag
  armed,         \* impl_->on_session_done holds a callback
  outputWriter,  \* impl_->output_writer
  workerPc,      \* where the worker thread is in workerLoop
  item,          \* its local: the chunk it took from the queue
  itemWriter,    \* its local ow: the writer attached when it took the chunk
  stopPc,        \* how far the owner is in stop()
  enqueued,      \* history: number of enqueue() calls so far
  outcome        \* history: what became of each chunk

lockedVars == <<queue, stopFlag, armed, outputWriter>>
workerVars == <<queue, stopFlag, armed, outputWriter, workerPc, item,
                itemWriter, stopPc, enqueued, outcome>>

Chunk == 1..MaxChunks
Item  == [id : Chunk, dictation : BOOLEAN, audio : Audio]

Waiting == {"queued", "running"}
Settled == {"dropped",   \* thrown out of a full queue
            "failed",    \* whisper_full failed, on_error called
            "blank",     \* dictation without text, on_result not called
            "result",    \* dictation handed to on_result
            "saved",     \* session chunk added to its writer, and flushed
            "unsaved"}   \* session chunk transcribed with no writer attached

WorkerPcs == {"check",        \* holds the mutex, about to test the wait predicate
              "asleep",       \* blocked in cv.wait
              "transcribe",   \* has a chunk, mutex released
              "checkDone",    \* session chunk written, about to lock again
              "sessionDone",  \* running the session-done callback
              "exited"}       \* left workerLoop

WorkerTypeOK ==
  /\ queue \in Seq(Item) /\ Len(queue) <= QueueMax
  /\ stopFlag \in BOOLEAN
  /\ armed \in BOOLEAN
  /\ outputWriter \in Writers \union {NoWriter}
  /\ workerPc \in WorkerPcs
  /\ item \in Item \union {<<>>}
  /\ itemWriter \in Writers \union {NoWriter}
  /\ stopPc \in {"running", "joining", "joined"}
  /\ enqueued \in 0..MaxChunks
  /\ outcome \in [Chunk -> {"none"} \union Waiting \union Settled]

\* The state start() leaves behind: the thread spawned, nothing queued.
WorkerInit ==
  /\ queue = <<>>
  /\ stopFlag = FALSE
  /\ armed = FALSE
  /\ outputWriter = NoWriter
  /\ workerPc = "check"
  /\ item = <<>>
  /\ itemWriter = NoWriter
  /\ stopPc = "running"
  /\ enqueued = 0
  /\ outcome = [i \in Chunk |-> "none"]

-----------------------------------------------------------------------------
(***************************************************************************)
(* The calls of other threads, each under impl_->mutex.                    *)
(***************************************************************************)

\* Mutant: the condition variable is not notified.
NotifyNobody == workerPc' = workerPc

\* cv.notify_one / notify_all: the worker is the only waiter.
Notify == workerPc' = IF workerPc = "asleep" THEN "check" ELSE workerPc

\* Mutant: one chunk too many.
FullTooLate == Len(queue) > QueueMax

Full == Len(queue) >= QueueMax

\* Mutant: a full queue loses its newest chunk instead of its oldest.
EnqueueOverNewest(dictation, audio) ==
  LET id   == enqueued + 1
      kept == IF Full THEN SubSeq(queue, 1, Len(queue) - 1) ELSE queue
      rest == IF Full THEN [outcome EXCEPT ![queue[Len(queue)].id] = "dropped"]
                      ELSE outcome
  IN  /\ enqueued < MaxChunks
      /\ enqueued' = id
      /\ queue' = Append(kept, [id |-> id, dictation |-> dictation,
                                audio |-> audio])
      /\ outcome' = [rest EXCEPT ![id] = "queued"]
      /\ Notify
      /\ UNCHANGED <<stopFlag, armed, outputWriter, item, itemWriter, stopPc>>

\* enqueue(): never blocks; a full queue loses its oldest chunk.
Enqueue(dictation, audio) ==
  LET id   == enqueued + 1
      kept == IF Full THEN Tail(queue) ELSE queue
      rest == IF Full THEN [outcome EXCEPT ![Head(queue).id] = "dropped"]
                      ELSE outcome
  IN  /\ enqueued < MaxChunks
      /\ enqueued' = id
      /\ queue' = Append(kept, [id |-> id, dictation |-> dictation,
                                audio |-> audio])
      /\ outcome' = [rest EXCEPT ![id] = "queued"]
      /\ Notify
      /\ UNCHANGED <<stopFlag, armed, outputWriter, item, itemWriter, stopPc>>

\* setOnSessionDone(cb): TRUE arms a callback, FALSE clears it.
SetOnSessionDone(b) ==
  /\ armed' = b
  /\ Notify
  /\ UNCHANGED <<queue, stopFlag, outputWriter, item, itemWriter, stopPc,
                 enqueued, outcome>>

\* setOutputWriter(): does not wake the worker.
SetOutputWriter(w) ==
  /\ outputWriter' = w
  /\ UNCHANGED <<queue, stopFlag, armed, workerPc, item, itemWriter, stopPc,
                 enqueued, outcome>>

\* stop(), first half: raise the flag.
RequestStop ==
  /\ stopPc = "running"
  /\ stopPc' = "joining"
  /\ stopFlag' = TRUE
  /\ Notify
  /\ UNCHANGED <<queue, armed, outputWriter, item, itemWriter, enqueued, outcome>>

\* stop(), second half: join the thread, then free the model.
Join ==
  /\ stopPc = "joining"
  /\ workerPc = "exited"
  /\ stopPc' = "joined"
  /\ UNCHANGED <<queue, stopFlag, armed, outputWriter, workerPc, item,
                 itemWriter, enqueued, outcome>>

-----------------------------------------------------------------------------
(***************************************************************************)
(* The worker thread.                                                      *)
(***************************************************************************)

GoTo(from, to) == workerPc = from /\ workerPc' = to

\* Where cv.wait stops waiting.
WaitPredicate == stopFlag \/ queue # <<>> \/ armed

\* Mutant: the queue is not looked at.
DrainedUnchecked == armed

\* All pending chunks are processed and somebody wants to know.
Drained == queue = <<>> /\ armed

\* Stop was asked for and the queue is empty.
StopAndEmpty == stopFlag /\ queue = <<>>

\* The wait predicate is false: release the mutex and sleep.
Sleep ==
  /\ GoTo("check", "asleep")
  /\ ~WaitPredicate
  /\ UNCHANGED <<lockedVars, item, itemWriter, stopPc, enqueued, outcome>>

\* condition_variable::wait may return with nobody having notified.
WakeSpuriously ==
  /\ GoTo("asleep", "check")
  /\ UNCHANGED <<lockedVars, item, itemWriter, stopPc, enqueued, outcome>>

\* An empty queue and an armed callback, seen at the top of the loop:
\* move the callback out and unlock.
TakeSessionDone ==
  /\ GoTo("check", "sessionDone")
  /\ WaitPredicate /\ Drained
  /\ armed' = FALSE
  /\ UNCHANGED <<queue, stopFlag, outputWriter, item, itemWriter, stopPc,
                 enqueued, outcome>>

Exit ==
  /\ GoTo("check", "exited")
  /\ StopAndEmpty /\ ~Drained
  /\ UNCHANGED <<lockedVars, item, itemWriter, stopPc, enqueued, outcome>>

\* Mutant: the front is copied and not popped.
PopWithoutRemoving ==
  /\ GoTo("check", "transcribe")
  /\ queue # <<>> /\ ~StopAndEmpty
  /\ item' = Head(queue)
  /\ itemWriter' = outputWriter
  /\ outcome' = [outcome EXCEPT ![Head(queue).id] = "running"]
  /\ UNCHANGED <<queue, stopFlag, armed, outputWriter, stopPc, enqueued>>

\* Mutant: the newest chunk is taken.
PopNewest ==
  /\ GoTo("check", "transcribe")
  /\ queue # <<>> /\ ~StopAndEmpty
  /\ item' = queue[Len(queue)]
  /\ itemWriter' = outputWriter
  /\ queue' = SubSeq(queue, 1, Len(queue) - 1)
  /\ outcome' = [outcome EXCEPT ![queue[Len(queue)].id] = "running"]
  /\ UNCHANGED <<stopFlag, armed, outputWriter, stopPc, enqueued>>

\* Take the oldest chunk together with the writer attached at this moment.
Pop ==
  /\ GoTo("check", "transcribe")
  /\ queue # <<>> /\ ~StopAndEmpty
  /\ item' = Head(queue)
  /\ itemWriter' = outputWriter
  /\ queue' = Tail(queue)
  /\ outcome' = [outcome EXCEPT ![Head(queue).id] = "running"]
  /\ UNCHANGED <<stopFlag, armed, outputWriter, stopPc, enqueued>>

\* What the chunk in hand ends as; item and ow go out of scope with the
\* iteration.
Finish(how) ==
  /\ outcome' = [outcome EXCEPT ![item.id] = how]
  /\ item' = <<>>
  /\ itemWriter' = NoWriter
  /\ UNCHANGED <<lockedVars, stopPc, enqueued>>

\* whisper_full failed: on_error, then the next iteration.
TranscribeFails ==
  /\ "failed" \in Transcription
  /\ GoTo("transcribe", "check")
  /\ Finish("failed")

\* Dictation: on_result is called for a text that is not empty.
TranscribeDictation(how) ==
  /\ how \in Transcription \ {"failed"}
  /\ GoTo("transcribe", "check")
  /\ item.dictation
  /\ Finish(IF how = "text" THEN "result" ELSE "blank")

\* Session: every segment is added to the writer in hand, then flushed.
TranscribeSession ==
  /\ Transcription \ {"failed"} # {}
  /\ GoTo("transcribe", "checkDone")
  /\ ~item.dictation
  /\ Finish(IF itemWriter = NoWriter THEN "unsaved" ELSE "saved")

\* After a session chunk: fire the callback if nothing is left.
CheckDone ==
  /\ workerPc = "checkDone"
  /\ IF Drained
       THEN workerPc' = "sessionDone" /\ armed' = FALSE
       ELSE workerPc' = "check" /\ UNCHANGED armed
  /\ UNCHANGED <<queue, stopFlag, outputWriter, item, itemWriter, stopPc,
                 enqueued, outcome>>

\* The callback returns.
SessionDoneReturns ==
  /\ GoTo("sessionDone", "check")
  /\ UNCHANGED <<lockedVars, item, itemWriter, stopPc, enqueued, outcome>>

\* workerLoop outside the two callbacks that reach the controller.
WorkerLoop ==
  \/ Sleep \/ TakeSessionDone \/ Exit \/ Pop
  \/ TranscribeFails \/ TranscribeDictation("blank") \/ TranscribeSession
  \/ CheckDone

WorkerThread ==
  WorkerLoop \/ TranscribeDictation("text") \/ SessionDoneReturns

-----------------------------------------------------------------------------
(***************************************************************************)
(* The worker alone.  Any thread enqueues or attaches a writer at any      *)
(* time; the other calls are the owner's, which runs nothing else while    *)
(* stop() joins.                                                           *)
(***************************************************************************)

Owner ==
  /\ stopPc # "joining"
  /\ \/ \E b \in BOOLEAN : SetOnSessionDone(b)
     \/ RequestStop

AnyThread ==
  \/ \E dictation \in BOOLEAN, audio \in Audio : Enqueue(dictation, audio)
  \/ \E w \in Writers \union {NoWriter} : SetOutputWriter(w)

WorkerNext == AnyThread \/ Owner \/ Join \/ WorkerThread \/ WakeSpuriously

\* The worker thread keeps being scheduled, whisper_full returns, and so does
\* the call that joins it.
WorkerFairness ==
  /\ WF_workerVars(WorkerThread)
  /\ WF_workerVars(Join)

WorkerSafetySpec == WorkerInit /\ [][WorkerNext]_workerVars
WorkerSpec == WorkerSafetySpec /\ WorkerFairness

-----------------------------------------------------------------------------
(***************************************************************************)
(* Properties.                                                             *)
(***************************************************************************)

\* The queue holds the most recent chunks, in the order of their enqueue()
\* calls, however overflows and the worker's pops interleave.
QueueHoldsNewest ==
  \A k \in 1..Len(queue) : queue[k].id = enqueued - Len(queue) + k

\* No chunk is lost in silence and none is processed twice: what was ever
\* enqueued is in the queue, in the worker's hand, or settled, and only there.
EveryChunkAccounted ==
  \A i \in Chunk :
    /\ outcome[i] = "none" <=> i > enqueued
    /\ outcome[i] = "queued" <=> \E k \in 1..Len(queue) : queue[k].id = i
    /\ outcome[i] = "running" <=> workerPc = "transcribe" /\ item.id = i

\* Overflow costs old audio only: a dropped chunk has at least QueueMax newer
\* ones behind it.
OnlyOldChunksDropped ==
  \A i \in Chunk : outcome[i] = "dropped" => i + QueueMax <= enqueued

AllSettled == \A i \in 1..enqueued : outcome[i] \notin Waiting

\* whisper_worker.h:71, "invoked once when the queue empties after all pending
\* session chunks have been processed": from either of the two places that
\* fire it, the callback runs with every chunk enqueued so far settled.
SessionDoneAfterDrain ==
  [][workerPc # "sessionDone" /\ workerPc' = "sessionDone" => AllSettled]_workerVars

\* stop() drains: the thread leaves its loop only when no chunk waits and no
\* callback is pending.
ExitAfterDrain ==
  [][workerPc # "exited" /\ workerPc' = "exited" => AllSettled /\ ~armed]_workerVars

\* None of the three reasons to wake is slept through: every chunk enqueued
\* while the worker lives is settled in the end, an armed callback is fired or
\* replaced even when no chunk arrives after it was armed, and stop() returns.
NothingWaits ==
  /\ \A i \in Chunk :
       outcome[i] \in Waiting ~> outcome[i] \in Settled \/ workerPc = "exited"
  /\ armed ~> ~armed \/ workerPc = "exited"
  /\ stopPc = "joining" ~> stopPc = "joined"

-----------------------------------------------------------------------------
(***************************************************************************)
(* The worker implements TranscriptionQueue.                               *)
(***************************************************************************)

abstractStatus ==
  [i \in Chunk |-> IF outcome[i] \in Waiting THEN "waiting"
                  ELSE IF outcome[i] \in {"none", "dropped"} THEN outcome[i]
                  ELSE "done"]

abstractPhase == IF workerPc = "sessionDone" THEN "noticing"
                 ELSE IF workerPc = "exited" THEN "closed" ELSE "open"

TQ == INSTANCE TranscriptionQueue WITH
        Capacity   <- QueueMax,
        status     <- abstractStatus,
        submitted  <- enqueued,
        noticeOwed <- armed,
        phase      <- abstractPhase

\* Behind mutex, condition variable and thread the users see the queue of
\* TranscriptionQueue: chunks settled in order, only overflow loses one, no
\* drain notice and no exit while one waits.
ImplementsQueue == TQ!QueueSpec

=============================================================================
