------------------------- MODULE WhisperWorkerProofs -------------------------
(***************************************************************************)
(* The transcription worker, proved for every queue size, every number of  *)
(* chunks and every set of writers.                                        *)
(***************************************************************************)
EXTENDS WhisperWorker, TLAPS, SequenceTheorems

\* The chunks that have left the queue: all but the newest Len(queue).
LeftQueue(i) == i + Len(queue) <= enqueued

\* The chunk in the worker's hand is older than every chunk in the queue.
InHand ==
  IF workerPc = "transcribe"
    THEN item \in Item /\ LeftQueue(item.id)
    ELSE item = <<>>

\* Each outcome in terms of the position of the chunk.
OutcomeByPosition ==
  \A i \in Chunk :
    /\ outcome[i] = "none" <=> i > enqueued
    /\ outcome[i] = "queued" <=> i <= enqueued /\ ~LeftQueue(i)
    /\ outcome[i] = "running" <=> workerPc = "transcribe" /\ item.id = i

\* The inductive invariant.
WorkerInv ==
  /\ WorkerTypeOK
  /\ Len(queue) <= enqueued
  /\ QueueHoldsNewest
  /\ InHand
  /\ OutcomeByPosition
  /\ OnlyOldChunksDropped

-----------------------------------------------------------------------------

\* Taking the head of a queue shifts every element one place forward.
LEMMA TailShifts ==
  ASSUME NEW S, NEW q \in Seq(S), q # <<>>
  PROVE  /\ Tail(q) \in Seq(S)
         /\ Head(q) \in S
         /\ Head(q) = q[1]
         /\ Len(q) \in Nat \ {0}
         /\ Len(Tail(q)) = Len(q) - 1
         /\ \A k \in 1..Len(Tail(q)) : Tail(q)[k] = q[k + 1]
  BY HeadTailProperties, EmptySeq, LenProperties

\* Appending keeps the elements and adds one at the end.
LEMMA AppendAdds ==
  ASSUME NEW S, NEW q \in Seq(S), NEW e \in S
  PROVE  /\ Append(q, e) \in Seq(S)
         /\ Len(Append(q, e)) = Len(q) + 1
         /\ \A k \in 1..Len(q) : Append(q, e)[k] = q[k]
         /\ Append(q, e)[Len(q) + 1] = e
  BY AppendProperties

\* The state start() leaves behind satisfies the invariant.
LEMMA InitInv == WorkerInit => WorkerInv
  <1> SUFFICES ASSUME WorkerInit PROVE WorkerInv
    OBVIOUS
  <1> USE WorkerAssumption DEF WorkerInit
  <1>1. queue = <<>> /\ Len(queue) = 0 /\ queue \in Seq(Item) /\ Len(queue) <= QueueMax
    BY EmptySeq
  <1>2. WorkerTypeOK
    <2>1. enqueued \in 0..MaxChunks
      OBVIOUS
    <2>2. outcome \in [Chunk -> {"none"} \union Waiting \union Settled]
      OBVIOUS
    <2>3. workerPc \in WorkerPcs /\ stopPc \in {"running", "joining", "joined"}
      BY DEF WorkerPcs
    <2>4. QED
      BY <1>1, <2>1, <2>2, <2>3 DEF WorkerTypeOK
  <1>3. QueueHoldsNewest /\ InHand /\ OnlyOldChunksDropped
    BY <1>1 DEF QueueHoldsNewest, InHand, OnlyOldChunksDropped
  <1>4. OutcomeByPosition
    BY <1>1 DEF OutcomeByPosition, LeftQueue, Chunk
  <1>5. QED
    BY <1>1, <1>2, <1>3, <1>4 DEF WorkerInv

\* enqueue() preserves it, with or without an overflow.
LEMMA EnqueueInv ==
  ASSUME WorkerInv, NEW dictation \in BOOLEAN, NEW audio \in Audio,
         Enqueue(dictation, audio)
  PROVE  WorkerInv'
  <1> USE WorkerAssumption
  <1> DEFINE id   == enqueued + 1
             kept == IF Full THEN Tail(queue) ELSE queue
             new  == [id |-> id, dictation |-> dictation, audio |-> audio]
  <1>1. /\ queue \in Seq(Item) /\ enqueued \in 0..MaxChunks
        /\ outcome \in [Chunk -> {"none"} \union Waiting \union Settled]
        /\ enqueued \in Nat /\ QueueMax \in Nat
        /\ Len(queue) \in Nat /\ Len(queue) <= QueueMax /\ Len(queue) <= enqueued
        /\ \A k \in 1..Len(queue) : queue[k].id = enqueued - Len(queue) + k
    BY LenProperties DEF WorkerInv, WorkerTypeOK, QueueHoldsNewest
  <1>2. /\ enqueued < MaxChunks /\ enqueued' = id /\ id \in Chunk
        /\ new \in Item /\ new.id = id
    BY <1>1 DEF Enqueue, Chunk, Item
  <1>3. ASSUME Full
        PROVE  /\ queue # <<>> /\ Len(queue) = QueueMax
               /\ Head(queue).id + QueueMax = id
               /\ Head(queue).id \in Chunk
    <2>1. Len(queue) = QueueMax
      BY <1>1, <1>3 DEF Full
    <2>2. queue # <<>>
      BY <2>1, <1>1, EmptySeq
    <2>3. Head(queue) \in Item /\ Head(queue).id = enqueued - Len(queue) + 1
      BY <2>1, <2>2, <1>1, TailShifts DEF WorkerInv, QueueHoldsNewest
    <2>4. QED
      BY <2>1, <2>2, <2>3, <1>1 DEF Item
  <1>4. /\ kept \in Seq(Item)
        /\ Len(kept) = IF Full THEN Len(queue) - 1 ELSE Len(queue)
        /\ Len(kept) \in Nat /\ Len(kept) < QueueMax /\ Len(kept) <= enqueued
        /\ \A k \in 1..Len(kept) : kept[k].id = enqueued - Len(kept) + k
    <2>1. CASE Full
      <3>1. /\ kept = Tail(queue) /\ kept \in Seq(Item)
            /\ Len(kept) = Len(queue) - 1
            /\ \A k \in 1..Len(kept) : kept[k] = queue[k + 1]
        BY <2>1, <1>1, <1>3, TailShifts
      <3>2. QED
        <4> HIDE DEF kept
        <4>1. Len(kept) = QueueMax - 1
          BY <3>1, <1>1, <1>3, <2>1
        <4>2. ASSUME NEW k \in 1..Len(kept)
              PROVE  kept[k].id = enqueued - Len(kept) + k
          <5>1. kept[k] = queue[k + 1] /\ k + 1 \in 1..Len(queue)
            BY <3>1, <1>1
          <5>2. QED
            BY <5>1, <3>1, <1>1
        <4>3. QED
          BY <4>1, <4>2, <3>1, <1>1, <2>1
    <2>2. CASE ~Full
      BY <2>2, <1>1 DEF WorkerInv, QueueHoldsNewest, Full
    <2>3. QED
      BY <2>1, <2>2
  <1>5. /\ queue' \in Seq(Item)
        /\ Len(queue') = Len(kept) + 1
        /\ \A k \in 1..Len(kept) : queue'[k] = kept[k]
        /\ queue'[Len(kept) + 1] = new
    <2>1. queue' = Append(kept, new)
      BY DEF Enqueue
    <2> HIDE DEF kept, new
    <2>2. QED
      BY <2>1, <1>2, <1>4, AppendAdds
  <1> HIDE DEF kept, new
  <1>6. /\ QueueHoldsNewest'
        /\ Len(queue') <= QueueMax /\ Len(queue') <= enqueued'
    <2>1. Len(queue') <= QueueMax /\ Len(queue') <= enqueued'
      BY <1>1, <1>2, <1>4, <1>5
    <2>2. ASSUME NEW k \in 1..Len(queue')
          PROVE  queue'[k].id = enqueued' - Len(queue') + k
      <3>1. CASE k = Len(kept) + 1
        <4>1. queue'[k] = new
          BY <3>1, <1>5
        <4>2. enqueued' - Len(queue') + k = id
          <5>1. Len(kept) \in Nat /\ Len(queue') = Len(kept) + 1
            BY <1>4, <1>5
          <5>2. enqueued \in Nat /\ enqueued' = enqueued + 1
            BY <1>1, <1>2
          <5>3. QED
            BY <5>1, <5>2, <3>1
        <4>3. QED
          BY <4>1, <4>2, <1>2
      <3>2. CASE k # Len(kept) + 1
        <4>1. k \in 1..Len(kept) /\ queue'[k] = kept[k]
          BY <3>2, <1>4, <1>5
        <4>2. kept[k].id = enqueued - Len(kept) + k
          BY <4>1, <1>4
        <4>3. QED
          BY <4>1, <4>2, <1>1, <1>2, <1>4, <1>5
      <3>3. QED
        BY <3>1, <3>2
    <2>3. QED
      BY <2>1, <2>2 DEF QueueHoldsNewest
  <1>7. outcome' \in [Chunk -> {"none"} \union Waiting \union Settled]
    BY <1>1, <1>2, <1>3 DEF Enqueue, Waiting, Settled
  <1>8. WorkerTypeOK'
    <2>1. workerPc' \in WorkerPcs
      BY DEF WorkerInv, WorkerTypeOK, Enqueue, Notify, WorkerPcs
    <2>2. enqueued' \in 0..MaxChunks
      BY <1>1, <1>2
    <2>3. UNCHANGED <<stopFlag, armed, outputWriter, item, itemWriter, stopPc>>
      BY DEF Enqueue
    <2>4. QED
      BY <1>5, <1>6, <1>7, <2>1, <2>2, <2>3 DEF WorkerInv, WorkerTypeOK
  <1>9. \A i \in Chunk : LeftQueue(i)' <=>
           LeftQueue(i) \/ (Full /\ i = Head(queue).id)
    <2>1. CASE Full
      BY <2>1, <1>1, <1>2, <1>3, <1>4, <1>5, TailShifts DEF LeftQueue, Chunk
    <2>2. CASE ~Full
      BY <2>2, <1>1, <1>2, <1>4, <1>5 DEF LeftQueue, Chunk
    <2>3. QED
      BY <2>1, <2>2
  <1>10. /\ item' = item
         /\ workerPc' = "transcribe" <=> workerPc = "transcribe"
    BY DEF Enqueue, Notify
  <1>11. InHand'
    BY <1>9, <1>10 DEF WorkerInv, InHand, Item
  <1>12. \A i \in Chunk : outcome'[i] =
            IF i = id THEN "queued"
            ELSE IF Full /\ i = Head(queue).id THEN "dropped" ELSE outcome[i]
    BY <1>1, <1>2, <1>3 DEF Enqueue
  <1>13. OutcomeByPosition'
    <2> SUFFICES ASSUME NEW i \in Chunk
                 PROVE  /\ outcome'[i] = "none" <=> i > enqueued'
                        /\ outcome'[i] = "queued" <=> i <= enqueued' /\ ~LeftQueue(i)'
                        /\ outcome'[i] = "running" <=> workerPc' = "transcribe" /\ item'.id = i
      BY DEF OutcomeByPosition
    <2>1. /\ outcome[i] = "none" <=> i > enqueued
          /\ outcome[i] = "queued" <=> i <= enqueued /\ ~LeftQueue(i)
          /\ outcome[i] = "running" <=> workerPc = "transcribe" /\ item.id = i
      BY DEF WorkerInv, OutcomeByPosition
    <2>2. workerPc = "transcribe" => item.id <= enqueued /\ LeftQueue(item.id)
      BY <1>1 DEF WorkerInv, InHand, LeftQueue, Item, Chunk
    <2>3. CASE i = id
      <3>1. outcome'[i] = "queued" /\ i > enqueued /\ i <= enqueued'
        BY <2>3, <1>1, <1>2, <1>12
      <3>2. ~LeftQueue(i) /\ ~LeftQueue(i)'
        <4>1. i = enqueued + 1 /\ enqueued' = enqueued + 1 /\ enqueued \in Nat
          BY <2>3, <1>1, <1>2
        <4>2. Len(queue) \in Nat /\ Len(queue') \in Nat /\ Len(queue') > 0
          BY <1>1, <1>4, <1>5
        <4>3. QED
          BY <4>1, <4>2 DEF LeftQueue
      <3>3. ~(workerPc = "transcribe" /\ item.id = i)
        BY <2>2, <3>2
      <3>4. ~(i > enqueued')
        BY <3>1, <1>1, <1>2 DEF Chunk
      <3>5. QED
        BY <3>1, <3>2, <3>3, <3>4, <1>10
    <2>4. CASE i # id /\ Full /\ i = Head(queue).id
      <3>1. outcome'[i] = "dropped" /\ LeftQueue(i)'
        BY <2>4, <1>9, <1>12
      <3>2. ~LeftQueue(i) /\ i <= enqueued
        BY <2>4, <1>1, <1>2, <1>3 DEF LeftQueue, Chunk
      <3>3. ~(workerPc = "transcribe" /\ item.id = i)
        BY <2>2, <3>2
      <3>4. ~(i > enqueued')
        BY <3>2, <1>1, <1>2 DEF Chunk
      <3>5. QED
        BY <3>1, <3>3, <3>4, <1>10
    <2>5. CASE i # id /\ ~(Full /\ i = Head(queue).id)
      <3>1. outcome'[i] = outcome[i] /\ (LeftQueue(i)' <=> LeftQueue(i))
        BY <2>5, <1>9, <1>12
      <3>2. (i > enqueued' <=> i > enqueued) /\ (i <= enqueued' <=> i <= enqueued)
        BY <2>5, <1>1, <1>2 DEF Chunk
      <3>3. QED
        BY <2>1, <3>1, <3>2, <1>10
    <2>6. QED
      BY <2>3, <2>4, <2>5
  <1>14. OnlyOldChunksDropped'
    BY <1>1, <1>2, <1>3, <1>12 DEF WorkerInv, OnlyOldChunksDropped, Chunk
  <1>15. QED
    BY <1>6, <1>8, <1>11, <1>13, <1>14 DEF WorkerInv

\* A step that moves no chunk: flags, the attached writer, and the thread's
\* place outside the transcription may change.
LEMMA QuietInv ==
  ASSUME WorkerInv,
         UNCHANGED <<queue, item, enqueued, outcome>>,
         \/ workerPc' = workerPc
         \/ workerPc # "transcribe" /\ workerPc' \in WorkerPcs \ {"transcribe"},
         stopFlag' \in BOOLEAN, armed' \in BOOLEAN,
         outputWriter' \in Writers \union {NoWriter},
         itemWriter' \in Writers \union {NoWriter},
         stopPc' \in {"running", "joining", "joined"}
  PROVE  WorkerInv'
  <1>1. workerPc' = "transcribe" <=> workerPc = "transcribe"
    OBVIOUS
  <1>2. WorkerTypeOK'
    BY DEF WorkerInv, WorkerTypeOK
  <1>3. QueueHoldsNewest' /\ OnlyOldChunksDropped' /\ Len(queue') <= enqueued'
    BY DEF WorkerInv, QueueHoldsNewest, OnlyOldChunksDropped
  <1>4. InHand' /\ OutcomeByPosition'
    BY <1>1 DEF WorkerInv, InHand, OutcomeByPosition, LeftQueue
  <1>5. QED
    BY <1>2, <1>3, <1>4 DEF WorkerInv

\* The worker takes the oldest chunk.
LEMMA PopInv ==
  ASSUME WorkerInv, Pop
  PROVE  WorkerInv'
  <1> USE WorkerAssumption
  <1> DEFINE h == Head(queue)
  <1>1. /\ queue \in Seq(Item) /\ enqueued \in Nat /\ QueueMax \in Nat
        /\ enqueued \in 0..MaxChunks
        /\ outcome \in [Chunk -> {"none"} \union Waiting \union Settled]
        /\ Len(queue) \in Nat /\ Len(queue) <= QueueMax /\ Len(queue) <= enqueued
        /\ \A k \in 1..Len(queue) : queue[k].id = enqueued - Len(queue) + k
    BY LenProperties DEF WorkerInv, WorkerTypeOK, QueueHoldsNewest
  <1>2. /\ queue # <<>> /\ queue' = Tail(queue)
        /\ item' = h /\ enqueued' = enqueued /\ workerPc' = "transcribe"
        /\ outcome' = [outcome EXCEPT ![h.id] = "running"]
    BY DEF Pop, GoTo
  <1>3. /\ queue' \in Seq(Item)
        /\ h \in Item /\ h = queue[1]
        /\ Len(queue) > 0
        /\ Len(queue') \in Nat /\ Len(queue') = Len(queue) - 1
        /\ \A k \in 1..Len(queue') : queue'[k] = queue[k + 1]
    BY <1>1, <1>2, TailShifts
  <1> HIDE DEF h
  <1>4. /\ h.id \in Chunk /\ h.id \in Nat
        /\ h.id + Len(queue) = enqueued + 1
        /\ h.id + Len(queue') = enqueued
    <2>1. h.id \in Chunk
      BY <1>3 DEF Item
    <2>2. h.id = enqueued - Len(queue) + 1
      BY <1>1, <1>3
    <2>3. h.id \in Nat
      BY <2>1 DEF Chunk
    <2>4. QED
      BY <2>1, <2>2, <2>3, <1>1, <1>3
  <1>5. /\ QueueHoldsNewest'
        /\ Len(queue') <= QueueMax /\ Len(queue') <= enqueued'
    <2>1. Len(queue') <= QueueMax /\ Len(queue') <= enqueued'
      BY <1>1, <1>2, <1>3
    <2>2. ASSUME NEW k \in 1..Len(queue')
          PROVE  queue'[k].id = enqueued' - Len(queue') + k
      <3>1. queue'[k] = queue[k + 1] /\ k + 1 \in 1..Len(queue)
        BY <1>1, <1>3
      <3>2. queue[k + 1].id = enqueued - Len(queue) + (k + 1)
        BY <3>1, <1>1
      <3>3. QED
        BY <3>1, <3>2, <1>1, <1>2, <1>3
    <2>3. QED
      BY <2>1, <2>2 DEF QueueHoldsNewest
  <1>6. WorkerTypeOK'
    <2>1. outcome' \in [Chunk -> {"none"} \union Waiting \union Settled]
      BY <1>1, <1>2 DEF Waiting
    <2>2. workerPc' \in WorkerPcs /\ enqueued' \in 0..MaxChunks
      BY <1>1, <1>2 DEF WorkerPcs
    <2>3. /\ UNCHANGED <<stopFlag, armed, outputWriter, stopPc>>
          /\ itemWriter' = outputWriter
      BY DEF Pop
    <2>4. QED
      BY <1>2, <1>3, <1>5, <2>1, <2>2, <2>3 DEF WorkerInv, WorkerTypeOK
  <1>7. InHand'
    BY <1>1, <1>2, <1>3, <1>4 DEF InHand, LeftQueue
  <1>8. \A i \in Chunk : /\ outcome'[i] = IF i = h.id THEN "running" ELSE outcome[i]
                         /\ LeftQueue(i)' <=> LeftQueue(i) \/ i = h.id
    <2> TAKE i \in Chunk
    <2>1. outcome'[i] = IF i = h.id THEN "running" ELSE outcome[i]
      BY <1>1, <1>2
    <2>2. i + Len(queue') <= enqueued <=> i + Len(queue) <= enqueued \/ i = h.id
      BY <1>1, <1>3, <1>4 DEF Chunk
    <2>3. QED
      BY <2>1, <2>2, <1>2 DEF LeftQueue
  <1>9. OutcomeByPosition'
    <2> SUFFICES ASSUME NEW i \in Chunk
                 PROVE  /\ outcome'[i] = "none" <=> i > enqueued'
                        /\ outcome'[i] = "queued" <=> i <= enqueued' /\ ~LeftQueue(i)'
                        /\ outcome'[i] = "running" <=> workerPc' = "transcribe" /\ item'.id = i
      BY DEF OutcomeByPosition
    <2>1. /\ outcome[i] = "none" <=> i > enqueued
          /\ outcome[i] = "queued" <=> i <= enqueued /\ ~LeftQueue(i)
          /\ outcome[i] = "running" <=> workerPc = "transcribe" /\ item.id = i
          /\ workerPc = "check"
      BY DEF WorkerInv, OutcomeByPosition, Pop, GoTo
    <2>2. CASE i = h.id
      <3>1. i <= enqueued /\ ~(i > enqueued)
        <4>1. i \in Nat /\ i + Len(queue') = enqueued
          BY <2>2, <1>4
        <4>2. enqueued \in Nat /\ Len(queue') \in Nat
          BY <1>1, <1>3
        <4>3. QED
          BY <4>1, <4>2
      <3>2. QED
        BY <2>2, <3>1, <1>2, <1>8
    <2>3. CASE i # h.id
      BY <2>1, <2>3, <1>2, <1>8
    <2>4. QED
      BY <2>2, <2>3
  <1>10. OnlyOldChunksDropped'
    BY <1>2, <1>8 DEF WorkerInv, OnlyOldChunksDropped
  <1>11. QED
    BY <1>5, <1>6, <1>7, <1>9, <1>10 DEF WorkerInv

\* The chunk in hand is settled, whatever it ends as.
LEMMA FinishInv ==
  ASSUME WorkerInv, workerPc = "transcribe",
         workerPc' \in {"check", "checkDone"},
         NEW how \in Settled \ {"dropped"}, Finish(how)
  PROVE  WorkerInv'
  <1>1. /\ UNCHANGED <<queue, stopFlag, armed, outputWriter, stopPc, enqueued>>
        /\ item' = <<>> /\ itemWriter' = NoWriter
        /\ outcome' = [outcome EXCEPT ![item.id] = how]
    BY DEF Finish, lockedVars
  <1>2. item \in Item /\ item.id \in Chunk /\ LeftQueue(item.id)
    BY DEF WorkerInv, InHand, Item
  <1>3. outcome \in [Chunk -> {"none"} \union Waiting \union Settled]
    BY DEF WorkerInv, WorkerTypeOK
  <1>4. WorkerTypeOK'
    <2>1. outcome' \in [Chunk -> {"none"} \union Waiting \union Settled]
      BY <1>1, <1>3
    <2>2. workerPc' \in WorkerPcs
      BY DEF WorkerPcs
    <2>3. QED
      BY <1>1, <2>1, <2>2 DEF WorkerInv, WorkerTypeOK
  <1>5. QueueHoldsNewest' /\ Len(queue') <= enqueued' /\ InHand'
    BY <1>1 DEF WorkerInv, QueueHoldsNewest, InHand
  <1>6. OutcomeByPosition'
    <2> SUFFICES ASSUME NEW i \in Chunk
                 PROVE  /\ outcome'[i] = "none" <=> i > enqueued'
                        /\ outcome'[i] = "queued" <=> i <= enqueued' /\ ~LeftQueue(i)'
                        /\ outcome'[i] = "running" <=> workerPc' = "transcribe" /\ item'.id = i
      BY DEF OutcomeByPosition
    <2>1. /\ outcome[i] = "none" <=> i > enqueued
          /\ outcome[i] = "queued" <=> i <= enqueued /\ ~LeftQueue(i)
          /\ outcome[i] = "running" <=> item.id = i
      BY DEF WorkerInv, OutcomeByPosition
    <2>2. (LeftQueue(i)' <=> LeftQueue(i)) /\ enqueued' = enqueued
      BY <1>1 DEF LeftQueue
    <2>3. how \notin {"none", "queued", "running"} /\ workerPc' # "transcribe"
      BY DEF Settled
    <2>4. CASE i = item.id
      <3>1. outcome'[i] = how
        BY <2>4, <1>1, <1>2, <1>3
      <3>2. LeftQueue(i) /\ outcome[i] = "running"
        BY <2>4, <2>1, <1>2
      <3>3. ~(i > enqueued)
        BY <2>1, <3>2
      <3>4. QED
        BY <3>1, <3>2, <3>3, <2>2, <2>3
    <2>5. CASE i # item.id
      <3>1. outcome'[i] = outcome[i]
        BY <2>5, <1>1, <1>2, <1>3
      <3>2. QED
        BY <3>1, <2>1, <2>2, <2>3, <2>5
    <2>6. QED
      BY <2>4, <2>5
  <1>7. OnlyOldChunksDropped'
    BY <1>1, <1>2, <1>3 DEF WorkerInv, OnlyOldChunksDropped, Settled
  <1>8. QED
    BY <1>4, <1>5, <1>6, <1>7 DEF WorkerInv

-----------------------------------------------------------------------------

\* Every step preserves the invariant.
LEMMA NextInv ==
  ASSUME WorkerInv, [WorkerNext]_workerVars
  PROVE  WorkerInv'
  <1>0. WorkerTypeOK
    BY DEF WorkerInv
  <1>1. ASSUME NEW dictation \in BOOLEAN, NEW audio \in Audio,
               Enqueue(dictation, audio)
        PROVE  WorkerInv'
    BY <1>1, EnqueueInv
  <1>2. ASSUME NEW b \in BOOLEAN, SetOnSessionDone(b)
        PROVE  WorkerInv'
    BY <1>0, <1>2, QuietInv
    DEF SetOnSessionDone, Notify, WorkerTypeOK, WorkerPcs
  <1>3. ASSUME NEW w \in Writers \union {NoWriter}, SetOutputWriter(w)
        PROVE  WorkerInv'
    BY <1>0, <1>3, QuietInv DEF SetOutputWriter, WorkerTypeOK
  <1>4. ASSUME RequestStop PROVE WorkerInv'
    BY <1>0, <1>4, QuietInv DEF RequestStop, Notify, WorkerTypeOK, WorkerPcs
  <1>5. ASSUME Join PROVE WorkerInv'
    BY <1>0, <1>5, QuietInv DEF Join, WorkerTypeOK
  <1>6. ASSUME Sleep \/ WakeSpuriously \/ Exit \/ SessionDoneReturns
        PROVE  WorkerInv'
    BY <1>0, <1>6, QuietInv
    DEF Sleep, WakeSpuriously, Exit, SessionDoneReturns, GoTo, lockedVars,
        WorkerTypeOK, WorkerPcs
  <1>7. ASSUME TakeSessionDone PROVE WorkerInv'
    BY <1>0, <1>7, QuietInv DEF TakeSessionDone, GoTo, WorkerTypeOK, WorkerPcs
  <1>8. ASSUME CheckDone PROVE WorkerInv'
    BY <1>0, <1>8, QuietInv DEF CheckDone, WorkerTypeOK, WorkerPcs
  <1>9. ASSUME Pop PROVE WorkerInv'
    BY <1>9, PopInv
  <1>10. ASSUME TranscribeFails PROVE WorkerInv'
    BY <1>10, FinishInv DEF TranscribeFails, GoTo, Settled
  <1>11. ASSUME NEW how, TranscribeDictation(how) PROVE WorkerInv'
    BY <1>11, FinishInv DEF TranscribeDictation, GoTo, Settled
  <1>12. ASSUME TranscribeSession PROVE WorkerInv'
    BY <1>12, FinishInv DEF TranscribeSession, GoTo, Settled
  <1>13. CASE UNCHANGED workerVars
    BY <1>0, <1>13, QuietInv DEF workerVars, WorkerTypeOK
  <1>14. QED
    BY <1>1, <1>2, <1>3, <1>4, <1>5, <1>6, <1>7, <1>8, <1>9, <1>10, <1>11,
       <1>12, <1>13
    DEF WorkerNext, AnyThread, Owner, WorkerThread, WorkerLoop

\* The inductive invariant holds in every reachable state.
THEOREM WorkerInvariant == WorkerSafetySpec => []WorkerInv
  BY InitInv, NextInv, PTL DEF WorkerSafetySpec

\* Type correctness of the worker.
THEOREM WorkerTyped == WorkerSafetySpec => []WorkerTypeOK
  <1>1. WorkerInv => WorkerTypeOK
    BY DEF WorkerInv
  <1>2. QED
    BY WorkerInvariant, <1>1, PTL

\* The queue always holds exactly the newest chunks, oldest first, and at
\* most QueueMax of them.
THEOREM QueueHoldsNewestAlways == WorkerSafetySpec => []QueueHoldsNewest
  <1>1. WorkerInv => QueueHoldsNewest
    BY DEF WorkerInv
  <1>2. QED
    BY WorkerInvariant, <1>1, PTL

\* A chunk is dropped only when QueueMax newer chunks were enqueued.
THEOREM OnlyOldChunksDroppedAlways == WorkerSafetySpec => []OnlyOldChunksDropped
  <1>1. WorkerInv => OnlyOldChunksDropped
    BY DEF WorkerInv
  <1>2. QED
    BY WorkerInvariant, <1>1, PTL

\* Each chunk is in exactly one place: the queue, the hand, or settled.
THEOREM EveryChunkAccountedAlways == WorkerSafetySpec => []EveryChunkAccounted
  <1>1. ASSUME WorkerInv PROVE EveryChunkAccounted
    <2>1. /\ enqueued \in Nat /\ Len(queue) \in Nat /\ Len(queue) <= enqueued
          /\ \A k \in 1..Len(queue) : queue[k].id = enqueued - Len(queue) + k
      BY <1>1, WorkerAssumption, LenProperties
      DEF WorkerInv, WorkerTypeOK, QueueHoldsNewest
    <2>2. ASSUME NEW i \in Chunk
          PROVE  (i <= enqueued /\ ~LeftQueue(i)) <=>
                   \E k \in 1..Len(queue) : queue[k].id = i
      <3>1. i \in Nat
        BY DEF Chunk
      <3>2. ASSUME i <= enqueued, ~LeftQueue(i)
            PROVE  \E k \in 1..Len(queue) : queue[k].id = i
        <4>1. i + Len(queue) - enqueued \in 1..Len(queue)
          BY <2>1, <3>1, <3>2 DEF LeftQueue
        <4>2. queue[i + Len(queue) - enqueued].id = i
          BY <2>1, <3>1, <4>1
        <4>3. QED
          BY <4>1, <4>2
      <3>3. ASSUME NEW k \in 1..Len(queue), queue[k].id = i
            PROVE  i <= enqueued /\ ~LeftQueue(i)
        <4>1. i = enqueued - Len(queue) + k
          BY <2>1, <3>3
        <4>2. QED
          BY <2>1, <3>1, <4>1 DEF LeftQueue
      <3>4. QED
        BY <3>2, <3>3
    <2>3. QED
      BY <1>1, <2>2 DEF WorkerInv, OutcomeByPosition, EveryChunkAccounted
  <1>2. QED
    BY WorkerInvariant, <1>1, PTL

\* With nothing queued and nothing in hand, every chunk is settled.
LEMMA EmptyMeansSettled ==
  ASSUME WorkerInv, queue = <<>>, workerPc # "transcribe"
  PROVE  AllSettled
  <1>1. Len(queue) = 0 /\ enqueued \in 0..MaxChunks
    BY EmptySeq DEF WorkerInv, WorkerTypeOK
  <1>2. SUFFICES ASSUME NEW i \in 1..enqueued
                 PROVE  outcome[i] \notin Waiting
    BY DEF AllSettled
  <1>3. i \in Chunk /\ LeftQueue(i)
    BY <1>1, WorkerAssumption DEF Chunk, LeftQueue
  <1>4. QED
    BY <1>3 DEF WorkerInv, OutcomeByPosition, Waiting

\* The drain callback is fired only with every chunk settled, from whichever
\* place in the loop.
THEOREM SessionDoneAfterDrainAlways == WorkerSafetySpec => SessionDoneAfterDrain
  <1>1. ASSUME WorkerInv, [WorkerNext]_workerVars,
               workerPc # "sessionDone", workerPc' = "sessionDone"
        PROVE  AllSettled
    <2>1. TakeSessionDone \/ CheckDone
      BY <1>1
      DEF WorkerNext, AnyThread, Owner, WorkerThread, WorkerLoop, workerVars,
          Enqueue, SetOnSessionDone, SetOutputWriter, RequestStop, Join, Notify,
          Sleep, WakeSpuriously, Exit, Pop, TranscribeFails, GoTo,
          TranscribeDictation, TranscribeSession, SessionDoneReturns
    <2>2. queue = <<>> /\ workerPc # "transcribe"
      BY <1>1, <2>1 DEF TakeSessionDone, CheckDone, Drained, GoTo
    <2>3. QED
      BY <1>1, <2>2, EmptyMeansSettled
  <1>2. WorkerInv /\ [WorkerNext]_workerVars
          => [workerPc # "sessionDone" /\ workerPc' = "sessionDone" => AllSettled]_workerVars
    BY <1>1
  <1>3. QED
    BY WorkerInvariant, <1>2, PTL DEF WorkerSafetySpec, SessionDoneAfterDrain

\* The thread leaves its loop only with every chunk settled and no callback
\* owed.
THEOREM ExitAfterDrainAlways == WorkerSafetySpec => ExitAfterDrain
  <1>1. ASSUME WorkerInv, [WorkerNext]_workerVars,
               workerPc # "exited", workerPc' = "exited"
        PROVE  AllSettled /\ ~armed
    <2>1. Exit
      BY <1>1
      DEF WorkerNext, AnyThread, Owner, WorkerThread, WorkerLoop, workerVars,
          Enqueue, SetOnSessionDone, SetOutputWriter, RequestStop, Join, Notify,
          Sleep, WakeSpuriously, Pop, TranscribeFails, GoTo, TakeSessionDone,
          CheckDone, TranscribeDictation, TranscribeSession, SessionDoneReturns
    <2>2. queue = <<>> /\ workerPc # "transcribe" /\ ~armed
      BY <2>1 DEF Exit, StopAndEmpty, Drained, GoTo
    <2>3. QED
      BY <1>1, <2>2, EmptyMeansSettled
  <1>2. WorkerInv /\ [WorkerNext]_workerVars
          => [workerPc # "exited" /\ workerPc' = "exited" => AllSettled /\ ~armed]_workerVars
    BY <1>1
  <1>3. QED
    BY WorkerInvariant, <1>2, PTL DEF WorkerSafetySpec, ExitAfterDrain

-----------------------------------------------------------------------------
(***************************************************************************)
(* The worker implements TranscriptionQueue.                               *)
(***************************************************************************)

\* Steps that change no outcome leave the abstract status as it is.
LEMMA SameStatus ==
  ASSUME outcome' = outcome
  PROVE  abstractStatus' = abstractStatus
  BY DEF abstractStatus

\* The abstract status is a function, and waiting is what Waiting says.
LEMMA StatusFacts ==
  ASSUME WorkerInv
  PROVE  /\ DOMAIN abstractStatus = Chunk
         /\ \A i \in Chunk :
              /\ abstractStatus[i] = "waiting" <=> outcome[i] \in Waiting
              /\ abstractStatus[i] = IF outcome[i] \in Waiting THEN "waiting"
                                     ELSE IF outcome[i] \in {"none", "dropped"}
                                     THEN outcome[i] ELSE "done"
  BY DEF abstractStatus

\* With an empty queue and an empty hand nothing waits.
LEMMA NothingWaitsWhenEmpty ==
  ASSUME WorkerInv, queue = <<>>, workerPc # "transcribe"
  PROVE  TQ!NothingWaits
  <1>1. SUFFICES ASSUME NEW i \in Chunk PROVE outcome[i] \notin Waiting
    BY StatusFacts DEF TQ!NothingWaits, TQ!IsWaiting, TQ!Chunk, Chunk
  <1>2. AllSettled
    BY EmptyMeansSettled
  <1>3. CASE i \in 1..enqueued
    BY <1>2, <1>3 DEF AllSettled
  <1>4. CASE i \notin 1..enqueued
    <2>1. i > enqueued
      BY <1>4, WorkerAssumption DEF WorkerInv, WorkerTypeOK, Chunk
    <2>2. QED
      BY <2>1 DEF WorkerInv, OutcomeByPosition, Waiting
  <1>5. QED
    BY <1>3, <1>4

\* enqueue() submits a chunk, and on overflow drops an old one.
LEMMA EnqueueSubmits ==
  ASSUME WorkerInv, NEW dictation \in BOOLEAN, NEW audio \in Audio,
         Enqueue(dictation, audio)
  PROVE  TQ!QueueNext
  <1> USE WorkerAssumption
  <1> DEFINE id == enqueued + 1
  <1>1. /\ enqueued \in Nat /\ enqueued < MaxChunks /\ enqueued' = id
        /\ id \in Chunk /\ armed' = armed
        /\ queue \in Seq(Item) /\ Len(queue) \in Nat /\ Len(queue) <= QueueMax
        /\ Len(queue) <= enqueued
        /\ \A k \in 1..Len(queue) : queue[k].id = enqueued - Len(queue) + k
        /\ outcome \in [Chunk -> {"none"} \union Waiting \union Settled]
    BY LenProperties
    DEF WorkerInv, WorkerTypeOK, QueueHoldsNewest, Enqueue, Chunk
  <1>2. abstractPhase' = abstractPhase
    BY DEF Enqueue, Notify, abstractPhase
  <1>3. CASE Full
    <2> DEFINE old == Head(queue).id
    <2>1. Len(queue) = QueueMax /\ queue # <<>>
      BY <1>1, <1>3, EmptySeq DEF Full
    <2>2. Head(queue) \in Item /\ Head(queue) = queue[1]
      BY <1>1, <2>1, TailShifts
    <2>3. old \in Chunk /\ old \in Nat /\ old = enqueued - Len(queue) + 1
      <3>1. old \in Chunk
        BY <2>2 DEF Item
      <3>2. old = enqueued - Len(queue) + 1
        BY <1>1, <2>1, <2>2
      <3>3. QED
        BY <3>1, <3>2 DEF Chunk
    <2> HIDE DEF old
    <2>4. old + QueueMax <= enqueued + 1 /\ old # id /\ old <= enqueued
          /\ ~LeftQueue(old)
      BY <1>1, <2>1, <2>3 DEF LeftQueue
    <2>5. outcome[old] = "queued"
      BY <2>3, <2>4 DEF WorkerInv, OutcomeByPosition
    <2>6. outcome' = [outcome EXCEPT ![old] = "dropped", ![id] = "queued"]
      BY <1>3 DEF Enqueue, old
    <2>7. abstractStatus' = [abstractStatus EXCEPT ![old] = "dropped",
                                                   ![id] = "waiting"]
      BY <1>1, <2>3, <2>4, <2>6 DEF abstractStatus, Waiting
    <2>8. TQ!IsWaiting(old)
      BY <2>3, <2>5, StatusFacts DEF TQ!IsWaiting, Waiting
    <2>9. TQ!SubmitAndDrop(old)
      BY <1>1, <1>2, <2>4, <2>7, <2>8 DEF TQ!SubmitAndDrop
    <2>10. QED
      BY <2>3, <2>9 DEF TQ!QueueNext, TQ!Chunk, Chunk
  <1>4. CASE ~Full
    <2>1. outcome' = [outcome EXCEPT ![id] = "queued"]
      BY <1>4 DEF Enqueue
    <2>2. abstractStatus' = [abstractStatus EXCEPT ![id] = "waiting"]
      BY <1>1, <2>1 DEF abstractStatus, Waiting
    <2>3. TQ!Submit
      BY <1>1, <1>2, <2>2 DEF TQ!Submit
    <2>4. QED
      BY <2>3 DEF TQ!QueueNext
  <1>5. QED
    BY <1>3, <1>4

\* Whatever the chunk in hand ends as, it was the oldest one waiting.
LEMMA FinishSettles ==
  ASSUME WorkerInv, workerPc = "transcribe",
         workerPc' \in {"check", "checkDone"},
         NEW how \in Settled \ {"dropped"}, Finish(how)
  PROVE  TQ!QueueNext
  <1> DEFINE id == item.id
  <1>1. id \in Chunk /\ LeftQueue(id)
    BY DEF WorkerInv, InHand, Item
  <1>2. /\ outcome' = [outcome EXCEPT ![id] = how]
        /\ UNCHANGED <<armed, enqueued>>
    BY DEF Finish, lockedVars
  <1>3. outcome \in [Chunk -> {"none"} \union Waiting \union Settled]
    BY DEF WorkerInv, WorkerTypeOK
  <1> HIDE DEF id
  <1>4. outcome[id] = "running"
    BY <1>1 DEF WorkerInv, OutcomeByPosition, id
  <1>5. TQ!Oldest(id)
    <2>1. TQ!IsWaiting(id)
      BY <1>1, <1>4, StatusFacts DEF TQ!IsWaiting, Waiting
    <2>2. ASSUME NEW j \in Chunk, TQ!IsWaiting(j)
          PROVE  id <= j
      <3>1. outcome[j] \in Waiting
        BY <2>2, StatusFacts DEF TQ!IsWaiting
      <3>2. CASE outcome[j] = "running"
        BY <3>2, <1>1, WorkerAssumption
        DEF WorkerInv, OutcomeByPosition, id, Chunk
      <3>3. CASE outcome[j] = "queued"
        <4>1. ~LeftQueue(j)
          BY <3>3 DEF WorkerInv, OutcomeByPosition
        <4>2. Len(queue) \in Nat /\ enqueued \in Nat
          BY LenProperties DEF WorkerInv, WorkerTypeOK
        <4>3. QED
          BY <1>1, <4>1, <4>2, WorkerAssumption DEF LeftQueue, Chunk
      <3>4. QED
        BY <3>1, <3>2, <3>3 DEF Waiting
    <2>3. QED
      BY <2>1, <2>2 DEF TQ!Oldest, TQ!Chunk, Chunk
  <1>6. abstractStatus' = [abstractStatus EXCEPT ![id] = "done"]
    BY <1>1, <1>2, <1>3 DEF abstractStatus, Waiting, Settled
  <1>7. abstractPhase = "open" /\ abstractPhase' = "open"
    BY DEF abstractPhase
  <1>8. TQ!Settle(id)
    BY <1>2, <1>5, <1>6, <1>7 DEF TQ!Settle
  <1>9. QED
    BY <1>1, <1>8 DEF TQ!QueueNext, TQ!Chunk, Chunk

\* Taking the oldest chunk in hand changes nothing that users see.
LEMMA PopStutters ==
  ASSUME WorkerInv, Pop
  PROVE  UNCHANGED TQ!queueVars
  <1> DEFINE id == Head(queue).id
  <1>1. /\ queue \in Seq(Item) /\ Len(queue) \in Nat /\ enqueued \in Nat
        /\ Len(queue) <= enqueued /\ queue # <<>>
        /\ \A k \in 1..Len(queue) : queue[k].id = enqueued - Len(queue) + k
        /\ outcome \in [Chunk -> {"none"} \union Waiting \union Settled]
    BY LenProperties, WorkerAssumption
    DEF WorkerInv, WorkerTypeOK, QueueHoldsNewest, Pop
  <1>2. Head(queue) \in Item /\ Head(queue) = queue[1] /\ Len(queue) > 0
    BY <1>1, TailShifts
  <1>3. id \in Chunk /\ id \in Nat /\ id = enqueued - Len(queue) + 1
    <2>1. id \in Chunk
      BY <1>2 DEF Item
    <2>2. id = enqueued - Len(queue) + 1
      BY <1>1, <1>2
    <2>3. QED
      BY <2>1, <2>2 DEF Chunk
  <1>4. /\ outcome' = [outcome EXCEPT ![id] = "running"]
        /\ UNCHANGED <<armed, enqueued>>
        /\ workerPc = "check" /\ workerPc' = "transcribe"
    BY DEF Pop, GoTo
  <1> HIDE DEF id
  <1>5. id <= enqueued /\ ~LeftQueue(id)
    BY <1>1, <1>2, <1>3 DEF LeftQueue
  <1>6. outcome[id] = "queued"
    BY <1>3, <1>5 DEF WorkerInv, OutcomeByPosition
  <1>7. abstractStatus' = abstractStatus
    BY <1>1, <1>3, <1>4, <1>6 DEF abstractStatus, Waiting
  <1>8. abstractPhase' = abstractPhase
    BY <1>4 DEF abstractPhase
  <1>9. QED
    BY <1>4, <1>7, <1>8 DEF TQ!queueVars

\* Every step of the worker is a step of the abstract queue, or none.
LEMMA StepImplements ==
  ASSUME WorkerInv, [WorkerNext]_workerVars
  PROVE  [TQ!QueueNext]_TQ!queueVars
  <1>1. ASSUME NEW dictation \in BOOLEAN, NEW audio \in Audio,
               Enqueue(dictation, audio)
        PROVE  TQ!QueueNext
    BY <1>1, EnqueueSubmits
  <1>2. ASSUME NEW b \in BOOLEAN, SetOnSessionDone(b)
        PROVE  TQ!QueueNext
    <2>1. TQ!AskForNotice(b)
      BY <1>2, SameStatus
      DEF SetOnSessionDone, Notify, abstractPhase, TQ!AskForNotice
    <2>2. QED
      BY <2>1 DEF TQ!QueueNext
  <1>3. ASSUME \/ \E w \in Writers \union {NoWriter} : SetOutputWriter(w)
               \/ RequestStop \/ Join \/ Sleep \/ WakeSpuriously
        PROVE  UNCHANGED TQ!queueVars
    BY <1>3, SameStatus
    DEF SetOutputWriter, RequestStop, Join, Sleep, WakeSpuriously, Notify, GoTo,
        lockedVars, abstractPhase, TQ!queueVars
  <1>4. ASSUME Exit PROVE TQ!QueueNext
    <2>1. TQ!NothingWaits /\ ~armed
      BY <1>4, NothingWaitsWhenEmpty DEF Exit, StopAndEmpty, Drained, GoTo
    <2>2. TQ!Close
      BY <1>4, <2>1, SameStatus
      DEF Exit, GoTo, lockedVars, abstractPhase, TQ!Close
    <2>3. QED
      BY <2>2 DEF TQ!QueueNext
  <1>5. ASSUME SessionDoneReturns PROVE TQ!QueueNext
    <2>1. TQ!NoticeGiven
      BY <1>5, SameStatus
      DEF SessionDoneReturns, GoTo, lockedVars, abstractPhase, TQ!NoticeGiven
    <2>2. QED
      BY <2>1 DEF TQ!QueueNext
  <1>6. ASSUME TakeSessionDone PROVE TQ!QueueNext
    <2>1. TQ!NothingWaits
      BY <1>6, NothingWaitsWhenEmpty DEF TakeSessionDone, Drained, GoTo
    <2>2. TQ!GiveNotice
      BY <1>6, <2>1, SameStatus
      DEF TakeSessionDone, Drained, GoTo, abstractPhase, TQ!GiveNotice
    <2>3. QED
      BY <2>2 DEF TQ!QueueNext
  <1>7. ASSUME CheckDone PROVE TQ!QueueNext \/ UNCHANGED TQ!queueVars
    <2>1. CASE Drained
      <3>1. TQ!NothingWaits
        BY <1>7, <2>1, NothingWaitsWhenEmpty DEF CheckDone, Drained
      <3>2. TQ!GiveNotice
        BY <1>7, <2>1, <3>1, SameStatus
        DEF CheckDone, Drained, abstractPhase, TQ!GiveNotice
      <3>3. QED
        BY <3>2 DEF TQ!QueueNext
    <2>2. CASE ~Drained
      BY <1>7, <2>2, SameStatus DEF CheckDone, abstractPhase, TQ!queueVars
    <2>3. QED
      BY <2>1, <2>2
  <1>8. ASSUME Pop PROVE UNCHANGED TQ!queueVars
    BY <1>8, PopStutters
  <1>9. ASSUME TranscribeFails PROVE TQ!QueueNext
    BY <1>9, FinishSettles DEF TranscribeFails, GoTo, Settled
  <1>10. ASSUME NEW how, TranscribeDictation(how) PROVE TQ!QueueNext
    BY <1>10, FinishSettles DEF TranscribeDictation, GoTo, Settled
  <1>11. ASSUME TranscribeSession PROVE TQ!QueueNext
    BY <1>11, FinishSettles DEF TranscribeSession, GoTo, Settled
  <1>12. CASE UNCHANGED workerVars
    BY <1>12, SameStatus DEF workerVars, abstractPhase, TQ!queueVars
  <1>13. QED
    BY <1>1, <1>2, <1>3, <1>4, <1>5, <1>6, <1>7, <1>8, <1>9, <1>10, <1>11, <1>12
    DEF WorkerNext, AnyThread, Owner, WorkerThread, WorkerLoop

\* Mutex, condition variable, overflow and the two places that fire the
\* callback together behave as the queue of TranscriptionQueue.
THEOREM WorkerImplementsQueue == WorkerSafetySpec => ImplementsQueue
  <1>1. WorkerInit => TQ!QueueInit
    BY DEF WorkerInit, TQ!QueueInit, TQ!Chunk, Chunk, abstractStatus,
           abstractPhase, Waiting
  <1>2. WorkerInv /\ [WorkerNext]_workerVars => [TQ!QueueNext]_TQ!queueVars
    BY StepImplements
  <1>3. QED
    BY WorkerInvariant, <1>1, <1>2, PTL
    DEF WorkerSafetySpec, ImplementsQueue, TQ!QueueSpec

=============================================================================
