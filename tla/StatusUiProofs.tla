--------------------------- MODULE StatusUiProofs ---------------------------
(***************************************************************************)
(* What is proved of the user interface.                                   *)
(*                                                                         *)
(* The history: a text reaches it through the main queue, behind whatever  *)
(* else is there, while the user turns it off and on and dictates again.   *)
(* The menu: what a thread has still to report, what is in the queue, or   *)
(* what is shown, is right and stays so.  The types.  The announcements:   *)
(* what _wasFinalizing and the count will be when the queue is handled.    *)
(***************************************************************************)
EXTENDS StatusUi, TLAPS

Notice == [what : Statuses \union {"Text", "SavedOver"}, text : {0}]
Sent   == {m \in [what : Statuses \union {"Text", "SavedOver"}, text : Nat] :
             m.what # "Text" => m.text = 0}

DictationOn == mode \in {"Dictating", "Transcribing"}

UiTyped ==
  /\ mode \in ModeSet
  /\ presses \in Nat /\ (DictationOn => presses # 0)
  /\ emitting \in [Threads -> Seq(Notice)]
  /\ mainQueue \in Seq(Sent)
  /\ history \in Seq(Nat)

\* A text is of a press that is over, if it is one.
OfEarlierPress(n) == n # 0 => n <= presses /\ (DictationOn => n < presses)

\* The texts that are on their way, in the order of their presses.
QueueInOrder ==
  \A k \in 1..Len(mainQueue) :
    /\ OfEarlierPress(mainQueue[k].text)
    /\ \A j \in 1..Len(mainQueue) :
         j < k /\ mainQueue[k].text # 0 => mainQueue[j].text < mainQueue[k].text

\* What is in the history is older than what is on its way.
HistoryIsOlder ==
  \A i \in 1..Len(history) :
    /\ OfEarlierPress(history[i])
    /\ \A k \in 1..Len(mainQueue) :
         mainQueue[k].text # 0 => history[i] < mainQueue[k].text

\* What is on its way will be owed, and nothing is while the history is off.
OwedTyped ==
  /\ owed \subseteq 1..presses
  /\ historyOn => Queued \subseteq owed
  /\ ~historyOn => owed = {}

HistoryInv == UiTyped /\ QueueInOrder /\ HistoryIsOlder /\ OwedTyped /\ HistoryHolds

-----------------------------------------------------------------------------
\* To begin with nothing is remembered and nothing is on its way.
LEMMA UiInitInv == Init => HistoryInv
  <1> SUFFICES ASSUME Init PROVE HistoryInv
    OBVIOUS
  <1>1. mainQueue = <<>> /\ history = <<>> /\ Len(mainQueue) = 0 /\ Len(history) = 0
    BY DEF Init
  <1>2. UiTyped
    BY <1>1 DEF Init, ModeMachineInit, UiTyped, ModeSet, DictationOn
  <1>3. QueueInOrder /\ HistoryIsOlder
    BY <1>1 DEF QueueInOrder, HistoryIsOlder
  <1>4. owed = {} /\ Queued = {}
    BY <1>1 DEF Init, Queued
  <1>5. HistoryHolds
    BY <1>1, <1>4, UiAssumption DEF HistoryHolds
  <1>6. OwedTyped
    BY <1>4, Zenon DEF OwedTyped
  <1> QED
    BY <1>2, <1>3, <1>5, <1>6 DEF HistoryInv

\* A press begins, or the mode changes otherwise: an earlier press stays one.
EarlierStays ==
  /\ presses' \in Nat /\ mode' \in ModeSet
  /\ \/ presses' = presses /\ (DictationOn' => DictationOn)
     \/ presses' = presses + 1

\* What is of an earlier press stays so.
LEMMA EarlierPressKept ==
  ASSUME UiTyped, EarlierStays, NEW n \in Nat, OfEarlierPress(n)
  PROVE  (n # 0 => n <= presses' /\ (DictationOn' => n < presses'))
  BY DEF UiTyped, EarlierStays, OfEarlierPress

\* What is on its way is a number of an earlier press, or none.
LEMMA QueuedText ==
  ASSUME UiTyped, QueueInOrder, NEW k \in 1..Len(mainQueue)
  PROVE  mainQueue[k].text \in Nat /\ OfEarlierPress(mainQueue[k].text)
  <1>1. mainQueue[k] \in Sent
    BY DEF UiTyped
  <1>2. mainQueue[k].text \in Nat
    BY <1>1 DEF Sent
  <1>3. OfEarlierPress(mainQueue[k].text)
    BY DEF QueueInOrder
  <1> QED
    BY <1>2, <1>3

\* A thread's step that puts nothing into the main queue.
LEMMA QuietStepInv ==
  ASSUME HistoryInv, EarlierStays, emitting' \in [Threads -> Seq(Notice)],
         UNCHANGED <<mainQueue, history, historyOn, owed>>
  PROVE  HistoryInv'
  <1> USE DEF HistoryInv
  <1>1. UiTyped'
    BY DEF UiTyped, EarlierStays
  <1>2. QueueInOrder'
    <2> SUFFICES ASSUME NEW k \in 1..Len(mainQueue)
                 PROVE  OfEarlierPress(mainQueue[k].text)'
      BY DEF QueueInOrder
    <2>1. mainQueue[k].text \in Nat /\ OfEarlierPress(mainQueue[k].text)
      BY QueuedText
    <2> QED
      BY <2>1, EarlierPressKept DEF OfEarlierPress
  <1>3. HistoryIsOlder'
    <2> SUFFICES ASSUME NEW i \in 1..Len(history)
                 PROVE  OfEarlierPress(history[i])'
      BY DEF HistoryIsOlder
    <2>1. history[i] \in Nat /\ OfEarlierPress(history[i])
      BY DEF UiTyped, HistoryIsOlder
    <2> QED
      BY <2>1, EarlierPressKept DEF OfEarlierPress
  <1>4. Queued' = Queued /\ 1..presses \subseteq 1..presses'
    BY DEF Queued, UiTyped, EarlierStays
  <1>5. HistoryHolds' /\ OwedTyped'
    BY <1>4 DEF HistoryHolds, OwedTyped
  <1> QED
    BY <1>1, <1>2, <1>3, <1>5

\* The texts on their way, with one more.
LEMMA QueuedAppended ==
  ASSUME mainQueue \in Seq(Sent), NEW m \in Sent, mainQueue' = Append(mainQueue, m)
  PROVE  Queued' = Queued \union ({m.text} \ {0})
  <1>1. /\ Len(mainQueue') = Len(mainQueue) + 1 /\ Len(mainQueue) \in Nat
        /\ \A k \in 1..Len(mainQueue) : mainQueue'[k] = mainQueue[k]
        /\ mainQueue'[Len(mainQueue) + 1] = m
    OBVIOUS
  <1>2. ASSUME NEW n
        PROVE  (\E k \in 1..Len(mainQueue') : n = mainQueue'[k].text)
                 <=> (\E k \in 1..Len(mainQueue) : n = mainQueue[k].text) \/ n = m.text
    <2>1. ASSUME NEW k \in 1..Len(mainQueue'), n = mainQueue'[k].text
          PROVE  (\E j \in 1..Len(mainQueue) : n = mainQueue[j].text) \/ n = m.text
      <3>1. k \in 1..Len(mainQueue) \/ k = Len(mainQueue) + 1
        BY <1>1
      <3> QED
        BY <1>1, <2>1, <3>1
    <2>2. ASSUME NEW k \in 1..Len(mainQueue), n = mainQueue[k].text
          PROVE  \E j \in 1..Len(mainQueue') : n = mainQueue'[j].text
      <3>1. k \in 1..Len(mainQueue')
        BY <1>1
      <3> QED
        BY <1>1, <2>2, <3>1
    <2>3. Len(mainQueue) + 1 \in 1..Len(mainQueue')
      BY <1>1
    <2> QED
      BY <1>1, <2>1, <2>2, <2>3
  <1>3. \A n : n \in Queued <=> n # 0 /\ \E k \in 1..Len(mainQueue) : n = mainQueue[k].text
    BY DEF Queued, BlankText
  <1>4. \A n : n \in Queued' <=>
               n # 0 /\ \E k \in 1..Len(mainQueue') : n = mainQueue'[k].text
    BY DEF Queued, BlankText
  <1>5. \A n : n \in Queued' <=> n \in Queued \/ (n = m.text /\ n # 0)
    BY <1>2, <1>3, <1>4
  <1> QED
    BY <1>5

\* A step that puts a message into the main queue: no text, or one that is newer
\* than those before it.
LEMMA SendInv ==
  ASSUME HistoryInv, EarlierStays, emitting' \in [Threads -> Seq(Notice)],
         NEW m \in Sent, mainQueue' = Append(mainQueue, m),
         UNCHANGED <<history, historyOn>>,
         owed' = IF historyOn THEN owed \union ({m.text} \ {0}) ELSE owed,
         m.text # 0 => /\ m.text <= presses' /\ ~DictationOn'
                       /\ \A n \in Nat : OfEarlierPress(n) => n < m.text
  PROVE  HistoryInv'
  <1> USE DEF HistoryInv
  <1> m.text \in Nat
    BY DEF Sent
  <1>1. /\ mainQueue' \in Seq(Sent) /\ Len(mainQueue') = Len(mainQueue) + 1
        /\ Len(mainQueue) \in Nat
        /\ \A k \in 1..Len(mainQueue) : mainQueue'[k] = mainQueue[k]
        /\ mainQueue'[Len(mainQueue) + 1] = m
    BY DEF UiTyped
  <1>2. UiTyped'
    BY <1>1 DEF UiTyped, EarlierStays
  <1>3. \A k \in 1..Len(mainQueue) :
          mainQueue[k].text \in Nat /\ OfEarlierPress(mainQueue[k].text)
    BY QueuedText
  <1>4. QueueInOrder'
    <2> SUFFICES ASSUME NEW k \in 1..Len(mainQueue')
                 PROVE  /\ OfEarlierPress(mainQueue[k].text)'
                        /\ \A j \in 1..Len(mainQueue') :
                             j < k /\ mainQueue'[k].text # 0
                               => mainQueue'[j].text < mainQueue'[k].text
      BY DEF QueueInOrder
    <2>1. CASE k \in 1..Len(mainQueue)
      <3>1. OfEarlierPress(mainQueue[k].text)'
        BY <1>1, <1>3, <2>1, EarlierPressKept DEF OfEarlierPress
      <3> QED
        BY <3>1, <1>1, <2>1 DEF QueueInOrder
    <2>2. CASE k = Len(mainQueue) + 1
      <3>1. OfEarlierPress(mainQueue[k].text)'
        BY <1>1, <2>2 DEF OfEarlierPress
      <3> QED
        BY <3>1, <1>1, <1>3, <2>2
    <2> QED
      BY <1>1, <2>1, <2>2
  <1>5. HistoryIsOlder'
    <2> SUFFICES ASSUME NEW i \in 1..Len(history)
                 PROVE  /\ OfEarlierPress(history[i])'
                        /\ \A k \in 1..Len(mainQueue') :
                             mainQueue'[k].text # 0 => history[i] < mainQueue'[k].text
      BY DEF HistoryIsOlder
    <2>1. history[i] \in Nat /\ OfEarlierPress(history[i])
      BY DEF UiTyped, HistoryIsOlder
    <2>2. OfEarlierPress(history[i])'
      BY <2>1, EarlierPressKept DEF OfEarlierPress
    <2> QED
      BY <2>1, <2>2, <1>1 DEF HistoryIsOlder
  <1>6. Queued' = Queued \union ({m.text} \ {0})
    BY QueuedAppended DEF UiTyped
  <1>7. OwedTyped'
    <2>1. 1..presses \subseteq 1..presses' /\ {m.text} \ {0} \subseteq 1..presses'
      BY DEF UiTyped, EarlierStays
    <2>2. CASE historyOn
      BY <1>6, <2>2, <2>1 DEF OwedTyped
    <2>3. CASE ~historyOn
      BY <2>3 DEF OwedTyped
    <2> QED
      BY <2>2, <2>3
  <1>8. owed' \ Queued' \subseteq owed \ Queued /\ owed \subseteq owed'
    BY <1>6
  <1>9. HistoryHolds'
    BY <1>8 DEF HistoryHolds
  <1> QED
    BY <1>2, <1>4, <1>5, <1>7, <1>9

-----------------------------------------------------------------------------
\* A thread's reports are statuses.
LEMMA TellsTyped ==
  ASSUME UiTyped, NEW t \in Threads, NEW statuses \in Seq(Notice), Tells(t, statuses)
  PROVE  emitting' \in [Threads -> Seq(Notice)]
  BY DEF UiTyped, Tells

\* So are one, two and none.
LEMMA StatusesTyped ==
  \A s, u \in Statuses : /\ <<Status(s)>> \in Seq(Notice)
                        /\ <<Status(s), Status(u)>> \in Seq(Notice)
                        /\ <<>> \in Seq(Notice)
  BY DEF Status, Notice

\* A notice changes neither mode nor texts.
LEMMA NoticesInv ==
  ASSUME HistoryInv, NEW t \in Threads, NEW s \in Statuses, Notices(t, s)
  PROVE  HistoryInv'
  <1>1. emitting' \in [Threads -> Seq(Notice)]
    BY TellsTyped, StatusesTyped DEF Notices, HistoryInv
  <1>2. EarlierStays /\ UNCHANGED <<mainQueue, history, historyOn, owed>>
    BY DEF Notices, HistoryInv, UiTyped, EarlierStays, DictationOn, modeMachineVars,
           historyVars
  <1> QED
    BY <1>1, <1>2, QuietStepInv

\* Dictations: a text is sent at the end of its press's transcription, so that it
\* is newer than all before it.
LEMMA DictationInv ==
  ASSUME HistoryInv, Dictation
  PROVE  HistoryInv'
  <1> USE DEF HistoryInv
  <1> "hotkey" \in Threads /\ "mic" \in Threads /\ "worker" \in Threads
    BY DEF Threads
  <1> {"Idle", "Dictating", "Transcribing", "Error", "Beep"} \subseteq Statuses
    BY DEF Statuses
  <1>1. CASE HotkeyDown
    <2>1. emitting' \in [Threads -> Seq(Notice)]
      BY <1>1, TellsTyped, StatusesTyped DEF HotkeyDown, Reports
    <2>2. EarlierStays /\ UNCHANGED <<mainQueue, history, historyOn, owed>>
      BY <1>1 DEF HotkeyDown, DictationFrame, historyVars, TryDictate, Move,
                  EarlierStays, UiTyped, ModeSet
    <2> QED
      BY <2>1, <2>2, QuietStepInv
  <1>2. CASE HotkeyRejected
    BY <1>2, NoticesInv DEF HotkeyRejected
  <1>3. CASE HotkeyUp
    <2>1. emitting' \in [Threads -> Seq(Notice)]
      BY <1>3, TellsTyped, StatusesTyped DEF HotkeyUp, Reports
    <2>2. EarlierStays /\ UNCHANGED <<mainQueue, history, historyOn, owed>>
      BY <1>3 DEF HotkeyUp, DictationFrame, historyVars, FinishDictation, Move,
                  EarlierStays, UiTyped, ModeSet, DictationOn
    <2> QED
      BY <2>1, <2>2, QuietStepInv
  <1>4. CASE HotkeyEnqueues
    <2>1. EarlierStays /\ UNCHANGED <<emitting, mainQueue, history, historyOn, owed>>
      BY <1>4 DEF HotkeyEnqueues, DictationFrame, historyVars, QueueDictation, Move,
                  EarlierStays, UiTyped, ModeSet, DictationOn
    <2>2. emitting' \in [Threads -> Seq(Notice)]
      BY <2>1 DEF UiTyped
    <2> QED
      BY <2>1, <2>2, QuietStepInv
  <1>5. CASE HotkeyDiscards
    <2>1. emitting' \in [Threads -> Seq(Notice)]
      BY <1>5, TellsTyped, StatusesTyped DEF HotkeyDiscards, Reports
    <2>2. EarlierStays /\ UNCHANGED <<mainQueue, history, historyOn, owed>>
      BY <1>5 DEF HotkeyDiscards, DictationFrame, historyVars, DiscardDictation, Move,
                  EarlierStays, UiTyped, ModeSet, DictationOn
    <2> QED
      BY <2>1, <2>2, QuietStepInv
  <1>6. CASE MicFails
    <2>1. EarlierStays /\ UNCHANGED <<emitting, mainQueue, history, historyOn, owed>>
      BY <1>6 DEF MicFails, DictationFrame, historyVars, modeMachineVars,
                  EarlierStays, UiTyped, DictationOn
    <2>2. emitting' \in [Threads -> Seq(Notice)]
      BY <2>1 DEF UiTyped
    <2> QED
      BY <2>1, <2>2, QuietStepInv
  <1>7. CASE MicCancels
    <2>1. emitting' \in [Threads -> Seq(Notice)]
      BY <1>7, TellsTyped, StatusesTyped DEF MicCancels, Reports
    <2>2. EarlierStays /\ UNCHANGED <<mainQueue, history, historyOn, owed>>
      BY <1>7 DEF MicCancels, DictationFrame, historyVars, CancelDictation, Move,
                  modeMachineVars, EarlierStays, UiTyped, ModeSet, DictationOn
    <2> QED
      BY <2>1, <2>2, QuietStepInv
  <1>8. ASSUME NEW blank \in BOOLEAN, DictationResult(blank) PROVE HistoryInv'
    <2> DEFINE m == Text(IF blank THEN BlankText ELSE presses)
    <2>1. emitting' \in [Threads -> Seq(Notice)]
      BY <1>8, TellsTyped, StatusesTyped DEF DictationResult, Reports
    <2>2. /\ EarlierStays /\ UNCHANGED <<presses, history, historyOn>>
          /\ mode = "Transcribing" /\ mode' = "Idle"
      BY <1>8 DEF DictationResult, DictationFrame, historyVars, TranscriptionDone, Move,
                  EarlierStays, UiTyped, ModeSet, DictationOn
    <2>3. m \in Sent /\ m.text = (IF blank THEN 0 ELSE presses)
      BY DEF Text, BlankText, Sent, UiTyped
    <2>4. mainQueue' = Append(mainQueue, m)
      BY <1>8 DEF DictationResult, Send
    <2>5. m.text # 0 => /\ m.text <= presses' /\ ~DictationOn'
                        /\ \A n \in Nat : OfEarlierPress(n) => n < m.text
      BY <2>2, <2>3 DEF UiTyped, OfEarlierPress, DictationOn
    <2>6. presses # 0
      BY <2>2 DEF UiTyped, DictationOn
    <2>7. owed' = IF historyOn THEN owed \union ({m.text} \ {0}) ELSE owed
      BY <1>8, <2>3, <2>6 DEF DictationResult
    <2> HIDE DEF m
    <2> QED
      BY <2>1, <2>2, <2>3, <2>4, <2>5, <2>7, SendInv
  <1>9. ASSUME NEW failed \in BOOLEAN, DictationLost(failed) PROVE HistoryInv'
    <2>1. emitting' \in [Threads -> Seq(Notice)]
      BY <1>9, TellsTyped, StatusesTyped DEF DictationLost
    <2>2. EarlierStays /\ UNCHANGED <<mainQueue, history, historyOn, owed>>
      BY <1>9 DEF DictationLost, DictationFrame, historyVars, LoseDictation, Move,
                  EarlierStays, UiTyped, ModeSet, DictationOn
    <2> QED
      BY <2>1, <2>2, QuietStepInv
  <1> QED
    BY <1>1, <1>2, <1>3, <1>4, <1>5, <1>6, <1>7, <1>8, <1>9 DEF Dictation

\* Sessions leave the texts alone, and no dictation begins in them.
LEMMA SessionInv ==
  ASSUME HistoryInv, Session
  PROVE  HistoryInv'
  <1> USE DEF HistoryInv
  <1> {"main", "tap", "worker", "device"} \subseteq Threads
    BY DEF Threads
  <1> {"Idle", "RecordingListening", "RecordingCapturing", "Finalizing", "Error"}
        \subseteq Statuses
    BY DEF Statuses
  <1>1. ASSUME NEW t \in Threads, NEW s \in Statuses, Reports(t, <<Status(s)>>),
               SessionFrame, mode' \in ModeSet \ {"Dictating", "Transcribing"}
        PROVE  HistoryInv'
    <2>1. emitting' \in [Threads -> Seq(Notice)]
      BY <1>1, TellsTyped, StatusesTyped DEF Reports
    <2>2. EarlierStays /\ UNCHANGED <<mainQueue, history, historyOn, owed>>
      BY <1>1 DEF SessionFrame, historyVars, EarlierStays, UiTyped, DictationOn
    <2> QED
      BY <2>1, <2>2, QuietStepInv
  <1>2. ASSUME UNCHANGED emitting, SessionFrame,
               mode' \in ModeSet \ {"Dictating", "Transcribing"}
        PROVE  HistoryInv'
    <2>1. emitting' \in [Threads -> Seq(Notice)]
      BY <1>2 DEF UiTyped
    <2>2. EarlierStays /\ UNCHANGED <<mainQueue, history, historyOn, owed>>
      BY <1>2 DEF SessionFrame, historyVars, EarlierStays, UiTyped, DictationOn
    <2> QED
      BY <2>1, <2>2, QuietStepInv
  <1>3. CASE ClickStart
    BY <1>3, <1>1 DEF ClickStart, TryRecord, Move, ModeSet
  <1>4. CASE SessionStarts
    BY <1>4, <1>2 DEF SessionStarts, RecordingStarts, Move, ModeSet
  <1>5. CASE SessionFails
    BY <1>5, <1>1 DEF SessionFails, RecordingFails, Move, ModeSet
  <1>6. CASE ClickStop
    BY <1>6, <1>1 DEF ClickStop, StopRecord, Move, ModeSet
  <1>7. CASE SessionArms
    BY <1>7, <1>2 DEF SessionArms, ArmDone, Move, ModeSet
  <1>8. CASE SessionDone
    BY <1>8, <1>1 DEF SessionDone, FinalizeDone, Move, ModeSet
  <1>9. CASE \/ TapNotices("RecordingListening") \/ TapNotices("RecordingCapturing")
             \/ WorkerNotices \/ DeviceNotices
    BY <1>9, NoticesInv DEF TapNotices, WorkerNotices, DeviceNotices
  <1> QED
    BY <1>3, <1>4, <1>5, <1>6, <1>7, <1>8, <1>9 DEF Session

\* A report moves from its thread into the main queue.
LEMMA EmitInv ==
  ASSUME HistoryInv, NEW t \in Threads, Emit(t)
  PROVE  HistoryInv'
  <1>1. emitting[t] \in Seq(Notice) /\ emitting[t] # <<>>
    BY DEF Emit, Silent, HistoryInv, UiTyped
  <1>2. Head(emitting[t]) \in Notice /\ Tail(emitting[t]) \in Seq(Notice)
    BY <1>1
  <1>3. emitting' \in [Threads -> Seq(Notice)]
    BY <1>2 DEF Emit, HistoryInv, UiTyped
  <1>4. Head(emitting[t]) \in Sent /\ Head(emitting[t]).text = 0
    BY <1>2 DEF Notice, Sent
  <1>5. /\ mainQueue' = Append(mainQueue, Head(emitting[t]))
        /\ UNCHANGED <<history, historyOn, owed>>
        /\ EarlierStays
    BY DEF Emit, Send, modeMachineVars, historyVars, counts, EarlierStays, HistoryInv,
           UiTyped, DictationOn
  <1> QED
    BY <1>3, <1>4, <1>5, SendInv

-----------------------------------------------------------------------------
\* main takes the first message: the rest are as they were, and newer than it.
LEMMA TakenMessage ==
  ASSUME HistoryInv, mainQueue # <<>>, mainQueue' = Tail(mainQueue)
  PROVE  /\ Head(mainQueue) = mainQueue[1] /\ mainQueue[1] \in Sent
         /\ mainQueue' \in Seq(Sent)
         /\ 1 \in 1..Len(mainQueue)
         /\ \A k \in 1..Len(mainQueue') :
              /\ k + 1 \in 1..Len(mainQueue)
              /\ mainQueue'[k] = mainQueue[k + 1]
              /\ mainQueue[k + 1].text # 0 => mainQueue[1].text < mainQueue[k + 1].text
  <1>1. /\ mainQueue \in Seq(Sent) /\ Len(mainQueue) \in Nat
        /\ Len(mainQueue) # 0
    BY DEF HistoryInv, UiTyped
  <1>2. Len(mainQueue') = Len(mainQueue) - 1 /\ mainQueue' \in Seq(Sent)
    BY <1>1
  <1>3. \A k \in 1..Len(mainQueue') :
          k + 1 \in 1..Len(mainQueue) /\ mainQueue'[k] = mainQueue[k + 1]
    BY <1>1, <1>2
  <1>4. 1 \in 1..Len(mainQueue) /\ Head(mainQueue) = mainQueue[1]
    BY <1>1
  <1>5. \A k \in 1..Len(mainQueue') :
          mainQueue[k + 1].text # 0 => mainQueue[1].text < mainQueue[k + 1].text
    BY <1>1, <1>3, <1>4 DEF HistoryInv, QueueInOrder
  <1> QED
    BY <1>1, <1>2, <1>3, <1>4, <1>5

\* The texts on their way, without the first.
LEMMA QueuedTaken ==
  ASSUME HistoryInv, mainQueue # <<>>, mainQueue' = Tail(mainQueue)
  PROVE  Queued = Queued' \union ({mainQueue[1].text} \ {0})
  <1>1. /\ mainQueue \in Seq(Sent) /\ Len(mainQueue) \in Nat \ {0}
        /\ Len(mainQueue') = Len(mainQueue) - 1
        /\ \A k \in 1..Len(mainQueue') : mainQueue'[k] = mainQueue[k + 1]
    BY DEF HistoryInv, UiTyped
  <1>2. ASSUME NEW k \in 1..Len(mainQueue), k # 1
        PROVE  k - 1 \in 1..Len(mainQueue') /\ mainQueue[k] = mainQueue'[k - 1]
    BY <1>1, <1>2
  <1>3. \A k \in 1..Len(mainQueue') : k + 1 \in 1..Len(mainQueue)
    BY <1>1
  <1>4. 1 \in 1..Len(mainQueue)
    BY <1>1
  <1>5. ASSUME NEW n
        PROVE  (\E k \in 1..Len(mainQueue) : n = mainQueue[k].text)
                 <=> \/ \E k \in 1..Len(mainQueue') : n = mainQueue'[k].text
                     \/ n = mainQueue[1].text
    <2>1. ASSUME NEW k \in 1..Len(mainQueue), n = mainQueue[k].text, k # 1
          PROVE  \E j \in 1..Len(mainQueue') : n = mainQueue'[j].text
      BY <1>2, <2>1
    <2>2. ASSUME NEW k \in 1..Len(mainQueue'), n = mainQueue'[k].text
          PROVE  \E j \in 1..Len(mainQueue) : n = mainQueue[j].text
      BY <1>1, <1>3, <2>2
    <2> QED
      BY <1>4, <2>1, <2>2
  <1>6. \A n : n \in Queued <=> n # 0 /\ \E k \in 1..Len(mainQueue) : n = mainQueue[k].text
    BY DEF Queued, BlankText
  <1>7. \A n : n \in Queued' <=>
               n # 0 /\ \E k \in 1..Len(mainQueue') : n = mainQueue'[k].text
    BY DEF Queued, BlankText
  <1>8. \A n : n \in Queued <=> n \in Queued' \/ (n = mainQueue[1].text /\ n # 0)
    <2> SUFFICES ASSUME NEW n
                 PROVE  n \in Queued <=> n \in Queued' \/ (n = mainQueue[1].text /\ n # 0)
      OBVIOUS
    <2>1. (\E k \in 1..Len(mainQueue) : n = mainQueue[k].text)
            <=> \/ \E k \in 1..Len(mainQueue') : n = mainQueue'[k].text
                \/ n = mainQueue[1].text
      BY <1>5
    <2>2. n \in Queued <=> n # 0 /\ \E k \in 1..Len(mainQueue) : n = mainQueue[k].text
      BY <1>6
    <2>3. n \in Queued' <=> n # 0 /\ \E k \in 1..Len(mainQueue') : n = mainQueue'[k].text
      BY <1>7
    <2> QED
      BY <2>1, <2>2, <2>3, Zenon
  <1> QED
    BY <1>8

\* What the main thread's steps leave alone.
MainKeeps == UNCHANGED <<mode, presses, emitting>>

\* The rest of the queue is in order as it was.
LEMMA TakenInOrder ==
  ASSUME HistoryInv, MainKeeps, mainQueue # <<>>, mainQueue' = Tail(mainQueue)
  PROVE  QueueInOrder'
  <1> SUFFICES ASSUME NEW k \in 1..Len(mainQueue')
               PROVE  /\ OfEarlierPress(mainQueue[k].text)'
                      /\ \A j \in 1..Len(mainQueue') :
                           j < k /\ mainQueue'[k].text # 0
                             => mainQueue'[j].text < mainQueue'[k].text
    BY DEF QueueInOrder
  <1>1. OfEarlierPress(mainQueue[k + 1].text)
    BY TakenMessage DEF HistoryInv, QueueInOrder
  <1>2. OfEarlierPress(mainQueue[k].text)'
    BY <1>1, TakenMessage DEF OfEarlierPress, DictationOn, MainKeeps
  <1>3. ASSUME NEW j \in 1..Len(mainQueue'), j < k, mainQueue'[k].text # 0
        PROVE  mainQueue'[j].text < mainQueue'[k].text
    <2>1. /\ mainQueue'[j] = mainQueue[j + 1] /\ j + 1 \in 1..Len(mainQueue)
          /\ mainQueue'[k] = mainQueue[k + 1] /\ k + 1 \in 1..Len(mainQueue)
      BY TakenMessage
    <2> QED
      BY <2>1, <1>3 DEF HistoryInv, QueueInOrder
  <1> QED
    BY <1>2, <1>3

\* A message that is not for the history.
LEMMA DropMessageInv ==
  ASSUME HistoryInv, MainKeeps, mainQueue # <<>>, mainQueue' = Tail(mainQueue),
         UNCHANGED <<history, historyOn, owed>>,
         ~historyOn \/ mainQueue[1].text = 0
  PROVE  HistoryInv'
  <1>1. UiTyped'
    BY TakenMessage DEF HistoryInv, UiTyped, MainKeeps, DictationOn
  <1>2. QueueInOrder'
    BY TakenInOrder
  <1>3. HistoryIsOlder'
    <2> SUFFICES ASSUME NEW i \in 1..Len(history)
                 PROVE  /\ OfEarlierPress(history[i])'
                        /\ \A k \in 1..Len(mainQueue') :
                             mainQueue'[k].text # 0 => history[i] < mainQueue'[k].text
      BY DEF HistoryIsOlder
    <2>1. OfEarlierPress(history[i])'
      BY DEF HistoryInv, HistoryIsOlder, OfEarlierPress, DictationOn, MainKeeps
    <2> QED
      BY <2>1, TakenMessage DEF HistoryInv, HistoryIsOlder
  <1>4. owed \ Queued' = owed \ Queued /\ Queued' \subseteq Queued
    BY QueuedTaken DEF HistoryInv, OwedTyped
  <1>5. HistoryHolds'
    BY <1>4 DEF HistoryInv, HistoryHolds
  <1>6. OwedTyped'
    BY <1>4 DEF HistoryInv, OwedTyped, MainKeeps
  <1> QED
    BY <1>1, <1>2, <1>3, <1>5, <1>6 DEF HistoryInv

\* The beginning of a sequence.
LEMMA Prefix ==
  ASSUME NEW q \in Seq(Nat), NEW n \in 1..Len(q)
  PROVE  /\ SubSeq(q, 1, n) \in Seq(Nat) /\ Len(SubSeq(q, 1, n)) = n
         /\ \A i \in 1..n : SubSeq(q, 1, n)[i] = q[i]
  OBVIOUS

\* The newest text in front, the oldest out.
LEMMA Remembered ==
  ASSUME NEW n \in Nat, history \in Seq(Nat),
         history' = SubSeq(<<n>> \o history, 1,
                           IF Len(history) < HistoryLimit THEN Len(history) + 1
                                                         ELSE HistoryLimit)
  PROVE  /\ history' \in Seq(Nat) /\ Len(history') <= HistoryLimit
         /\ \A i \in 1..Len(history') :
              \/ i = 1 /\ history'[i] = n
              \/ /\ i > 1 /\ i - 1 \in 1..Len(history)
                 /\ history'[i] = history[i - 1]
         /\ 1 \in 1..Len(history') /\ history'[1] = n
         /\ \A i \in 1..Len(history) :
              i + 1 \in 1..Len(history') \/ Len(history') = HistoryLimit
  <1> DEFINE longer == <<n>> \o history
             e == IF Len(history) < HistoryLimit THEN Len(history) + 1 ELSE HistoryLimit
  <1>1. /\ longer \in Seq(Nat) /\ Len(longer) = Len(history) + 1
        /\ longer[1] = n
        /\ \A i \in 2..Len(longer) : longer[i] = history[i - 1]
    OBVIOUS
  <1>2. Len(history) \in Nat /\ e \in 1..Len(longer) /\ e <= HistoryLimit
    BY <1>1, UiAssumption
  <1>3. history' = SubSeq(longer, 1, e)
    OBVIOUS
  <1> HIDE DEF longer, e
  <1>4. /\ history' \in Seq(Nat) /\ Len(history') = e
        /\ \A i \in 1..e : history'[i] = longer[i]
    BY <1>1, <1>2, <1>3, Prefix
  <1>5. ASSUME NEW i \in 1..Len(history'), i # 1
        PROVE  /\ i > 1 /\ i - 1 \in 1..Len(history)
               /\ history'[i] = history[i - 1]
    BY <1>1, <1>2, <1>4, <1>5
  <1>6. 1 \in 1..Len(history') /\ history'[1] = n
    BY <1>1, <1>2, <1>4
  <1>7. \A i \in 1..Len(history) :
          i + 1 \in 1..Len(history') \/ Len(history') = HistoryLimit
    BY <1>2, <1>4 DEF e
  <1> QED
    BY <1>2, <1>4, <1>5, <1>6, <1>7

\* A text that is for the history: newer than what is there, older than what is on
\* its way.
LEMMA RememberInv ==
  ASSUME HistoryInv, MainKeeps, mainQueue # <<>>, mainQueue' = Tail(mainQueue),
         UNCHANGED <<historyOn, owed>>, Remember(mainQueue[1].text)
  PROVE  HistoryInv'
  <1>1. CASE ~historyOn \/ mainQueue[1].text = 0
    BY <1>1, DropMessageInv DEF Remember, BlankText
  <1>2. CASE historyOn /\ mainQueue[1].text # 0
    <2> DEFINE n == mainQueue[1].text
    <2>1. n \in Nat /\ OfEarlierPress(n) /\ 1 \in 1..Len(mainQueue)
      BY QueuedText, TakenMessage DEF HistoryInv
    <2>2. /\ history' \in Seq(Nat) /\ Len(history') <= HistoryLimit
          /\ \A i \in 1..Len(history') :
               \/ i = 1 /\ history'[i] = n
               \/ /\ i > 1 /\ i - 1 \in 1..Len(history)
                  /\ history'[i] = history[i - 1]
          /\ 1 \in 1..Len(history') /\ history'[1] = n
          /\ \A i \in 1..Len(history) :
               i + 1 \in 1..Len(history') \/ Len(history') = HistoryLimit
      BY <1>2, <2>1, Remembered DEF Remember, BlankText, HistoryInv, UiTyped
    <2>3. \A i \in 1..Len(history) :
            history[i] \in Nat /\ OfEarlierPress(history[i]) /\ history[i] < n
      BY <1>2, <2>1 DEF HistoryInv, HistoryIsOlder, UiTyped
    <2>4. \A k \in 1..Len(mainQueue') :
            mainQueue'[k].text # 0 =>
              /\ n < mainQueue'[k].text
              /\ \A i \in 1..Len(history) : history[i] < mainQueue'[k].text
      BY TakenMessage DEF HistoryInv, HistoryIsOlder
    <2>5. Queued = Queued' \union {n}
      BY <1>2, QueuedTaken
    <2> HIDE DEF n
    <2>6. UiTyped'
      BY <2>2, TakenMessage DEF HistoryInv, UiTyped, MainKeeps, DictationOn
    <2>7. QueueInOrder'
      BY TakenInOrder
    <2>8. HistoryIsOlder'
      BY <2>1, <2>2, <2>3, <2>4 DEF HistoryIsOlder, OfEarlierPress, DictationOn, MainKeeps
    <2>9. OwedTyped'
      BY <1>2, <2>5 DEF HistoryInv, OwedTyped, MainKeeps
    <2>10. \A i, j \in 1..Len(history') : i < j => history'[i] > history'[j]
      <3> SUFFICES ASSUME NEW i \in 1..Len(history'), NEW j \in 1..Len(history'), i < j
                   PROVE  history'[i] > history'[j]
        OBVIOUS
      <3>1. j > 1 /\ j - 1 \in 1..Len(history) /\ history'[j] = history[j - 1]
        BY <2>2
      <3>2. CASE i = 1
        BY <3>1, <3>2, <2>1, <2>2, <2>3
      <3>3. CASE i # 1
        <4>1. i - 1 \in 1..Len(history) /\ history'[i] = history[i - 1]
          BY <3>3, <2>2
        <4> QED
          BY <4>1, <3>1 DEF HistoryInv, HistoryHolds
      <3> QED
        BY <3>2, <3>3
    <2>11. \A i \in 1..Len(history') : history'[i] \in owed'
      BY <1>2, <2>2, <2>5 DEF HistoryInv, HistoryHolds, OwedTyped
    <2>12. ASSUME NEW o \in owed' \ Queued'
           PROVE  \/ \E i \in 1..Len(history') : history'[i] = o
                  \/ /\ Len(history') = HistoryLimit
                     /\ \A i \in 1..Len(history') : o < history'[i]
      <3>1. CASE o = n
        BY <3>1, <2>2
      <3>2. ASSUME NEW j \in 1..Len(history), history[j] = o PROVE <2>12!2
        <4>1. CASE j + 1 \in 1..Len(history')
          <5>1. history'[j + 1] = history[j]
            BY <4>1, <2>2
          <5> QED
            BY <4>1, <5>1, <3>2
        <4>2. CASE j + 1 \notin 1..Len(history')
          <5>1. Len(history') = HistoryLimit /\ j + 1 > Len(history')
            BY <4>2, <2>2
          <5>2. ASSUME NEW i \in 1..Len(history') PROVE o < history'[i]
            <6>1. CASE i = 1
              BY <6>1, <2>2, <2>3, <3>2
            <6>2. CASE i # 1
              <7>1. i - 1 \in 1..Len(history) /\ history'[i] = history[i - 1] /\ i - 1 < j
                BY <6>2, <5>1, <2>2
              <7>2. history[i - 1] > history[j]
                BY <7>1 DEF HistoryInv, HistoryHolds
              <7> QED
                BY <7>1, <7>2, <3>2, <2>3
            <6> QED
              BY <6>1, <6>2
          <5> QED
            BY <5>1, <5>2
        <4> QED
          BY <4>1, <4>2
      <3>3. CASE /\ Len(history) = HistoryLimit
                 /\ \A i \in 1..Len(history) : o < history[i]
        <4>1. Len(history') = HistoryLimit /\ 1 \in 1..Len(history)
          <5>1. Len(history) \in 1..Len(history) /\ 1 \in 1..Len(history)
            BY <3>3, UiAssumption
          <5>2. Len(history) + 1 \notin 1..HistoryLimit
            BY <3>3, UiAssumption
          <5> QED
            BY <5>1, <5>2, <2>2, <3>3, UiAssumption
        <4>2. o < history[1] /\ history[1] < n /\ o \in Nat
          BY <4>1, <3>3, <2>3 DEF HistoryInv, OwedTyped, UiTyped
        <4>3. ASSUME NEW i \in 1..Len(history') PROVE o < history'[i]
          BY <2>1, <2>2, <2>3, <3>3, <4>1, <4>2
        <4> QED
          BY <4>1, <4>3
      <3>4. o = n \/ o \in owed \ Queued
        BY <2>5
      <3> QED
        BY <3>1, <3>2, <3>3, <3>4 DEF HistoryInv, HistoryHolds
    <2>13. HistoryHolds'
      BY <1>2, <2>2, <2>10, <2>11, <2>12 DEF HistoryHolds
    <2> QED
      BY <2>6, <2>7, <2>8, <2>9, <2>13 DEF HistoryInv
  <1> QED
    BY <1>1, <1>2, TakenMessage DEF HistoryInv

\* The history is turned on or off, or cleared.
LEMMA ForgetInv ==
  ASSUME HistoryInv, ToggleHistory \/ ClearHistory
  PROVE  HistoryInv'
  <1>1. MainKeeps /\ UNCHANGED mainQueue
    BY DEF ToggleHistory, ClearHistory, MainFrame, MainKeeps, modeMachineVars, counts
  <1>2. /\ history' = <<>>
        /\ owed' = (IF historyOn' THEN Queued ELSE {})
    <2>1. CASE ToggleHistory
      <3>1. historyOn \in BOOLEAN => historyOn' \in BOOLEAN
        BY <2>1, Zenon DEF ToggleHistory
      <3> QED
        BY <2>1 DEF ToggleHistory, HistoryInv, HistoryHolds
    <2>2. CASE ClearHistory
      BY <2>2 DEF ClearHistory
    <2> QED
      BY <2>1, <2>2
  <1>3. UiTyped'
    <2>1. <<>> \in Seq(Nat)
      OBVIOUS
    <2> QED
      BY <1>1, <1>2, <2>1 DEF HistoryInv, UiTyped, MainKeeps, DictationOn
  <1>4. QueueInOrder'
    BY <1>1 DEF HistoryInv, QueueInOrder, OfEarlierPress, DictationOn, MainKeeps
  <1>5. Queued' = Queued /\ Queued \subseteq 1..presses
    <2>1. \A k \in 1..Len(mainQueue) :
            mainQueue[k].text \in Nat /\ OfEarlierPress(mainQueue[k].text)
      BY QueuedText DEF HistoryInv
    <2> QED
      BY <1>1, <2>1 DEF Queued, BlankText, OfEarlierPress, HistoryInv, UiTyped
  <1>6. OwedTyped'
    BY <1>1, <1>2, <1>5 DEF OwedTyped, MainKeeps
  <1>7. HistoryIsOlder' /\ HistoryHolds'
    <2>1. Len(history') = 0
      BY <1>2
    <2>2. owed' \ Queued' = {}
      BY <1>2, <1>5
    <2> QED
      BY <1>2, <2>1, <2>2, UiAssumption DEF HistoryIsOlder, HistoryHolds
  <1> QED
    BY <1>3, <1>4, <1>6, <1>7 DEF HistoryInv

\* The main thread's steps, and the timer of a saved notification.
LEMMA UiInv ==
  ASSUME HistoryInv, Ui
  PROVE  HistoryInv'
  <1>1. CASE Handle
    <2>1. /\ MainKeeps /\ mainQueue # <<>> /\ mainQueue' = Tail(mainQueue)
          /\ UNCHANGED <<historyOn, owed>>
      BY <1>1 DEF Handle, MainFrame, MainKeeps, modeMachineVars, counts
    <2>2. Head(mainQueue) = mainQueue[1]
      BY <2>1, TakenMessage
    <2>3. \/ history' = history /\ mainQueue[1].what # "Text"
          \/ Remember(mainQueue[1].text)
      BY <1>1, <2>2 DEF Handle, Show, Statuses
    <2>4. mainQueue[1].what # "Text" => mainQueue[1].text = 0
      BY <2>1, TakenMessage DEF Sent
    <2>5. CASE Remember(mainQueue[1].text)
      BY <2>1, <2>5, RememberInv
    <2>6. CASE history' = history /\ mainQueue[1].what # "Text"
      BY <2>1, <2>4, <2>6, DropMessageInv
    <2> QED
      BY <2>3, <2>5, <2>6
  <1>2. CASE TimerFires
    <2>1. SavedOver \in Sent /\ SavedOver.text = 0
      BY DEF SavedOver, Sent
    <2>2. /\ mainQueue' = Append(mainQueue, SavedOver)
          /\ UNCHANGED <<history, historyOn, owed, emitting>> /\ EarlierStays
      BY <1>2 DEF TimerFires, Send, MainFrame, historyVars, modeMachineVars, counts,
                  EarlierStays, HistoryInv, UiTyped, DictationOn
    <2>3. emitting' \in [Threads -> Seq(Notice)]
      BY <2>2 DEF HistoryInv, UiTyped
    <2> QED
      BY <2>1, <2>2, <2>3, SendInv
  <1>3. CASE ToggleHistory \/ ClearHistory
    BY <1>3, ForgetInv
  <1> QED
    BY <1>1, <1>2, <1>3 DEF Ui

-----------------------------------------------------------------------------
\* Every step.
LEMMA HistoryStep ==
  ASSUME HistoryInv, [Next]_vars
  PROVE  HistoryInv'
  <1>1. CASE UNCHANGED vars
    <2>1. UNCHANGED <<mode, presses, emitting, mainQueue, history, historyOn, owed>>
      BY <1>1 DEF vars, modeMachineVars, historyVars, counts
    <2>2. EarlierStays /\ emitting' \in [Threads -> Seq(Notice)]
      BY <2>1 DEF HistoryInv, UiTyped, EarlierStays, DictationOn
    <2> QED
      BY <2>1, <2>2, QuietStepInv
  <1> QED
    BY <1>1, DictationInv, SessionInv, EmitInv, UiInv DEF Next

\* Of every behaviour.
LEMMA HistoryInvariant == Spec => []HistoryInv
  BY UiInitInv, HistoryStep, PTL DEF Spec

\* dictation_history.cpp:23, app_delegate.mm:287: for any limit, any number of
\* dictations and any main queue, the history is of what was dictated since the
\* user last cleared it or turned it on, and of all of that which has arrived but
\* what newer texts have driven out; newest first, within its limit, and empty
\* while it is off.
THEOREM HistoryHoldsAlways == Spec => []HistoryHolds
  <1>1. HistoryInv => HistoryHolds
    BY DEF HistoryInv
  <1> QED
    BY <1>1, HistoryInvariant, PTL

-----------------------------------------------------------------------------
(***************************************************************************)
(* What the threads have to report.                                        *)
(***************************************************************************)

\* A pending report is of the mode as it is, as far as it can be: a press that is given
\* up for its microphone leaves its report behind.
Expected(t, w) ==
  /\ w = "Dictating" => t = "hotkey" /\ (cancelled \/ mode = "Dictating")
  /\ w = "Transcribing" => t = "hotkey" /\ mode = "Transcribing" /\ owner = "hotkey"
  /\ w = "Finalizing" => t = "main" /\ mode = "Finalizing" /\ owner = "main"
  /\ w \in {"RecordingListening", "RecordingCapturing"} =>
       \/ t = "main" /\ mode = "Recording" /\ owner = "main"
       \/ t = "tap" /\ mode = "Recording" /\ owner = "nobody"
       \/ t = "tap" /\ mode = "Finalizing" /\ owner = "main"

PendingExpected ==
  \A t \in Threads : \A i \in 1..Len(emitting[t]) : Expected(t, emitting[t][i].what)

\* What thread u had to report is still as it was expected.
StaysExpected(u) == Silent(u) \/ \A w : Expected(u, w) => Expected(u, w)'

\* A thread's own reports, and those of others that stay as they are.
LEMMA ExpectedTells ==
  ASSUME UiTyped, PendingExpected, NEW t \in Threads, NEW statuses \in Seq(Notice),
         Tells(t, statuses),
         \A i \in 1..Len(statuses) : Expected(t, statuses[i].what)',
         \A u \in Threads \ {t} : StaysExpected(u)
  PROVE  PendingExpected'
  <1>1. emitting'[t] = statuses /\ \A u \in Threads \ {t} : emitting'[u] = emitting[u]
    BY DEF Tells, UiTyped
  <1>2. ASSUME NEW u \in Threads, NEW i \in 1..Len(emitting'[u])
        PROVE  Expected(u, emitting[u][i].what)'
    <2>1. CASE u = t
      BY <1>1, <1>2, <2>1
    <2>2. CASE u # t
      <3>1. emitting'[u] = emitting[u] /\ i \in 1..Len(emitting[u])
        BY <1>1, <1>2, <2>2
      <3>2. ~Silent(u)
        BY <3>1 DEF Silent
      <3>3. Expected(u, emitting[u][i].what)
        BY <3>1 DEF PendingExpected
      <3> QED
        BY <2>2, <3>1, <3>2, <3>3 DEF StaysExpected
    <2> QED
      BY <2>1, <2>2
  <1> QED
    BY <1>2 DEF PendingExpected

\* Nobody reports anything new.
LEMMA ExpectedStays ==
  ASSUME PendingExpected, UNCHANGED emitting, \A u \in Threads : StaysExpected(u)
  PROVE  PendingExpected'
  <1>1. ASSUME NEW u \in Threads, NEW i \in 1..Len(emitting'[u])
        PROVE  Expected(u, emitting[u][i].what)'
    <2>1. ~Silent(u) /\ Expected(u, emitting[u][i].what)
      BY <1>1 DEF Silent, PendingExpected
    <2> QED
      BY <2>1 DEF StaysExpected
  <1> QED
    BY <1>1 DEF PendingExpected

\* A report leaves its thread.
LEMMA Emitted ==
  ASSUME UiTyped, NEW t \in Threads, Emit(t)
  PROVE  /\ emitting[t] \in Seq(Notice) /\ Len(emitting[t]) \in Nat \ {0}
         /\ \A u \in Threads \ {t} : emitting'[u] = emitting[u]
         /\ Len(emitting'[t]) = Len(emitting[t]) - 1
         /\ \A i \in 1..Len(emitting'[t]) :
              i + 1 \in 1..Len(emitting[t]) /\ emitting'[t][i] = emitting[t][i + 1]
         /\ Head(emitting[t]) = emitting[t][1]
  <1>1. emitting[t] \in Seq(Notice) /\ emitting[t] # <<>>
    BY DEF UiTyped, Emit, Silent
  <1>2. Len(emitting[t]) \in Nat \ {0}
    BY <1>1
  <1>3. emitting'[t] = Tail(emitting[t])
        /\ \A u \in Threads \ {t} : emitting'[u] = emitting[u]
    BY DEF UiTyped, Emit
  <1>4. Len(emitting'[t]) = Len(emitting[t]) - 1
    BY <1>1, <1>2, <1>3
  <1>5. \A i \in 1..Len(emitting'[t]) :
          i + 1 \in 1..Len(emitting[t]) /\ emitting'[t][i] = emitting[t][i + 1]
    BY <1>1, <1>2, <1>3, <1>4
  <1> QED
    BY <1>1, <1>2, <1>3, <1>4, <1>5

\* A report that is out changes nothing for the others.
LEMMA ExpectedEmit ==
  ASSUME UiTyped, PendingExpected, NEW t \in Threads, Emit(t)
  PROVE  PendingExpected'
  <1>1. \A u, w : Expected(u, w)' <=> Expected(u, w)
    BY DEF Emit, modeMachineVars, Expected
  <1>2. ASSUME NEW u \in Threads, NEW i \in 1..Len(emitting'[u])
        PROVE  Expected(u, emitting[u][i].what)'
    <2>1. CASE u = t
      BY <1>1, <1>2, <2>1, Emitted DEF PendingExpected
    <2>2. CASE u # t
      BY <1>1, <1>2, <2>2, Emitted DEF PendingExpected
    <2> QED
      BY <2>1, <2>2
  <1> QED
    BY <1>2 DEF PendingExpected

\* One report.
LEMMA OneStatus ==
  ASSUME NEW s \in Statuses
  PROVE  /\ <<Status(s)>> \in Seq(Notice) /\ Len(<<Status(s)>>) = 1
         /\ <<Status(s)>>[1].what = s
  BY DEF Status, Notice

\* Two reports.
LEMMA TwoStatuses ==
  ASSUME NEW s \in Statuses, NEW r \in Statuses
  PROVE  /\ <<Status(s), Status(r)>> \in Seq(Notice)
         /\ Len(<<Status(s), Status(r)>>) = 2
         /\ <<Status(s), Status(r)>>[1].what = s
         /\ <<Status(s), Status(r)>>[2].what = r
  BY DEF Status, Notice

\* A thread reports one status.
LEMMA ExpectedOne ==
  ASSUME UiTyped, PendingExpected, NEW t \in Threads, NEW s \in Statuses,
         Tells(t, <<Status(s)>>), Expected(t, s)', \A u \in Threads \ {t} : StaysExpected(u)
  PROVE  PendingExpected'
  <1> DEFINE q == <<Status(s)>>
  <1>1. q \in Seq(Notice) /\ Len(q) = 1 /\ q[1].what = s
    BY OneStatus
  <1>2. \A i \in 1..Len(q) : q[i].what = s
    BY <1>1
  <1> HIDE DEF q
  <1>3. \A i \in 1..Len(q) : Expected(t, q[i].what)'
    BY <1>2
  <1>4. Tells(t, q)
    BY DEF q
  <1> QED
    BY <1>1, <1>3, <1>4, ExpectedTells

\* Where nothing changes that a report is about.
LEMMA ExpectedKept ==
  ASSUME UNCHANGED <<mode, owner, cancelled>>
  PROVE  \A u : StaysExpected(u)
  BY DEF StaysExpected, Expected

\* Dictations.
LEMMA ExpectedDictation ==
  ASSUME UiTyped, PendingExpected, Dictation
  PROVE  PendingExpected'
  <1> {"main", "hotkey", "mic", "worker", "tap", "device"} \subseteq Threads
    BY DEF Threads
  <1> Statuses = {"Idle", "Dictating", "Transcribing", "RecordingListening",
                  "RecordingCapturing", "Finalizing", "Beep", "Error"}
    BY DEF Statuses
  <1>1. CASE HotkeyDown
    <2>1. \A u \in Threads \ {"hotkey"} : StaysExpected(u)
      BY <1>1 DEF HotkeyDown, TryDictate, Move, StaysExpected, Expected
    <2> QED
      BY <1>1, <2>1, ExpectedOne DEF HotkeyDown, TryDictate, Move, Reports, Expected
  <1>2. CASE HotkeyRejected
    BY <1>2, ExpectedKept, ExpectedOne
       DEF HotkeyRejected, Notices, modeMachineVars, Expected
  <1>3. CASE HotkeyUp
    <2>1. \A u \in Threads \ {"hotkey"} : StaysExpected(u)
      BY <1>3 DEF HotkeyUp, FinishDictation, Move, StaysExpected, Expected
    <2> QED
      BY <1>3, <2>1, ExpectedOne DEF HotkeyUp, FinishDictation, Move, Reports, Expected
  <1>4. CASE HotkeyEnqueues
    <2>1. \A u \in Threads : StaysExpected(u)
      BY <1>4 DEF HotkeyEnqueues, QueueDictation, Move, StaysExpected, Expected
    <2> QED
      BY <1>4, <2>1, ExpectedStays DEF HotkeyEnqueues
  <1>5. CASE HotkeyDiscards
    <2>1. \A u \in Threads \ {"hotkey"} : StaysExpected(u)
      BY <1>5 DEF HotkeyDiscards, DiscardDictation, Move, StaysExpected, Expected
    <2> QED
      BY <1>5, <2>1, ExpectedOne
         DEF HotkeyDiscards, DiscardDictation, Move, Reports, Expected
  <1>6. CASE MicFails
    BY <1>6, ExpectedKept, ExpectedStays DEF MicFails, modeMachineVars
  <1>7. CASE MicCancels
    <2>1. CASE CancelDictation /\ Reports("mic", <<Status("Idle"), Status("Error")>>)
               /\ cancelled' = TRUE
      <3>1. \A u \in Threads \ {"mic"} : StaysExpected(u)
        BY <2>1 DEF CancelDictation, Move, StaysExpected, Expected
      <3> DEFINE q == <<Status("Idle"), Status("Error")>>
      <3>2. /\ q \in Seq(Notice)
            /\ \A i \in 1..Len(q) : q[i].what \in {"Idle", "Error"}
        BY TwoStatuses
      <3>3. Tells("mic", q)
        BY <2>1 DEF Reports
      <3> HIDE DEF q
      <3>4. \A i \in 1..Len(q) : Expected("mic", q[i].what)'
        BY <3>2 DEF Expected
      <3> QED
        BY <3>1, <3>2, <3>3, <3>4, ExpectedTells
    <2>2. CASE Tells("mic", <<Status("Error")>>)
               /\ UNCHANGED <<modeMachineVars, raced, cancelled>>
      BY <2>2, ExpectedKept, ExpectedOne DEF modeMachineVars, Expected
    <2> QED
      BY <1>7, <2>1, <2>2 DEF MicCancels
  <1>8. ASSUME NEW b \in BOOLEAN, DictationResult(b) PROVE PendingExpected'
    <2>1. \A u \in Threads \ {"worker"} : StaysExpected(u)
      BY <1>8 DEF DictationResult, TranscriptionDone, Move, StaysExpected, Expected
    <2> QED
      BY <1>8, <2>1, ExpectedOne
         DEF DictationResult, TranscriptionDone, Move, Reports, Expected
  <1>9. ASSUME NEW b \in BOOLEAN, DictationLost(b) PROVE PendingExpected'
    <2>1. \A u \in Threads \ {"worker"} : StaysExpected(u)
      BY <1>9 DEF DictationLost, LoseDictation, Move, StaysExpected, Expected
    <2>2. CASE b
      BY <1>9, <2>1, <2>2, ExpectedOne DEF DictationLost, Expected
    <2>3. CASE ~b
      <3> DEFINE q == <<>>
      <3>1. Tells("worker", q) /\ q \in Seq(Notice) /\ Len(q) = 0
        BY <1>9, <2>3 DEF DictationLost
      <3> HIDE DEF q
      <3>2. \A i \in 1..Len(q) : Expected("worker", q[i].what)'
        BY <3>1
      <3> QED
        BY <2>1, <3>1, <3>2, ExpectedTells
    <2> QED
      BY <2>2, <2>3
  <1> QED
    BY <1>1, <1>2, <1>3, <1>4, <1>5, <1>6, <1>7, <1>8, <1>9 DEF Dictation

\* Sessions.
LEMMA ExpectedSession ==
  ASSUME UiTyped, PendingExpected, Session
  PROVE  PendingExpected'
  <1> {"main", "hotkey", "mic", "worker", "tap", "device"} \subseteq Threads
    BY DEF Threads
  <1> Statuses = {"Idle", "Dictating", "Transcribing", "RecordingListening",
                  "RecordingCapturing", "Finalizing", "Beep", "Error"}
    BY DEF Statuses
  <1>1. CASE ClickStart
    <2>1. \A u \in Threads \ {"main"} : StaysExpected(u)
      BY <1>1 DEF ClickStart, SessionFrame, TryRecord, Move, StaysExpected, Expected
    <2> QED
      BY <1>1, <2>1, ExpectedOne DEF ClickStart, TryRecord, Move, Reports, Expected
  <1>2. CASE SessionStarts
    <2>1. \A u \in Threads : StaysExpected(u)
      BY <1>2 DEF SessionStarts, SessionFrame, RecordingStarts, Move, StaysExpected,
                  Expected
    <2> QED
      BY <1>2, <2>1, ExpectedStays DEF SessionStarts
  <1>3. CASE SessionFails
    <2>1. \A u \in Threads \ {"main"} : StaysExpected(u)
      BY <1>3 DEF SessionFails, SessionFrame, RecordingFails, Move, StaysExpected,
                  Expected
    <2> QED
      BY <1>3, <2>1, ExpectedOne DEF SessionFails, RecordingFails, Move, Reports, Expected
  <1>4. CASE ClickStop
    <2>1. \A u \in Threads \ {"main"} : StaysExpected(u)
      BY <1>4 DEF ClickStop, SessionFrame, StopRecord, Move, StaysExpected, Expected
    <2> QED
      BY <1>4, <2>1, ExpectedOne DEF ClickStop, StopRecord, Move, Reports, Expected
  <1>5. CASE SessionArms
    <2>1. \A u \in Threads : StaysExpected(u)
      BY <1>5 DEF SessionArms, SessionFrame, ArmDone, Move, StaysExpected, Expected
    <2> QED
      BY <1>5, <2>1, ExpectedStays DEF SessionArms
  <1>6. CASE SessionDone
    <2>1. \A u \in Threads \ {"worker"} : StaysExpected(u)
      BY <1>6 DEF SessionDone, SessionFrame, FinalizeDone, Move, StaysExpected, Expected
    <2> QED
      BY <1>6, <2>1, ExpectedOne DEF SessionDone, FinalizeDone, Move, Reports, Expected
  <1>7. CASE TapNotices("RecordingListening") \/ TapNotices("RecordingCapturing")
    BY <1>7, ExpectedKept, ExpectedOne DEF TapNotices, Notices, modeMachineVars, Expected
  <1>8. CASE WorkerNotices \/ DeviceNotices
    BY <1>8, ExpectedKept, ExpectedOne
       DEF WorkerNotices, DeviceNotices, Notices, modeMachineVars, Expected
  <1> QED
    BY <1>1, <1>2, <1>3, <1>4, <1>5, <1>6, <1>7, <1>8 DEF Session

\* Every step.
LEMMA ExpectedStep ==
  ASSUME UiTyped, PendingExpected, [Next]_vars
  PROVE  PendingExpected'
  <1>1. CASE Ui \/ UNCHANGED vars
    <2>1. UNCHANGED <<mode, owner, cancelled, emitting>>
      BY <1>1, Zenon DEF Ui, Handle, TimerFires, ToggleHistory, ClearHistory, MainFrame, vars,
                  modeMachineVars
    <2> QED
      BY <2>1, ExpectedKept, ExpectedStays
  <1> QED
    BY <1>1, ExpectedDictation, ExpectedSession, ExpectedEmit DEF Next

-----------------------------------------------------------------------------
(***************************************************************************)
(* The menu.                                                               *)
(***************************************************************************)

\* The menu is right when it shows this, or the error that it may show instead.
Settles(w) ==
  \/ w = "Error"
  \/ /\ w \in Statuses \ {"Beep"}
     /\ w = "Idle" <=> mode = "Idle"
     /\ w \in {"RecordingListening", "RecordingCapturing"} <=> mode = "Recording"

\* What does not make the menu wrong.
Fits(w) == w \in {"Beep", "Text", "SavedOver"} \/ Settles(w)

\* When MenuFollowsMode asks for anything.
Current == raced # "now" \/ (mode = "Idle" /\ ~cancelled)

\* Nothing pending will make the menu wrong, and something is, or will be, shown that is
\* right and stays: it is with a thread, in the main queue, or on the menu.
PendingFits ==
  \A t \in Threads : \A i \in 1..Len(emitting[t]) : Fits(emitting[t][i].what)
WithThread ==
  \E t \in Threads : \E i \in 1..Len(emitting[t]) : Settles(emitting[t][i].what)
InQueue ==
  \E k \in 1..Len(mainQueue) :
    /\ Settles(mainQueue[k].what)
    /\ \A j \in 1..Len(mainQueue) : j > k => Fits(mainQueue[j].what)
OnMenu ==
  /\ Settles(shown)
  /\ \A j \in 1..Len(mainQueue) : Fits(mainQueue[j].what)

FitInv == Current => PendingFits /\ (WithThread \/ InQueue \/ OnMenu)

\* What a status is worth depends on the mode only.
LEMMA FitsKept ==
  ASSUME mode' = mode
  PROVE  \A w : (Settles(w)' <=> Settles(w)) /\ (Fits(w)' <=> Fits(w))
  BY DEF Fits, Settles

\* When the app is ready again, nothing is pending that would hide it.
LEMMA IdlePending ==
  ASSUME UiTyped', PendingExpected', mode' = "Idle", ~cancelled'
  PROVE  PendingFits'
  <1>1. ASSUME NEW t \in Threads, NEW i \in 1..Len(emitting'[t])
        PROVE  Fits(emitting[t][i].what)'
    <2>1. emitting'[t][i] \in Notice /\ Expected(t, emitting[t][i].what)'
      BY <1>1 DEF UiTyped, PendingExpected
    <2>2. emitting'[t][i].what \in Statuses \union {"Text", "SavedOver"}
      BY <2>1 DEF Notice
    <2>3. \A w \in Statuses \union {"Text", "SavedOver"} : Expected(t, w)' => Fits(w)'
      BY DEF Expected, Fits, Settles, Statuses
    <2> QED
      BY <2>1, <2>2, <2>3
  <1> QED
    BY <1>1 DEF PendingFits

\* A transition whose thread reports what settles the menu.
LEMMA FitTransition ==
  ASSUME UiTyped, UiTyped', PendingExpected', NEW t \in Threads,
         NEW statuses \in Seq(Notice), Reports(t, statuses),
         \A i \in 1..Len(statuses) : Fits(statuses[i].what)',
         \E i \in 1..Len(statuses) : Settles(statuses[i].what)'
  PROVE  FitInv'
  <1>1. emitting'[t] = statuses /\ \A u \in Threads \ {t} : emitting'[u] = emitting[u]
    BY DEF Reports, Tells, UiTyped
  <1>2. WithThread'
    BY <1>1 DEF WithThread
  <1>3. CASE raced' # "now"
    <2>1. \A u \in Threads : emitting[u] = <<>>
      BY <1>3 DEF Reports, Silent
    <2>2. ASSUME NEW u \in Threads, NEW i \in 1..Len(emitting'[u])
          PROVE  Fits(emitting[u][i].what)'
      <3>1. CASE u = t
        BY <1>1, <2>2, <3>1
      <3>2. CASE u # t
        <4>1. emitting'[u] = <<>>
          BY <1>1, <2>1, <3>2
        <4>2. Len(emitting'[u]) = 0
          BY <4>1
        <4> QED
          BY <2>2, <4>2
      <3> QED
        BY <3>1, <3>2
    <2> QED
      BY <1>2, <2>2 DEF FitInv, PendingFits
  <1>4. CASE mode' = "Idle" /\ ~cancelled'
    BY <1>2, <1>4, IdlePending DEF FitInv
  <1> QED
    BY <1>3, <1>4 DEF FitInv, Current

\* The menu is left, and so is what the mode and its report are.
SameMode == UNCHANGED <<mode, raced, cancelled>>

\* A thread has more to tell, all of it right, and nothing moves.
LEMMA FitTells ==
  ASSUME UiTyped, FitInv, SameMode, UNCHANGED <<mainQueue, shown>>,
         NEW t \in Threads, NEW statuses \in Seq(Notice), Tells(t, statuses),
         Current => \A i \in 1..Len(statuses) : Fits(statuses[i].what)
  PROVE  FitInv'
  <1>1. emitting'[t] = statuses /\ \A u \in Threads \ {t} : emitting'[u] = emitting[u]
    BY DEF Tells, UiTyped
  <1>2. \A w : (Settles(w)' <=> Settles(w)) /\ (Fits(w)' <=> Fits(w))
    BY FitsKept DEF SameMode
  <1>3. SUFFICES ASSUME Current
                 PROVE  PendingFits' /\ (WithThread' \/ InQueue' \/ OnMenu')
    BY DEF FitInv, Current, SameMode
  <1>4. ASSUME NEW u \in Threads, NEW i \in 1..Len(emitting'[u])
        PROVE  Fits(emitting[u][i].what)'
    <2>1. CASE u = t
      BY <1>1, <1>2, <1>3, <1>4, <2>1
    <2>2. CASE u # t
      BY <1>1, <1>2, <1>3, <1>4, <2>2 DEF FitInv, PendingFits
    <2> QED
      BY <2>1, <2>2
  <1>5. CASE WithThread
    <2>1. PICK u \in Threads : \E i \in 1..Len(emitting[u]) : Settles(emitting[u][i].what)
      BY <1>5 DEF WithThread
    <2>2. u # t
      <3>1. Len(emitting[u]) # 0
        BY <2>1
      <3> QED
        BY <3>1 DEF Tells, Silent
    <2>3. WithThread'
      BY <1>1, <1>2, <2>1, <2>2 DEF WithThread
    <2> QED
      BY <1>4, <2>3 DEF PendingFits
  <1>6. CASE InQueue \/ OnMenu
    BY <1>2, <1>4, <1>6 DEF PendingFits, InQueue, OnMenu
  <1> QED
    BY <1>3, <1>5, <1>6 DEF FitInv

\* A step that has nothing to do with the menu.
LEMMA FitSame ==
  ASSUME FitInv, SameMode, UNCHANGED <<mainQueue, shown, emitting>>
  PROVE  FitInv'
  <1>1. \A w : (Settles(w)' <=> Settles(w)) /\ (Fits(w)' <=> Fits(w))
    BY FitsKept DEF SameMode
  <1>2. PendingFits' <=> PendingFits
    BY <1>1 DEF PendingFits
  <1>3. (WithThread' <=> WithThread) /\ (InQueue' <=> InQueue) /\ (OnMenu' <=> OnMenu)
    BY <1>1 DEF WithThread, InQueue, OnMenu
  <1> QED
    BY <1>2, <1>3 DEF FitInv, Current, SameMode

\* What is in the main queue, or on the menu, stays right behind a message that fits.
LEMMA FitAppended ==
  ASSUME UiTyped, mode' = mode, UNCHANGED shown, NEW m \in Sent, Fits(m.what),
         mainQueue' = Append(mainQueue, m)
  PROVE  (InQueue => InQueue') /\ (OnMenu => OnMenu') /\ (Settles(m.what) => InQueue')
  <1>1. \A w : (Settles(w)' <=> Settles(w)) /\ (Fits(w)' <=> Fits(w))
    BY FitsKept
  <1>2. /\ Len(mainQueue) \in Nat /\ Len(mainQueue') = Len(mainQueue) + 1
        /\ \A k \in 1..Len(mainQueue) : mainQueue'[k] = mainQueue[k]
        /\ mainQueue'[Len(mainQueue) + 1] = m
    BY DEF UiTyped
  <1>3. ASSUME InQueue PROVE InQueue'
    <2>1. PICK k \in 1..Len(mainQueue) :
            /\ Settles(mainQueue[k].what)
            /\ \A j \in 1..Len(mainQueue) : j > k => Fits(mainQueue[j].what)
      BY <1>3 DEF InQueue
    <2>2. \A j \in 1..Len(mainQueue') : j > k => Fits(mainQueue'[j].what)
      BY <1>2, <2>1
    <2>3. k \in 1..Len(mainQueue') /\ Settles(mainQueue'[k].what)
      BY <1>2, <2>1
    <2> QED
      BY <1>1, <2>2, <2>3 DEF InQueue
  <1>4. ASSUME OnMenu PROVE OnMenu'
    <2>1. \A j \in 1..Len(mainQueue') : Fits(mainQueue'[j].what)
      BY <1>2, <1>4 DEF OnMenu
    <2> QED
      BY <1>1, <1>4, <2>1 DEF OnMenu
  <1>5. ASSUME Settles(m.what) PROVE InQueue'
    <2> DEFINE k == Len(mainQueue) + 1
    <2>1. k \in 1..Len(mainQueue') /\ mainQueue'[k] = m
      BY <1>2
    <2>2. \A j \in 1..Len(mainQueue') : ~(j > k)
      BY <1>2
    <2> HIDE DEF k
    <2> QED
      BY <1>1, <1>5, <2>1, <2>2 DEF InQueue
  <1> QED
    BY <1>3, <1>4, <1>5

\* A report goes to the main queue.
LEMMA FitEmit ==
  ASSUME UiTyped, FitInv, NEW t \in Threads, Emit(t)
  PROVE  FitInv'
  <1>1. SameMode /\ UNCHANGED shown
    BY DEF Emit, SameMode, modeMachineVars, uiVars
  <1>2. \A w : (Settles(w)' <=> Settles(w)) /\ (Fits(w)' <=> Fits(w))
    BY <1>1, FitsKept DEF SameMode
  <1>3. SUFFICES ASSUME Current
                 PROVE  PendingFits' /\ (WithThread' \/ InQueue' \/ OnMenu')
    BY <1>1 DEF FitInv, Current, SameMode
  <1>4. ASSUME NEW u \in Threads, NEW i \in 1..Len(emitting'[u])
        PROVE  Fits(emitting[u][i].what)'
    <2>1. CASE u = t
      BY <1>2, <1>3, <1>4, <2>1, Emitted DEF FitInv, PendingFits
    <2>2. CASE u # t
      BY <1>2, <1>3, <1>4, <2>2, Emitted DEF FitInv, PendingFits
    <2> QED
      BY <2>1, <2>2
  <1> DEFINE m == emitting[t][1]
  <1>5. m \in Notice /\ 1 \in 1..Len(emitting[t])
    BY Emitted
  <1>6. m \in Sent /\ Fits(m.what) /\ mainQueue' = Append(mainQueue, m)
    <2>1. m \in Sent
      BY <1>5 DEF Notice, Sent
    <2>2. Fits(m.what)
      BY <1>3, <1>5 DEF FitInv, PendingFits
    <2>3. mainQueue' = Append(mainQueue, m)
      BY Emitted DEF Emit, Send
    <2> QED
      BY <2>1, <2>2, <2>3
  <1>7. CASE WithThread
    <2>0. PICK u \in Threads : \E i \in 1..Len(emitting[u]) : Settles(emitting[u][i].what)
      BY <1>7 DEF WithThread
    <2>1. PICK i \in 1..Len(emitting[u]) : Settles(emitting[u][i].what)
      BY <2>0
    <2>2. CASE u # t
      <3>1. emitting'[u] = emitting[u]
        BY <2>2, Emitted
      <3>2. WithThread'
        BY <1>2, <2>1, <3>1 DEF WithThread
      <3> QED
        BY <1>4, <3>2 DEF PendingFits
    <2>3. CASE u = t /\ i # 1
      <3>1. i - 1 \in 1..Len(emitting'[t]) /\ emitting'[t][i - 1] = emitting[t][i]
        BY <2>1, <2>3, Emitted
      <3>2. WithThread'
        BY <1>2, <2>1, <2>3, <3>1 DEF WithThread
      <3> QED
        BY <1>4, <3>2 DEF PendingFits
    <2>4. CASE u = t /\ i = 1
      <3>1. InQueue'
        BY <1>1, <1>6, <2>1, <2>4, FitAppended DEF SameMode
      <3> QED
        BY <1>4, <3>1 DEF PendingFits
    <2> QED
      BY <2>2, <2>3, <2>4
  <1>8. CASE InQueue \/ OnMenu
    <2> HIDE DEF m
    <2>1. InQueue' \/ OnMenu'
      BY <1>1, <1>6, <1>8, FitAppended DEF SameMode
    <2> QED
      BY <1>4, <2>1 DEF PendingFits
  <1> QED
    BY <1>3, <1>7, <1>8 DEF FitInv

\* main takes a message, and shows it if it is a status.
LEMMA FitHandle ==
  ASSUME HistoryInv, FitInv, Handle
  PROVE  FitInv'
  <1> DEFINE m == mainQueue[1]
  <1>1. SameMode /\ UNCHANGED emitting
    BY DEF Handle, MainFrame, SameMode, modeMachineVars
  <1>2. \A w : (Settles(w)' <=> Settles(w)) /\ (Fits(w)' <=> Fits(w))
    BY <1>1, FitsKept DEF SameMode
  <1>3. SUFFICES ASSUME Current
                 PROVE  PendingFits' /\ (WithThread' \/ InQueue' \/ OnMenu')
    BY <1>1 DEF FitInv, Current, SameMode
  <1>4. PendingFits' /\ (WithThread => WithThread')
    BY <1>1, <1>2, <1>3 DEF FitInv, PendingFits, WithThread
  <1>5. mainQueue # <<>> /\ mainQueue' = Tail(mainQueue)
    BY DEF Handle
  <1>6. /\ Len(mainQueue) \in Nat \ {0} /\ Len(mainQueue') = Len(mainQueue) - 1
        /\ \A k \in 1..Len(mainQueue') :
             k + 1 \in 1..Len(mainQueue) /\ mainQueue'[k] = mainQueue[k + 1]
        /\ Head(mainQueue) = mainQueue[1]
    <2>1. mainQueue \in Seq(Sent)
      BY DEF HistoryInv, UiTyped
    <2> QED
      BY <1>5, <2>1, TakenMessage
  <1>7. \/ m.what \in Statuses \ {"Beep"} /\ shown' = m.what
        \/ m.what \in {"Text", "SavedOver", "Beep"} /\ shown' = shown
    BY <1>6 DEF Handle, Show, Remember, uiVars
  <1>8. Fits(m.what) => Settles(m.what) \/ m.what \in {"Text", "SavedOver", "Beep"}
    BY DEF Fits
  <1>9. \A w \in {"Text", "SavedOver", "Beep"} : ~Settles(w)
    BY DEF Settles, Statuses
  <1> HIDE DEF m
  <1>10. CASE OnMenu
    <2>1. Fits(m.what)
      BY <1>6, <1>10 DEF OnMenu, m
    <2>2. Settles(shown')
      BY <1>7, <1>8, <1>10, <2>1 DEF OnMenu, Statuses
    <2>3. \A k \in 1..Len(mainQueue') : Fits(mainQueue'[k].what)
      BY <1>6, <1>10 DEF OnMenu
    <2>4. OnMenu'
      BY <1>2, <2>2, <2>3 DEF OnMenu
    <2> QED
      BY <1>4, <2>4
  <1>11. CASE InQueue
    <2>1. PICK k \in 1..Len(mainQueue) :
            /\ Settles(mainQueue[k].what)
            /\ \A j \in 1..Len(mainQueue) : j > k => Fits(mainQueue[j].what)
      BY <1>11 DEF InQueue
    <2>2. CASE k = 1
      <3>1. Settles(shown')
        BY <1>7, <1>9, <2>1, <2>2 DEF m
      <3>2. \A j \in 1..Len(mainQueue') : Fits(mainQueue'[j].what)
        BY <1>6, <2>1, <2>2
      <3>3. OnMenu'
        BY <1>2, <3>1, <3>2 DEF OnMenu
      <3> QED
        BY <1>4, <3>3
    <2>3. CASE k # 1
      <3>1. k - 1 \in 1..Len(mainQueue') /\ mainQueue'[k - 1] = mainQueue[k]
        BY <1>6, <2>3
      <3>2. \A j \in 1..Len(mainQueue') : j > k - 1 => Fits(mainQueue'[j].what)
        BY <1>6, <2>1
      <3>3. InQueue'
        BY <1>2, <2>1, <3>1, <3>2 DEF InQueue
      <3> QED
        BY <1>4, <3>3
    <2> QED
      BY <2>2, <2>3
  <1> QED
    BY <1>3, <1>4, <1>10, <1>11 DEF FitInv

\* A transition that is reported by what the mode has become, or by an error.
LEMMA FitReports ==
  ASSUME UiTyped, UiTyped', PendingExpected', NEW t \in Threads, NEW s \in Statuses,
         Reports(t, <<Status(s)>>), Settles(s)'
  PROVE  FitInv'
  <1> DEFINE q == <<Status(s)>>
  <1>1. q \in Seq(Notice) /\ Len(q) = 1 /\ q[1].what = s
    BY OneStatus
  <1>2. Reports(t, q)
    OBVIOUS
  <1> HIDE DEF q
  <1>3. \A i \in 1..Len(q) : Fits(q[i].what)'
    BY <1>1 DEF Fits
  <1>4. \E i \in 1..Len(q) : Settles(q[i].what)'
    BY <1>1
  <1> QED
    BY <1>1, <1>2, <1>3, <1>4, FitTransition

\* Something to tell that is right.
LEMMA FitNotices ==
  ASSUME UiTyped, FitInv, SameMode, UNCHANGED <<mainQueue, shown>>,
         NEW t \in Threads, NEW s \in Statuses, Tells(t, <<Status(s)>>), Fits(s)
  PROVE  FitInv'
  <1> DEFINE q == <<Status(s)>>
  <1>1. q \in Seq(Notice) /\ Len(q) = 1 /\ q[1].what = s
    BY OneStatus
  <1>2. Tells(t, q)
    OBVIOUS
  <1> HIDE DEF q
  <1>3. \A i \in 1..Len(q) : Fits(q[i].what)
    BY <1>1
  <1> QED
    BY <1>1, <1>2, <1>3, FitTells

\* Dictations.
LEMMA FitDictation ==
  ASSUME UiTyped, UiTyped', PendingExpected', FitInv, Dictation
  PROVE  FitInv'
  <1> {"main", "hotkey", "mic", "worker", "tap", "device"} \subseteq Threads
    BY DEF Threads
  <1> Statuses = {"Idle", "Dictating", "Transcribing", "RecordingListening",
                  "RecordingCapturing", "Finalizing", "Beep", "Error"}
    BY DEF Statuses
  <1>1. CASE HotkeyDown
    BY <1>1, FitReports DEF HotkeyDown, TryDictate, Move, Settles
  <1>2. CASE HotkeyRejected
    BY <1>2, FitNotices DEF HotkeyRejected, Notices, modeMachineVars, SameMode, uiVars, Fits
  <1>3. CASE HotkeyUp
    BY <1>3, FitReports DEF HotkeyUp, FinishDictation, Move, Settles
  <1>4. CASE HotkeyEnqueues
    BY <1>4, FitSame
       DEF HotkeyEnqueues, QueueDictation, Move, DictationFrame, uiVars, SameMode
  <1>5. CASE HotkeyDiscards
    BY <1>5, FitReports DEF HotkeyDiscards, DiscardDictation, Move, Settles
  <1>6. CASE MicFails
    BY <1>6, FitSame DEF MicFails, modeMachineVars, DictationFrame, uiVars, SameMode
  <1>7. CASE MicCancels
    <2>1. CASE CancelDictation /\ Reports("mic", <<Status("Idle"), Status("Error")>>)
      <3> DEFINE q == <<Status("Idle"), Status("Error")>>
      <3>1. /\ q \in Seq(Notice) /\ Len(q) = 2
            /\ q[1].what = "Idle" /\ q[2].what = "Error"
        BY TwoStatuses
      <3>2. Reports("mic", q)
        BY <2>1
      <3> HIDE DEF q
      <3>3. Settles("Idle")' /\ Settles("Error")'
        BY <2>1 DEF CancelDictation, Move, Settles
      <3>4. \A i \in 1..Len(q) : Fits(q[i].what)'
        BY <3>1, <3>3 DEF Fits
      <3>5. \E i \in 1..Len(q) : Settles(q[i].what)'
        BY <3>1, <3>3
      <3> QED
        BY <3>1, <3>2, <3>4, <3>5, FitTransition
    <2>2. CASE Tells("mic", <<Status("Error")>>)
               /\ UNCHANGED <<modeMachineVars, raced, cancelled>>
      BY <1>7, <2>2, FitNotices
         DEF MicCancels, modeMachineVars, DictationFrame, uiVars, SameMode, Fits, Settles
    <2> QED
      BY <1>7, <2>1, <2>2 DEF MicCancels
  <1>8. ASSUME NEW b \in BOOLEAN, DictationResult(b) PROVE FitInv'
    BY <1>8, FitReports DEF DictationResult, TranscriptionDone, Move, Settles
  <1>9. ASSUME NEW b \in BOOLEAN, DictationLost(b) PROVE FitInv'
    <2>1. SameMode /\ UNCHANGED <<mainQueue, shown>>
      BY <1>9 DEF DictationLost, LoseDictation, Move, DictationFrame, uiVars, SameMode
    <2>2. CASE b
      BY <1>9, <2>1, <2>2, FitNotices DEF DictationLost, Fits, Settles
    <2>3. CASE ~b
      <3> DEFINE q == <<>>
      <3>1. Tells("worker", q) /\ q \in Seq(Notice) /\ Len(q) = 0
        BY <1>9, <2>3 DEF DictationLost
      <3> HIDE DEF q
      <3>2. \A i \in 1..Len(q) : Fits(q[i].what)
        BY <3>1
      <3> QED
        BY <2>1, <3>1, <3>2, FitTells
    <2> QED
      BY <2>2, <2>3
  <1> QED
    BY <1>1, <1>2, <1>3, <1>4, <1>5, <1>6, <1>7, <1>8, <1>9 DEF Dictation

\* Sessions.
LEMMA FitSession ==
  ASSUME UiTyped, UiTyped', PendingExpected', FitInv, Session
  PROVE  FitInv'
  <1> {"main", "hotkey", "mic", "worker", "tap", "device"} \subseteq Threads
    BY DEF Threads
  <1> Statuses = {"Idle", "Dictating", "Transcribing", "RecordingListening",
                  "RecordingCapturing", "Finalizing", "Beep", "Error"}
    BY DEF Statuses
  <1>1. CASE ClickStart
    BY <1>1, FitReports DEF ClickStart, TryRecord, Move, Settles
  <1>2. CASE SessionStarts
    BY <1>2, FitSame
       DEF SessionStarts, RecordingStarts, Move, SessionFrame, uiVars, SameMode
  <1>3. CASE SessionFails
    BY <1>3, FitReports DEF SessionFails, Settles
  <1>4. CASE ClickStop
    BY <1>4, FitReports DEF ClickStop, StopRecord, Move, Settles
  <1>5. CASE SessionArms
    BY <1>5, FitSame DEF SessionArms, ArmDone, Move, SessionFrame, uiVars, SameMode
  <1>6. CASE SessionDone
    BY <1>6, FitReports DEF SessionDone, FinalizeDone, Move, Settles
  <1>7. CASE TapNotices("RecordingListening") \/ TapNotices("RecordingCapturing")
    <2>1. Fits("RecordingListening") /\ Fits("RecordingCapturing")
      BY <1>7 DEF TapNotices, Fits, Settles
    <2> QED
      BY <1>7, <2>1, FitNotices DEF TapNotices, Notices, modeMachineVars, SameMode, uiVars
  <1>8. CASE WorkerNotices \/ DeviceNotices
    BY <1>8, FitNotices
       DEF WorkerNotices, DeviceNotices, Notices, modeMachineVars, SameMode, uiVars, Fits,
           Settles
  <1> QED
    BY <1>1, <1>2, <1>3, <1>4, <1>5, <1>6, <1>7, <1>8 DEF Session

\* What the menu shows, with what the threads have to report and the texts.
MenuInv == HistoryInv /\ PendingExpected /\ FitInv

\* Every step.
LEMMA MenuStep ==
  ASSUME MenuInv, [Next]_vars
  PROVE  MenuInv'
  <1>1. HistoryInv' /\ PendingExpected' /\ UiTyped /\ UiTyped'
    BY HistoryStep, ExpectedStep DEF MenuInv, HistoryInv
  <1>2. CASE Dictation \/ Session
    BY <1>1, <1>2, FitDictation, FitSession DEF MenuInv
  <1>3. ASSUME NEW t \in Threads, Emit(t) PROVE FitInv'
    BY <1>1, <1>3, FitEmit DEF MenuInv
  <1>4. CASE Handle
    BY <1>1, <1>4, FitHandle DEF MenuInv
  <1>5. CASE TimerFires
    <2>1. SavedOver \in Sent /\ Fits(SavedOver.what) /\ mainQueue' = Append(mainQueue, SavedOver)
      BY <1>5 DEF SavedOver, Sent, Fits, TimerFires, Send
    <2>2. SameMode /\ UNCHANGED <<shown, emitting>>
      BY <1>5 DEF TimerFires, MainFrame, modeMachineVars, uiVars, SameMode
    <2>3. (InQueue => InQueue') /\ (OnMenu => OnMenu')
      BY <1>1, <2>1, <2>2, FitAppended DEF SameMode
    <2>4. \A w : (Settles(w)' <=> Settles(w)) /\ (Fits(w)' <=> Fits(w))
      BY <2>2, FitsKept DEF SameMode
    <2>5. (PendingFits' <=> PendingFits) /\ (WithThread' <=> WithThread)
      BY <2>2, <2>4 DEF PendingFits, WithThread
    <2> QED
      BY <1>1, <2>2, <2>3, <2>5 DEF MenuInv, FitInv, Current, SameMode
  <1>6. CASE ToggleHistory \/ ClearHistory \/ UNCHANGED vars
    <2>1. SameMode /\ UNCHANGED <<mainQueue, shown, emitting>>
      BY <1>6, Zenon DEF ToggleHistory, ClearHistory, MainFrame, vars, modeMachineVars, uiVars,
                         SameMode
    <2> QED
      BY <1>1, <2>1, FitSame DEF MenuInv
  <1> QED
    BY <1>1, <1>2, <1>3, <1>4, <1>5, <1>6 DEF Next, Ui, MenuInv

\* To begin with the menu shows Idle.
LEMMA MenuInit == Init => MenuInv
  <1> SUFFICES ASSUME Init PROVE MenuInv
    OBVIOUS
  <1>1. \A t \in Threads : emitting[t] = <<>> /\ Len(emitting[t]) = 0
    BY DEF Init
  <1>2. PendingExpected /\ PendingFits
    BY <1>1 DEF PendingExpected, PendingFits
  <1>3. mainQueue = <<>> /\ Len(mainQueue) = 0
    BY DEF Init
  <1>4. Settles(shown)
    BY DEF Init, ModeMachineInit, Settles, Statuses
  <1>5. OnMenu
    BY <1>3, <1>4 DEF OnMenu
  <1> QED
    BY <1>2, <1>5, UiInitInv DEF MenuInv, FitInv

\* mode_machine.cpp:31, app_delegate.mm:1037: for any number of dictations, sessions and
\* reports of six threads on their way, the menu agrees with the mode once everything is
\* shown, unless the last transition was overtaken; and that the app is ready again is
\* never hidden, unless a press was given up for its microphone.
THEOREM MenuFollowsModeAlways == Spec => []MenuFollowsMode
  <1>1. MenuInv => MenuFollowsMode
    <2> SUFFICES ASSUME MenuInv, Quiet, shown # "Error", Current
                 PROVE  /\ StartEnabled <=> mode = "Idle"
                        /\ StopEnabled <=> mode = "Recording"
      BY DEF MenuFollowsMode, Current
    <2>1. Len(mainQueue) = 0 /\ \A t \in Threads : Len(emitting[t]) = 0
      BY DEF Quiet, Silent
    <2>2. OnMenu
      BY <2>1 DEF MenuInv, FitInv, WithThread, InQueue
    <2> QED
      BY <2>2 DEF OnMenu, Settles, StartEnabled, StopEnabled
  <1> QED
    BY <1>1, MenuInit, MenuStep, PTL DEF Spec

-----------------------------------------------------------------------------
(***************************************************************************)
(* Types.                                                                  *)
(***************************************************************************)

UiFlags ==
  /\ wasFinalizing \in BOOLEAN /\ historyOn \in BOOLEAN /\ micFailed \in BOOLEAN
  /\ stopping \in BOOLEAN

UiShows ==
  /\ shown \in Statuses \ {"Beep"}
  /\ display \in {"RecordingSaved"} \union (Statuses \ {"Beep"})
  /\ announced \in Nat /\ savedTimers \in 0..announced

UiModes ==
  owner \in Owners /\ raced \in {"no", "before", "now"} /\ presses <= MaxPresses

\* No thread has more than two things to tell.
ReportsAreFew == \A t \in Threads : Len(emitting[t]) <= 2

\* Nothing blank is remembered.
HistoryIsOfTexts == \A i \in 1..Len(history) : history[i] # 0

UiRest == UiFlags /\ UiShows /\ UiModes /\ ReportsAreFew /\ HistoryIsOfTexts

\* The flags.
LEMMA UiFlagsStep ==
  ASSUME UiRest, [Next]_vars
  PROVE  UiFlags'
  <1> USE DEF UiRest, UiFlags
  <1>1. CASE UNCHANGED vars
    BY <1>1, Zenon DEF vars, uiVars, historyVars, modeMachineVars
  <1>2. UNCHANGED <<wasFinalizing, historyOn, micFailed, stopping>> => UiFlags'
    OBVIOUS
  <1>3. CASE Dictation
    <2>1. UNCHANGED <<wasFinalizing, historyOn, stopping>>
      BY <1>3 DEF Dictation, HotkeyDown, HotkeyRejected, HotkeyUp, HotkeyEnqueues,
                  HotkeyDiscards, MicFails, MicCancels, DictationResult, DictationLost,
                  Notices, DictationFrame, uiVars, historyVars, modeMachineVars, Move,
                  TryDictate, CancelDictation, FinishDictation, QueueDictation,
                  DiscardDictation, TranscriptionDone, LoseDictation
    <2>2. UNCHANGED micFailed \/ micFailed' = TRUE \/ micFailed' = FALSE
      BY <1>3, Zenon DEF Dictation, HotkeyDown, HotkeyRejected, HotkeyUp, HotkeyEnqueues,
                  HotkeyDiscards, MicFails, MicCancels, DictationResult, DictationLost,
                  Notices
    <2> QED
      BY <2>1, <2>2, Zenon
  <1>4. CASE Session
    <2>1. UNCHANGED <<wasFinalizing, historyOn, micFailed, stopping>>
      BY <1>4 DEF Session, ClickStart, SessionStarts, SessionFails, ClickStop, SessionArms,
                  SessionDone, TapNotices, WorkerNotices, DeviceNotices, Notices,
                  SessionFrame, uiVars, historyVars, modeMachineVars, Move, TryRecord,
                  RecordingStarts, RecordingFails, StopRecord, ArmDone, FinalizeDone
    <2> QED
      BY <1>2, <2>1
  <1>5. ASSUME NEW t \in Threads, Emit(t) PROVE UiFlags'
    BY <1>5, Zenon DEF Emit, uiVars, historyVars, modeMachineVars
  <1>6. CASE Ui
    <2>1. UNCHANGED <<micFailed, stopping>>
      BY <1>6 DEF Ui, Handle, TimerFires, ToggleHistory, ClearHistory, MainFrame,
                  modeMachineVars
    <2>2. wasFinalizing' \in BOOLEAN
      BY <1>6, Zenon DEF Ui, Handle, Show, Remember, TimerFires, ToggleHistory,
                         ClearHistory, uiVars
    <2>3. historyOn' \in BOOLEAN
      BY <1>6, Zenon DEF Ui, Handle, TimerFires, ToggleHistory, ClearHistory, historyVars
    <2> QED
      BY <2>1, <2>2, <2>3, Zenon
  <1> QED
    BY <1>1, <1>3, <1>4, <1>5, <1>6 DEF Next

\* What is shown: only main's handler changes it, and the timer what will be taken back.
LEMMA UiShowsStep ==
  ASSUME UiRest, [Next]_vars
  PROVE  UiShows'
  <1> USE DEF UiRest, UiShows
  <1>1. UNCHANGED <<shown, display, announced, savedTimers>> => UiShows'
    OBVIOUS
  <1>2. CASE Dictation \/ UNCHANGED vars
    <2>1. UNCHANGED <<shown, display, announced, savedTimers>>
      BY <1>2 DEF Dictation, HotkeyDown, HotkeyRejected, HotkeyUp, HotkeyEnqueues,
                  HotkeyDiscards, MicFails, MicCancels, DictationResult, DictationLost,
                  Notices, DictationFrame, uiVars, vars
    <2> QED
      BY <1>1, <2>1
  <1>3. CASE Session
    <2>1. UNCHANGED <<shown, display, announced, savedTimers>>
      BY <1>3 DEF Session, ClickStart, SessionStarts, SessionFails, ClickStop, SessionArms,
                  SessionDone, TapNotices, WorkerNotices, DeviceNotices, Notices,
                  SessionFrame, uiVars
    <2> QED
      BY <1>1, <2>1
  <1>4. CASE (\E t \in Threads : Emit(t)) \/ ToggleHistory \/ ClearHistory
    BY <1>4 DEF Emit, ToggleHistory, ClearHistory, uiVars
  <1>5. CASE TimerFires
    BY <1>5 DEF TimerFires, uiVars
  <1>6. CASE Handle
    <2>1. ASSUME NEW w, Show(w) PROVE UiShows'
      BY <2>1 DEF Show
    <2>2. ASSUME NEW n, Remember(n) PROVE UiShows'
      BY <2>2 DEF Remember, uiVars
    <2>3. CASE /\ display' = "Idle"
               /\ UNCHANGED <<shown, wasFinalizing, announced, savedTimers, history>>
      BY <2>3 DEF Statuses
    <2>4. CASE UNCHANGED <<uiVars, savedTimers, history>>
      BY <2>4 DEF uiVars
    <2> QED
      BY <1>6, <2>1, <2>2, <2>3, <2>4 DEF Handle
  <1> QED
    BY <1>2, <1>3, <1>4, <1>5, <1>6 DEF Next, Ui

\* Whose the mode is, and the presses.
LEMMA UiModesStep ==
  ASSUME UiTyped, UiRest, [Next]_vars
  PROVE  UiModes'
  <1> USE DEF UiRest, UiModes
  <1>1. \A t, statuses : Reports(t, statuses) => raced' \in {"no", "before", "now"}
    BY DEF Reports
  <1>2. CASE Dictation
    BY <1>1, <1>2, UiAssumption
             DEF Dictation, HotkeyDown, HotkeyRejected, HotkeyUp, HotkeyEnqueues,
                 HotkeyDiscards, MicFails, MicCancels, DictationResult, DictationLost,
                 Notices, modeMachineVars, Move, TryDictate, CancelDictation,
                 FinishDictation, QueueDictation, DiscardDictation, TranscriptionDone,
                 LoseDictation, Owners, UiTyped
  <1>3. CASE Session
    BY <1>1, <1>3
             DEF Session, ClickStart, SessionStarts, SessionFails, ClickStop, SessionArms,
                 SessionDone, TapNotices, WorkerNotices, DeviceNotices, Notices,
                 SessionFrame, modeMachineVars, Move, TryRecord, RecordingStarts,
                 RecordingFails, StopRecord, ArmDone, FinalizeDone, Owners
  <1>4. CASE (\E t \in Threads : Emit(t)) \/ Ui \/ UNCHANGED vars
    BY <1>4 DEF Emit, Ui, Handle, TimerFires, ToggleHistory, ClearHistory, MainFrame, vars,
                modeMachineVars, counts
  <1> QED
    BY <1>2, <1>3, <1>4 DEF Next

\* A thread tells at most two things, when it has told all before.
LEMMA FewTells ==
  ASSUME UiTyped, ReportsAreFew, NEW t \in Threads, NEW q \in Seq(Notice), Len(q) <= 2,
         Tells(t, q)
  PROVE  ReportsAreFew'
  BY DEF Tells, UiTyped, ReportsAreFew

\* Every step.
LEMMA ReportsAreFewStep ==
  ASSUME UiTyped, UiRest, [Next]_vars
  PROVE  ReportsAreFew'
  <1> ReportsAreFew
    BY DEF UiRest
  <1>2. \A t \in Threads, s \in Statuses : Tells(t, <<Status(s)>>) => ReportsAreFew'
    <2> TAKE t \in Threads, s \in Statuses
    <2> DEFINE q == <<Status(s)>>
    <2>1. q \in Seq(Notice) /\ Len(q) <= 2
      BY OneStatus
    <2> HIDE DEF q
    <2>2. ASSUME Tells(t, q) PROVE ReportsAreFew'
      BY FewTells, <2>1, <2>2
    <2> QED
      BY <2>2 DEF q
  <1>3. Tells("mic", <<Status("Idle"), Status("Error")>>) => ReportsAreFew'
    <2> DEFINE q == <<Status("Idle"), Status("Error")>>
    <2>1. q \in Seq(Notice) /\ Len(q) <= 2 /\ "mic" \in Threads
      BY TwoStatuses DEF Statuses, Threads
    <2> HIDE DEF q
    <2>2. ASSUME Tells("mic", q) PROVE ReportsAreFew'
      BY FewTells, <2>1, <2>2
    <2> QED
      BY <2>2 DEF q
  <1>4. Tells("worker", <<>>) => ReportsAreFew'
    <2> DEFINE q == <<>>
    <2>1. q \in Seq(Notice) /\ Len(q) <= 2 /\ "worker" \in Threads
      BY DEF Threads
    <2> HIDE DEF q
    <2>2. ASSUME Tells("worker", q) PROVE ReportsAreFew'
      BY FewTells, <2>1, <2>2
    <2> QED
      BY <2>2 DEF q
  <1>5. \A t \in Threads, s \in Statuses : Reports(t, <<Status(s)>>) => ReportsAreFew'
    BY <1>2 DEF Reports
  <1>6. {"main", "hotkey", "mic", "worker", "tap", "device"} \subseteq Threads
    BY DEF Threads
  <1>7. {"Idle", "Dictating", "Transcribing", "RecordingListening", "RecordingCapturing",
         "Finalizing", "Beep", "Error"} \subseteq Statuses
    BY DEF Statuses
  <1>8. UNCHANGED emitting => ReportsAreFew'
    BY DEF ReportsAreFew
  <1>9. CASE Dictation
    <2>1. CASE MicCancels
      BY <1>2, <1>3, <1>6, <1>7, <2>1, Zenon DEF MicCancels, Reports
    <2>2. CASE \E b \in BOOLEAN : DictationLost(b)
      BY <1>2, <1>4, <1>6, <1>7, <2>2 DEF DictationLost
    <2>3. CASE HotkeyEnqueues \/ MicFails
      BY <1>8, <2>3 DEF HotkeyEnqueues, MicFails
    <2>4. CASE HotkeyRejected
      BY <1>2, <1>6, <1>7, <2>4 DEF HotkeyRejected, Notices
    <2>5. CASE HotkeyDown \/ HotkeyUp \/ HotkeyDiscards
               \/ \E b \in BOOLEAN : DictationResult(b)
      BY <1>5, <1>6, <1>7, <2>5 DEF HotkeyDown, HotkeyUp, HotkeyDiscards, DictationResult
    <2> QED
      BY <1>9, <2>1, <2>2, <2>3, <2>4, <2>5 DEF Dictation
  <1>10. CASE Session
    <2>1. CASE SessionStarts \/ SessionArms
      BY <1>8, <2>1 DEF SessionStarts, SessionArms
    <2>2. CASE ClickStart \/ SessionFails \/ ClickStop \/ SessionDone
      BY <1>5, <1>6, <1>7, <2>2 DEF ClickStart, SessionFails, ClickStop, SessionDone
    <2>3. CASE \/ TapNotices("RecordingListening") \/ TapNotices("RecordingCapturing")
               \/ WorkerNotices \/ DeviceNotices
      BY <1>2, <1>6, <1>7, <2>3 DEF TapNotices, WorkerNotices, DeviceNotices, Notices
    <2> QED
      BY <1>10, <2>1, <2>2, <2>3 DEF Session
  <1>11. ASSUME NEW t \in Threads, Emit(t) PROVE ReportsAreFew'
    <2>1. \A u \in Threads : Len(emitting'[u]) <= 2
      <3> TAKE u \in Threads
      <3>1. CASE u = t
        BY <1>11, <3>1, Emitted DEF ReportsAreFew
      <3>2. CASE u # t
        BY <1>11, <3>2, Emitted DEF ReportsAreFew
      <3> QED
        BY <3>1, <3>2
    <2> QED
      BY <2>1 DEF ReportsAreFew
  <1>12. CASE Ui \/ UNCHANGED vars
    BY <1>8, <1>12 DEF Ui, Handle, TimerFires, ToggleHistory, ClearHistory, MainFrame, vars
  <1> QED
    BY <1>9, <1>10, <1>11, <1>12 DEF Next

\* What is remembered is a text.
LEMMA HistoryIsOfTextsStep ==
  ASSUME HistoryInv, UiRest, [Next]_vars
  PROVE  HistoryIsOfTexts'
  <1> USE DEF UiRest, HistoryIsOfTexts
  <1>1. UNCHANGED history => HistoryIsOfTexts'
    OBVIOUS
  <1>2. history' = <<>> => HistoryIsOfTexts'
    <2>1. history' = <<>> => Len(history') = 0
      OBVIOUS
    <2> QED
      BY <2>1
  <1>3. CASE Dictation \/ Session
    <2>1. UNCHANGED history
      BY <1>3 DEF Dictation, HotkeyDown, HotkeyRejected, HotkeyUp, HotkeyEnqueues,
                  HotkeyDiscards, MicFails, MicCancels, DictationResult, DictationLost,
                  Session, ClickStart, SessionStarts, SessionFails, ClickStop, SessionArms,
                  SessionDone, TapNotices, WorkerNotices, DeviceNotices, Notices,
                  SessionFrame, DictationFrame, historyVars
    <2> QED
      BY <1>1, <2>1
  <1>4. CASE (\E t \in Threads : Emit(t)) \/ TimerFires \/ UNCHANGED vars
    <2>1. UNCHANGED history
      BY <1>4 DEF Emit, TimerFires, historyVars, vars
    <2> QED
      BY <1>1, <2>1
  <1>5. CASE ToggleHistory \/ ClearHistory
    <2>1. history' = history \/ history' = <<>>
      BY <1>5 DEF ToggleHistory, ClearHistory
    <2> QED
      BY <1>1, <1>2, <2>1
  <1>6. CASE Handle
    <2>1. ASSUME NEW w, Show(w) PROVE HistoryIsOfTexts'
      BY <1>1, <2>1 DEF Show
    <2>2. CASE Remember(Head(mainQueue).text)
      <3> DEFINE n == Head(mainQueue).text
      <3>1. n \in Nat /\ history \in Seq(Nat)
        <4>1. mainQueue \in Seq(Sent) /\ mainQueue # <<>>
          BY <1>6 DEF Handle, HistoryInv, UiTyped
        <4>2. Head(mainQueue) \in Sent
          BY <4>1
        <4> QED
          BY <4>2 DEF Sent, HistoryInv, UiTyped
      <3>2. CASE history' = history
        BY <1>1, <3>2
      <3>3. CASE history' # history
        <4>1. /\ n # 0
              /\ history' = SubSeq(<<n>> \o history, 1,
                              IF Len(history) < HistoryLimit THEN Len(history) + 1
                                                            ELSE HistoryLimit)
          BY <2>2, <3>3 DEF Remember, BlankText
        <4> HIDE DEF n
        <4>2. \A i \in 1..Len(history') :
                \/ i = 1 /\ history'[i] = n
                \/ /\ i > 1 /\ i - 1 \in 1..Len(history)
                   /\ history'[i] = history[i - 1]
          BY <3>1, <4>1, Remembered
        <4> QED
          BY <4>1, <4>2
      <3> QED
        BY <3>2, <3>3
    <2> QED
      BY <1>1, <1>6, <2>1, <2>2 DEF Handle
  <1> QED
    BY <1>3, <1>4, <1>5, <1>6 DEF Next, Ui

\* Every step.
LEMMA UiRestStep ==
  ASSUME HistoryInv, UiRest, [Next]_vars
  PROVE  UiRest'
  <1>1. UiTyped
    BY DEF HistoryInv
  <1> QED
    BY <1>1, UiFlagsStep, UiShowsStep, UiModesStep, ReportsAreFewStep, HistoryIsOfTextsStep
       DEF UiRest

\* To begin with nothing is told, shown or remembered.
LEMMA UiRestInit == Init => UiRest
  <1> SUFFICES ASSUME Init PROVE UiRest
    OBVIOUS
  <1>1. UiFlags
    BY Zenon DEF Init, ModeMachineInit, UiFlags
  <1>2. UiShows
    BY DEF Init, UiShows, Statuses
  <1>3. UiModes
    BY UiAssumption DEF Init, ModeMachineInit, UiModes, Owners
  <1>4. ReportsAreFew
    <2>1. \A t \in Threads : emitting[t] = <<>> /\ Len(emitting[t]) = 0
      BY DEF Init
    <2> QED
      BY <2>1 DEF ReportsAreFew
  <1>5. HistoryIsOfTexts
    <2>1. history = <<>> /\ Len(history) = 0
      BY DEF Init
    <2> QED
      BY <2>1 DEF HistoryIsOfTexts
  <1> QED
    BY <1>1, <1>2, <1>3, <1>4, <1>5 DEF UiRest

\* A sequence whose elements are all in a set.
LEMMA SequenceOver ==
  ASSUME NEW T, NEW q \in Seq(T), NEW S, \A i \in 1..Len(q) : q[i] \in S
  PROVE  q \in Seq(S)
  OBVIOUS

\* Together they are the types.
LEMMA UiIsTyped ==
  ASSUME HistoryInv, UiRest
  PROVE  TypeOK
  <1> USE DEF HistoryInv, UiTyped, UiRest
  <1>1. presses \in 0..MaxPresses
    BY UiAssumption DEF UiModes
  <1>2. ModeMachineTypeOK
    BY Zenon DEF ModeMachineTypeOK, UiFlags, UiModes
  <1>3. DOMAIN emitting = Threads
    OBVIOUS
  <1>4. \A t \in Threads : emitting[t] \in Seq(Message) /\ Len(emitting[t]) <= 2
    <2> TAKE t \in Threads
    <2>1. emitting[t] \in Seq(Notice) /\ Len(emitting[t]) <= 2
      BY DEF ReportsAreFew
    <2>2. Notice \subseteq Message
      BY UiAssumption DEF Notice, Message
    <2> QED
      BY <2>1, <2>2
  <1>5. mainQueue \in Seq(Message)
    <2>1. \A k \in 1..Len(mainQueue) : mainQueue[k] \in Message
      <3> TAKE k \in 1..Len(mainQueue)
      <3>1. mainQueue[k] \in Sent
        OBVIOUS
      <3>2. mainQueue[k].text \in Nat /\ OfEarlierPress(mainQueue[k].text)
        BY QueuedText
      <3>3. mainQueue[k].text \in 0..MaxPresses
        BY <1>1, <3>2, UiAssumption DEF OfEarlierPress
      <3> QED
        BY <3>1, <3>3 DEF Sent, Message
    <2> QED
      BY <2>1, SequenceOver
  <1>6. history \in Seq(1..MaxPresses)
    <2>1. \A i \in 1..Len(history) : history[i] \in 1..MaxPresses
      <3> TAKE i \in 1..Len(history)
      <3>1. history[i] \in Nat
        OBVIOUS
      <3>2. OfEarlierPress(history[i]) /\ history[i] # 0
        BY DEF HistoryIsOlder, HistoryIsOfTexts
      <3> QED
        BY <1>1, <3>1, <3>2, UiAssumption DEF OfEarlierPress
    <2> QED
      BY <2>1, SequenceOver
  <1>7. wasFinalizing \in BOOLEAN /\ historyOn \in BOOLEAN /\ micFailed \in BOOLEAN
    BY Zenon DEF UiFlags
  <1>8. /\ shown \in Statuses \ {"Beep"}
        /\ display \in {"RecordingSaved"} \union (Statuses \ {"Beep"})
        /\ savedTimers \in 0..announced
    BY Zenon DEF UiShows
  <1>9. raced \in {"no", "before", "now"}
    BY DEF UiModes
  <1>10. owed \subseteq 1..MaxPresses
    BY <1>1, UiAssumption DEF OwedTyped
  <1> QED
    BY <1>2, <1>3, <1>4, <1>5, <1>6, <1>7, <1>8, <1>9, <1>10, Zenon DEF TypeOK

\* For any bounds: the state is well typed, no thread is ever behind by more than two
\* reports, and no more saved notifications are taken back than were posted.
THEOREM UiTypedAlways == Spec => []TypeOK
  <1>1. HistoryInv /\ UiRest /\ [Next]_vars => UiRest'
    BY UiRestStep
  <1>2. HistoryInv /\ UiRest => TypeOK
    BY UiIsTyped
  <1> QED
    BY <1>1, <1>2, UiRestInit, HistoryInvariant, PTL DEF Spec

-----------------------------------------------------------------------------
(***************************************************************************)
(* The announcements.                                                      *)
(***************************************************************************)

\* What showing a status does to _wasFinalizing, as a number, and to the count of
\* announcements.
FlagAfter(w, s)     == IF s = "Finalizing" THEN 1 ELSE IF s = "Idle" THEN 0 ELSE w
CountAfter(w, a, s) == IF s = "Idle" THEN a + w ELSE a

Flag(b) == IF b THEN 1 ELSE 0

\* The flag w and the count a while the messages q are handled.
Foreseen(w, a, q) ==
  /\ w \in [0..Len(q) -> {0, 1}] /\ a \in [0..Len(q) -> Nat]
  /\ \A k \in 1..Len(q) : /\ w[k] = FlagAfter(w[k - 1], q[k].what)
                          /\ a[k] = CountAfter(w[k - 1], a[k - 1], q[k].what)

\* From w0 and a0 they get to w1 and a1.
Outcome(q, w0, a0, w1, a1) ==
  \E w, a : /\ Foreseen(w, a, q)
            /\ w[0] = w0 /\ a[0] = a0
            /\ w[Len(q)] = w1 /\ a[Len(q)] = a1

\* Without messages nothing changes.
LEMMA OutcomeOfNone ==
  ASSUME NEW q, q = <<>>
  PROVE  /\ \A w0 \in {0, 1}, a0 \in Nat : Outcome(q, w0, a0, w0, a0)
         /\ \A w0, a0, w1, a1 : Outcome(q, w0, a0, w1, a1) => w1 = w0 /\ a1 = a0
  <1>1. Len(q) = 0
    OBVIOUS
  <1>2. ASSUME NEW w0 \in {0, 1}, NEW a0 \in Nat
        PROVE  Outcome(q, w0, a0, w0, a0)
    <2> DEFINE w == [k \in 0..0 |-> w0]
               a == [k \in 0..0 |-> a0]
    <2>1. Foreseen(w, a, q) /\ w[0] = w0 /\ a[0] = a0
      BY <1>1 DEF Foreseen
    <2> HIDE DEF w, a
    <2> QED
      BY <1>1, <2>1 DEF Outcome
  <1>3. \A w0, a0, w1, a1 : Outcome(q, w0, a0, w1, a1) => w1 = w0 /\ a1 = a0
    BY <1>1 DEF Outcome
  <1> QED
    BY <1>2, <1>3

\* A message at the end is handled last.
LEMMA OutcomeOfMore ==
  ASSUME NEW q \in Seq(Sent), NEW m \in Sent, NEW w0, NEW a0, NEW w1, NEW a1,
         Outcome(q, w0, a0, w1, a1)
  PROVE  Outcome(Append(q, m), w0, a0, FlagAfter(w1, m.what), CountAfter(w1, a1, m.what))
  <1> DEFINE r == Append(q, m)
             n == Len(q)
  <1>1. /\ n \in Nat /\ Len(r) = n + 1 /\ r[n + 1] = m
        /\ \A k \in 1..n : r[k] = q[k]
    OBVIOUS
  <1>2. PICK w, a : /\ Foreseen(w, a, q) /\ w[0] = w0 /\ a[0] = a0
                    /\ w[n] = w1 /\ a[n] = a1
    BY DEF Outcome
  <1>3. /\ w \in [0..n -> {0, 1}] /\ a \in [0..n -> Nat]
        /\ \A k \in 1..n : /\ w[k] = FlagAfter(w[k - 1], q[k].what)
                           /\ a[k] = CountAfter(w[k - 1], a[k - 1], q[k].what)
    BY <1>2 DEF Foreseen
  <1> HIDE DEF r, n
  <1> DEFINE w2 == FlagAfter(w1, m.what)
             a2 == CountAfter(w1, a1, m.what)
             v  == [k \in 0..n + 1 |-> IF k <= n THEN w[k] ELSE w2]
             b  == [k \in 0..n + 1 |-> IF k <= n THEN a[k] ELSE a2]
  <1>4. w1 \in {0, 1} /\ a1 \in Nat
    BY <1>1, <1>2, <1>3
  <1>5. w2 \in {0, 1} /\ a2 \in Nat
    BY <1>4 DEF FlagAfter, CountAfter
  <1> HIDE DEF w2, a2
  <1>6. /\ v \in [0..n + 1 -> {0, 1}] /\ b \in [0..n + 1 -> Nat]
        /\ \A k \in 0..n : v[k] = w[k] /\ b[k] = a[k]
        /\ v[n + 1] = w2 /\ b[n + 1] = a2
    BY <1>1, <1>3, <1>5
  <1> HIDE DEF v, b
  <1>7. ASSUME NEW k \in 1..n + 1
        PROVE  /\ v[k] = FlagAfter(v[k - 1], r[k].what)
               /\ b[k] = CountAfter(v[k - 1], b[k - 1], r[k].what)
    <2>1. k - 1 \in 0..n
      BY <1>1
    <2>2. CASE k \in 1..n
      <3>1. k \in 0..n
        BY <2>2
      <3> QED
        BY <1>1, <1>3, <1>6, <2>1, <2>2, <3>1
    <2>3. CASE k = n + 1
      <3>1. (n + 1) - 1 = n /\ n \in 0..n
        BY <1>1
      <3> QED
        BY <1>1, <1>2, <1>6, <2>3, <3>1 DEF w2, a2
    <2> QED
      BY <1>1, <2>2, <2>3
  <1>8. Foreseen(v, b, r)
    BY <1>1, <1>6, <1>7 DEF Foreseen
  <1>9. v[0] = w0 /\ b[0] = a0 /\ v[Len(r)] = w2 /\ b[Len(r)] = a2
    BY <1>1, <1>2, <1>6
  <1>10. Outcome(r, w0, a0, w2, a2)
    BY <1>8, <1>9 DEF Outcome
  <1> QED
    BY <1>10 DEF r, w2, a2

\* The first message is handled first.
LEMMA OutcomeOfRest ==
  ASSUME NEW q \in Seq(Sent), q # <<>>, NEW w0, NEW a0, NEW w1, NEW a1,
         Outcome(q, w0, a0, w1, a1)
  PROVE  Outcome(Tail(q), FlagAfter(w0, q[1].what), CountAfter(w0, a0, q[1].what), w1, a1)
  <1> DEFINE r == Tail(q)
             n == Len(q)
  <1>1. /\ n \in Nat \ {0} /\ Len(r) = n - 1
        /\ \A k \in 1..n - 1 : r[k] = q[k + 1]
    OBVIOUS
  <1>2. PICK w, a : /\ Foreseen(w, a, q) /\ w[0] = w0 /\ a[0] = a0
                    /\ w[n] = w1 /\ a[n] = a1
    BY DEF Outcome
  <1>3. /\ w \in [0..n -> {0, 1}] /\ a \in [0..n -> Nat]
        /\ \A k \in 1..n : /\ w[k] = FlagAfter(w[k - 1], q[k].what)
                           /\ a[k] = CountAfter(w[k - 1], a[k - 1], q[k].what)
    BY <1>2 DEF Foreseen
  <1> HIDE DEF r, n
  <1> DEFINE v == [k \in 0..n - 1 |-> w[k + 1]]
             b == [k \in 0..n - 1 |-> a[k + 1]]
  <1>4. /\ v \in [0..n - 1 -> {0, 1}] /\ b \in [0..n - 1 -> Nat]
        /\ \A k \in 0..n - 1 : v[k] = w[k + 1] /\ b[k] = a[k + 1]
    BY <1>1, <1>3
  <1> HIDE DEF v, b
  <1>5. ASSUME NEW k \in 1..n - 1
        PROVE  /\ v[k] = FlagAfter(v[k - 1], r[k].what)
               /\ b[k] = CountAfter(v[k - 1], b[k - 1], r[k].what)
    <2>1. /\ k \in 0..n - 1 /\ k - 1 \in 0..n - 1 /\ k + 1 \in 1..n
          /\ (k - 1) + 1 = k /\ (k + 1) - 1 = k
      BY <1>1
    <2>2. v[k] = w[k + 1] /\ v[k - 1] = w[k] /\ b[k] = a[k + 1] /\ b[k - 1] = a[k]
      BY <1>4, <2>1
    <2>3. r[k] = q[k + 1]
      BY <1>1
    <2>4. /\ w[k + 1] = FlagAfter(w[(k + 1) - 1], q[k + 1].what)
          /\ a[k + 1] = CountAfter(w[(k + 1) - 1], a[(k + 1) - 1], q[k + 1].what)
      BY <1>3, <2>1
    <2> QED
      BY <2>1, <2>2, <2>3, <2>4
  <1>6. Foreseen(v, b, r)
    BY <1>1, <1>4, <1>5 DEF Foreseen
  <1>7. /\ v[0] = FlagAfter(w0, q[1].what) /\ b[0] = CountAfter(w0, a0, q[1].what)
        /\ v[Len(r)] = w1 /\ b[Len(r)] = a1
    <2>1. 0 \in 0..n - 1 /\ n - 1 \in 0..n - 1 /\ (n - 1) + 1 = n /\ 1 \in 1..n
          /\ 1 - 1 = 0 /\ 0 + 1 = 1
      BY <1>1
    <2> QED
      BY <1>1, <1>2, <1>3, <1>4, <2>1
  <1>8. Outcome(r, FlagAfter(w0, q[1].what), CountAfter(w0, a0, q[1].what), w1, a1)
    BY <1>6, <1>7 DEF Outcome
  <1> QED
    BY <1>8 DEF r

\* Thread t has s to tell.
ToTell(t, s) == \E i \in 1..Len(emitting[t]) : emitting[t][i].what = s

\* A session that is over has been announced, will be when its Idle is shown, or
\* has still to tell that it is being finalized.
Balance(w, a) ==
  /\ a + w + Flag(ToTell("main", "Finalizing")) = finalized + Flag(mode = "Finalizing")
  /\ w = 1 => mode = "Finalizing" \/ ToTell("worker", "Idle")
  /\ ToTell("main", "Finalizing") => w = 0

\* What SavedIsAnnounced is about: no report was overtaken, or there is one session.
Tame == raced = "no" \/ sessions <= 1

Foretold ==
  \E w \in {0, 1}, a \in Nat :
    Outcome(mainQueue, Flag(wasFinalizing), announced, w, a) /\ Balance(w, a)

\* No more sessions are over than were begun.
CountsInv ==
  /\ finalized \in Nat /\ sessions \in Nat
  /\ finalized + Flag(mode \in {"Recording", "Finalizing"}) <= sessions
  /\ Len(emitting["main"]) <= 1

AnnounceInv == CountsInv /\ (Tame => Foretold)

\* What a thread tells is all that it has to tell.
LEMMA ToTellTells ==
  ASSUME UiTyped, NEW t \in Threads, NEW q \in Seq(Notice), Tells(t, q)
  PROVE  /\ \A s : ~ToTell(t, s)
         /\ \A s : ToTell(t, s)' <=> \E i \in 1..Len(q) : q[i].what = s
         /\ \A u \in Threads \ {t} : \A s : ToTell(u, s)' <=> ToTell(u, s)
         /\ Len(emitting'[t]) = Len(q)
  <1>1. emitting'[t] = q /\ \A u \in Threads \ {t} : emitting'[u] = emitting[u]
    BY DEF Tells, UiTyped
  <1>2. Len(emitting[t]) = 0
    BY DEF Tells, Silent
  <1> QED
    BY <1>1, <1>2 DEF ToTell

\* One status.
LEMMA ToTellOne ==
  ASSUME UiTyped, NEW t \in Threads, NEW s \in Statuses, Tells(t, <<Status(s)>>)
  PROVE  /\ \A r : ~ToTell(t, r)
         /\ \A r : ToTell(t, r)' <=> r = s
         /\ \A u \in Threads \ {t} : \A r : ToTell(u, r)' <=> ToTell(u, r)
         /\ Len(emitting'[t]) = 1
  <1> DEFINE q == <<Status(s)>>
  <1>1. q \in Seq(Notice) /\ Len(q) = 1 /\ q[1].what = s
    BY OneStatus
  <1>2. Tells(t, q)
    OBVIOUS
  <1> HIDE DEF q
  <1>3. \A r : (\E i \in 1..Len(q) : q[i].what = r) <=> r = s
    BY <1>1
  <1> QED
    BY <1>1, <1>2, <1>3, ToTellTells

\* A step that has nothing to do with the announcements.
LEMMA ForetoldKept ==
  ASSUME UiTyped, AnnounceInv, Tame' => Tame,
         UNCHANGED <<wasFinalizing, announced, finalized>>,
         mode' = "Finalizing" <=> mode = "Finalizing",
         ToTell("main", "Finalizing")' <=> ToTell("main", "Finalizing"),
         ToTell("worker", "Idle") => ToTell("worker", "Idle")',
         \/ UNCHANGED mainQueue
         \/ \E m \in Sent : /\ mainQueue' = Append(mainQueue, m)
                            /\ m.what \in {"Text", "SavedOver"}
  PROVE  Tame' => Foretold'
  <1> SUFFICES ASSUME Tame' PROVE Foretold'
    OBVIOUS
  <1>1. PICK w \in {0, 1}, a \in Nat :
          Outcome(mainQueue, Flag(wasFinalizing), announced, w, a) /\ Balance(w, a)
    BY DEF AnnounceInv, Foretold
  <1>2. Balance(w, a)'
    BY <1>1, Zenon DEF Balance, Flag
  <1>3. Flag(wasFinalizing)' = Flag(wasFinalizing) /\ announced' = announced
    BY DEF Flag
  <1>4. Outcome(mainQueue', Flag(wasFinalizing), announced, w, a)
    <2>1. CASE UNCHANGED mainQueue
      BY <1>1, <2>1
    <2>2. CASE \E m \in Sent : /\ mainQueue' = Append(mainQueue, m)
                               /\ m.what \in {"Text", "SavedOver"}
      <3>1. PICK m \in Sent : /\ mainQueue' = Append(mainQueue, m)
                              /\ m.what \in {"Text", "SavedOver"}
        BY <2>2
      <3>2. FlagAfter(w, m.what) = w /\ CountAfter(w, a, m.what) = a
        BY <3>1 DEF FlagAfter, CountAfter
      <3>3. mainQueue \in Seq(Sent)
        BY DEF UiTyped
      <3> QED
        BY <1>1, <3>1, <3>2, <3>3, OutcomeOfMore
    <2> QED
      BY <2>1, <2>2
  <1> QED
    BY <1>2, <1>3, <1>4 DEF Foretold

\* The mode is a session's no more and no less than it was.
LEMMA CountsKept ==
  ASSUME CountsInv, UNCHANGED <<finalized, sessions>>,
         mode' \in {"Recording", "Finalizing"} => mode \in {"Recording", "Finalizing"},
         Len(emitting'["main"]) <= 1
  PROVE  CountsInv'
  <1>1. Flag(mode \in {"Recording", "Finalizing"})'
          <= Flag(mode \in {"Recording", "Finalizing"})
    BY DEF Flag
  <1>2. /\ Flag(mode \in {"Recording", "Finalizing"})' \in Nat
        /\ Flag(mode \in {"Recording", "Finalizing"}) \in Nat
    BY DEF Flag
  <1> QED
    BY <1>1, <1>2 DEF CountsInv

\* A thread other than main tells one status, and the mode is a session's no more
\* and no less than it was.
LEMMA AnnounceTells ==
  ASSUME UiTyped, AnnounceInv, Tame' => Tame,
         NEW t \in Threads \ {"main"}, NEW s \in Statuses, Tells(t, <<Status(s)>>),
         UNCHANGED <<wasFinalizing, announced, finalized, sessions>>,
         mode' = "Finalizing" <=> mode = "Finalizing",
         mode' = "Recording" <=> mode = "Recording",
         \/ UNCHANGED mainQueue
         \/ \E m \in Sent : /\ mainQueue' = Append(mainQueue, m)
                            /\ m.what \in {"Text", "SavedOver"}
  PROVE  AnnounceInv'
  <1>1. /\ \A r : ~ToTell(t, r)
        /\ \A u \in Threads \ {t} : \A r : ToTell(u, r)' <=> ToTell(u, r)
    BY ToTellOne
  <1>2. "main" \in Threads \ {t} /\ "worker" \in Threads
    BY DEF Threads
  <1>3. /\ ToTell("main", "Finalizing")' <=> ToTell("main", "Finalizing")
        /\ ToTell("worker", "Idle") => ToTell("worker", "Idle")'
    BY <1>1, <1>2
  <1>4. Tame' => Foretold'
    BY <1>3, ForetoldKept
  <1>5. emitting'["main"] = emitting["main"]
    BY <1>2 DEF Tells, UiTyped
  <1>6. CountsInv'
    BY <1>5, CountsKept DEF AnnounceInv, CountsInv
  <1> QED
    BY <1>4, <1>6 DEF AnnounceInv

\* Nobody tells anything.
LEMMA AnnounceSame ==
  ASSUME UiTyped, AnnounceInv, Tame' => Tame, UNCHANGED emitting,
         UNCHANGED <<wasFinalizing, announced, finalized, sessions>>,
         mode' = "Finalizing" <=> mode = "Finalizing",
         mode' = "Recording" <=> mode = "Recording",
         \/ UNCHANGED mainQueue
         \/ \E m \in Sent : /\ mainQueue' = Append(mainQueue, m)
                            /\ m.what \in {"Text", "SavedOver"}
  PROVE  AnnounceInv'
  <1>1. \A u, r : ToTell(u, r)' <=> ToTell(u, r)
    BY DEF ToTell
  <1>2. Tame' => Foretold'
    BY <1>1, ForetoldKept
  <1>3. CountsInv'
    BY CountsKept DEF AnnounceInv, CountsInv
  <1> QED
    BY <1>2, <1>3 DEF AnnounceInv

\* A report that is about a transition, or not.
LEMMA TameReports ==
  ASSUME NEW t, NEW q, Reports(t, q), sessions' \in Nat, sessions \in Nat,
         sessions <= sessions'
  PROVE  /\ Tame' => Tame
         /\ raced' = "no" => \A u \in Threads : Silent(u)
         /\ Tells(t, q)
  BY DEF Reports, Tame

\* Dictations.
LEMMA AnnounceDictation ==
  ASSUME UiTyped, AnnounceInv, Dictation
  PROVE  AnnounceInv'
  <1> {"hotkey", "mic", "worker"} \subseteq Threads \ {"main"}
    BY DEF Threads
  <1> {"Idle", "Dictating", "Transcribing", "Beep", "Error"} \subseteq Statuses
    BY DEF Statuses
  <1> sessions \in Nat
    BY DEF AnnounceInv, CountsInv
  <1>1. CASE HotkeyDown \/ HotkeyUp \/ HotkeyDiscards
    <2>1. /\ UNCHANGED <<wasFinalizing, announced, finalized, sessions, mainQueue>>
          /\ mode' = "Finalizing" <=> mode = "Finalizing"
          /\ mode' = "Recording" <=> mode = "Recording"
      BY <1>1 DEF HotkeyDown, HotkeyUp, HotkeyDiscards, TryDictate, FinishDictation,
                  DiscardDictation, Move, DictationFrame, uiVars
    <2>2. PICK s \in Statuses : Reports("hotkey", <<Status(s)>>)
      BY <1>1 DEF HotkeyDown, HotkeyUp, HotkeyDiscards
    <2>3. (Tame' => Tame) /\ Tells("hotkey", <<Status(s)>>)
      BY <2>1, <2>2, TameReports
    <2> QED
      BY <2>1, <2>3, AnnounceTells
  <1>2. CASE HotkeyRejected
    <2>1. UNCHANGED <<wasFinalizing, announced, finalized, sessions, mainQueue, mode, raced>>
      BY <1>2 DEF HotkeyRejected, Notices, modeMachineVars, uiVars
    <2>2. Tells("hotkey", <<Status("Beep")>>)
      BY <1>2 DEF HotkeyRejected, Notices
    <2>3. Tame' => Tame
      BY <2>1 DEF Tame
    <2> QED
      BY <2>1, <2>2, <2>3, AnnounceTells
  <1>3. CASE HotkeyEnqueues \/ MicFails
    <2>1. /\ UNCHANGED <<wasFinalizing, announced, finalized, sessions, mainQueue, raced,
                         emitting>>
          /\ mode' = mode
      BY <1>3 DEF HotkeyEnqueues, MicFails, QueueDictation, Move, DictationFrame, uiVars,
                  modeMachineVars
    <2>2. Tame' => Tame
      BY <2>1 DEF Tame
    <2> QED
      BY <2>1, <2>2, AnnounceSame
  <1>4. CASE MicCancels
    <2>1. UNCHANGED <<wasFinalizing, announced, finalized, sessions, mainQueue>>
      BY <1>4 DEF MicCancels, DictationFrame, uiVars
    <2>2. CASE CancelDictation /\ Reports("mic", <<Status("Idle"), Status("Error")>>)
      <3> DEFINE q == <<Status("Idle"), Status("Error")>>
      <3>1. /\ q \in Seq(Notice) /\ Len(q) = 2
            /\ q[1].what = "Idle" /\ q[2].what = "Error"
        BY TwoStatuses
      <3>2. (Tame' => Tame) /\ Tells("mic", q)
        BY <2>1, <2>2, TameReports
      <3> HIDE DEF q
      <3>3. \A u \in Threads \ {"mic"} : \A r : ToTell(u, r)' <=> ToTell(u, r)
        BY <3>1, <3>2, ToTellTells
      <3>4. {"main", "worker"} \subseteq Threads \ {"mic"}
        BY DEF Threads
      <3>5. /\ mode' = "Finalizing" <=> mode = "Finalizing"
            /\ mode' = "Recording" <=> mode = "Recording"
        BY <2>2 DEF CancelDictation, Move
      <3>6. Tame' => Foretold'
        BY <2>1, <3>2, <3>3, <3>4, <3>5, ForetoldKept
      <3>7. emitting'["main"] = emitting["main"]
        BY <3>2, <3>4 DEF Tells, UiTyped
      <3>8. CountsInv'
        BY <2>1, <3>5, <3>7, CountsKept DEF AnnounceInv, CountsInv
      <3> QED
        BY <3>6, <3>8 DEF AnnounceInv
    <2>3. CASE Tells("mic", <<Status("Error")>>) /\ UNCHANGED <<modeMachineVars, raced>>
      <3>1. (Tame' => Tame) /\ mode' = mode
        BY <2>1, <2>3 DEF Tame, modeMachineVars
      <3> QED
        BY <2>1, <2>3, <3>1, AnnounceTells
    <2> QED
      BY <1>4, <2>2, <2>3, Zenon DEF MicCancels
  <1>5. ASSUME NEW b \in BOOLEAN, DictationResult(b) PROVE AnnounceInv'
    <2> DEFINE m == Text(IF b THEN BlankText ELSE presses)
    <2>1. mainQueue' = Append(mainQueue, m)
      BY <1>5 DEF DictationResult, Send
    <2>2. m \in Sent /\ m.what = "Text"
      BY DEF Text, Sent, BlankText, UiTyped
    <2> HIDE DEF m
    <2>3. /\ UNCHANGED <<wasFinalizing, announced, finalized, sessions>>
          /\ mode' = "Finalizing" <=> mode = "Finalizing"
          /\ mode' = "Recording" <=> mode = "Recording"
      BY <1>5 DEF DictationResult, TranscriptionDone, Move, DictationFrame, uiVars
    <2>4. (Tame' => Tame) /\ Tells("worker", <<Status("Idle")>>)
      BY <1>5, <2>3, TameReports DEF DictationResult
    <2> QED
      BY <2>1, <2>2, <2>3, <2>4, AnnounceTells
  <1>6. ASSUME NEW b \in BOOLEAN, DictationLost(b) PROVE AnnounceInv'
    <2>1. /\ UNCHANGED <<wasFinalizing, announced, finalized, sessions, mainQueue, raced>>
          /\ mode' = mode
      BY <1>6 DEF DictationLost, LoseDictation, Move, DictationFrame, uiVars
    <2>2. Tame' => Tame
      BY <2>1 DEF Tame
    <2>3. CASE b
      <3>1. Tells("worker", <<Status("Error")>>)
        BY <1>6, <2>3 DEF DictationLost
      <3> QED
        BY <2>1, <2>2, <3>1, AnnounceTells
    <2>4. CASE ~b
      <3>1. UNCHANGED emitting
        <4>1. emitting' = [emitting EXCEPT !["worker"] = <<>>] /\ emitting["worker"] = <<>>
          BY <1>6, <2>4 DEF DictationLost, Tells, Silent
        <4>2. emitting \in [Threads -> Seq(Notice)]
          BY DEF UiTyped
        <4> QED
          BY <4>1, <4>2
      <3> QED
        BY <2>1, <2>2, <3>1, AnnounceSame
    <2> QED
      BY <2>3, <2>4
  <1> QED
    BY <1>1, <1>2, <1>3, <1>4, <1>5, <1>6 DEF Dictation

\* Sessions: what is to be announced begins with ClickStop, for which there is nothing
\* left from the session before, and is decided by SessionDone.
LEMMA AnnounceSession ==
  ASSUME UiTyped, PendingExpected, AnnounceInv, Session
  PROVE  AnnounceInv'
  <1> {"tap", "worker", "device"} \subseteq Threads \ {"main"} /\ "main" \in Threads
    BY DEF Threads
  <1> Statuses = {"Idle", "Dictating", "Transcribing", "RecordingListening",
                  "RecordingCapturing", "Finalizing", "Beep", "Error"}
    BY DEF Statuses
  <1> finalized \in Nat /\ sessions \in Nat
    BY DEF AnnounceInv, CountsInv
  <1>1. CASE ClickStart \/ SessionFails
    <2>1. UNCHANGED <<wasFinalizing, announced, finalized, mainQueue>>
      BY <1>1 DEF ClickStart, SessionFails, SessionFrame, uiVars
    <2>2. /\ sessions' \in Nat /\ sessions <= sessions'
          /\ mode # "Finalizing" /\ mode' # "Finalizing"
          /\ mode' = "Recording" =>
               mode \notin {"Recording", "Finalizing"} /\ sessions' = sessions + 1
      BY <1>1 DEF ClickStart, SessionFails, TryRecord, RecordingFails, Move
    <2>3. PICK s \in Statuses \ {"Finalizing"} : Reports("main", <<Status(s)>>)
      BY <1>1 DEF ClickStart, SessionFails
    <2>4. (Tame' => Tame) /\ Tells("main", <<Status(s)>>)
      BY <2>2, <2>3, TameReports
    <2>5. /\ ~ToTell("main", "Finalizing") /\ ~ToTell("main", "Finalizing")'
          /\ ToTell("worker", "Idle") => ToTell("worker", "Idle")'
          /\ Len(emitting'["main"]) = 1
      BY <2>3, <2>4, ToTellOne
    <2>6. Tame' => Foretold'
      BY <2>1, <2>2, <2>4, <2>5, ForetoldKept
    <2>7. CountsInv'
      BY <2>1, <2>2, <2>5 DEF AnnounceInv, CountsInv, Flag
    <2> QED
      BY <2>6, <2>7 DEF AnnounceInv
  <1>2. CASE SessionStarts \/ SessionArms
    <2>1. /\ UNCHANGED <<wasFinalizing, announced, finalized, sessions, mainQueue, raced,
                         emitting>>
          /\ mode' = mode
      BY <1>2 DEF SessionStarts, SessionArms, RecordingStarts, ArmDone, Move, SessionFrame,
                  uiVars
    <2>2. Tame' => Tame
      BY <2>1 DEF Tame
    <2> QED
      BY <2>1, <2>2, AnnounceSame
  <1>3. CASE ClickStop
    <2>1. UNCHANGED <<wasFinalizing, announced, finalized, sessions, mainQueue>>
      BY <1>3 DEF ClickStop, SessionFrame, uiVars
    <2>2. mode = "Recording" /\ mode' = "Finalizing"
      BY <1>3 DEF ClickStop, StopRecord, Move
    <2>3. Reports("main", <<Status("Finalizing")>>)
      BY <1>3 DEF ClickStop
    <2>4. /\ Tame' => Tame
          /\ raced' = "no" => \A u \in Threads : Silent(u)
          /\ Tells("main", <<Status("Finalizing")>>)
      BY <2>1, <2>3, TameReports
    <2>5. /\ ~ToTell("main", "Finalizing") /\ ToTell("main", "Finalizing")'
          /\ Len(emitting'["main"]) = 1
      BY <2>4, ToTellOne
    <2>6. CountsInv'
      BY <2>1, <2>2, <2>5 DEF AnnounceInv, CountsInv, Flag
    <2>7. ASSUME Tame' PROVE Foretold'
      <3>1. PICK w \in {0, 1}, a \in Nat :
              Outcome(mainQueue, Flag(wasFinalizing), announced, w, a) /\ Balance(w, a)
        BY <2>4, <2>7 DEF AnnounceInv, Foretold
      <3>2. a + w = finalized
        BY <2>2, <2>5, <3>1 DEF Balance, Flag
      <3>3. w = 0
        <4>1. CASE raced' = "no"
          <5>1. emitting["worker"] = <<>>
            BY <2>4, <4>1 DEF Silent
          <5>2. ~ToTell("worker", "Idle")
            BY <5>1 DEF ToTell
          <5> QED
            BY <2>2, <3>1, <5>2 DEF Balance
        <4>2. CASE sessions' <= 1
          <5>1. finalized = 0
            BY <2>1, <2>2, <4>2 DEF AnnounceInv, CountsInv, Flag
          <5> QED
            BY <3>2, <5>1
        <4> QED
          BY <2>7, <4>1, <4>2 DEF Tame
      <3>4. Balance(w, a)'
        BY <2>1, <2>2, <2>5, <3>2, <3>3 DEF Balance, Flag
      <3>5. Flag(wasFinalizing)' = Flag(wasFinalizing)
        BY <2>1 DEF Flag
      <3> QED
        BY <2>1, <3>1, <3>4, <3>5 DEF Foretold
    <2> QED
      BY <2>6, <2>7 DEF AnnounceInv
  <1>4. CASE SessionDone
    <2>1. UNCHANGED <<wasFinalizing, announced, sessions, mainQueue>>
      BY <1>4 DEF SessionDone, SessionFrame, uiVars
    <2>2. /\ mode = "Finalizing" /\ mode' = "Idle" /\ owner = "worker"
          /\ finalized' = finalized + 1
      BY <1>4 DEF SessionDone, FinalizeDone, Move
    <2>3. Reports("worker", <<Status("Idle")>>)
      BY <1>4 DEF SessionDone
    <2>4. (Tame' => Tame) /\ Tells("worker", <<Status("Idle")>>)
      BY <2>1, <2>3, TameReports
    <2>5. ~ToTell("main", "Finalizing")
      BY <2>2 DEF ToTell, PendingExpected, Expected
    <2>6. ~ToTell("main", "Finalizing")' /\ ToTell("worker", "Idle")'
      BY <2>4, <2>5, ToTellOne
    <2>7. emitting'["main"] = emitting["main"]
      BY <2>4 DEF Tells, UiTyped
    <2>8. CountsInv'
      BY <2>1, <2>2, <2>7 DEF AnnounceInv, CountsInv, Flag
    <2>9. ASSUME Tame' PROVE Foretold'
      <3>1. PICK w \in {0, 1}, a \in Nat :
              Outcome(mainQueue, Flag(wasFinalizing), announced, w, a) /\ Balance(w, a)
        BY <2>4, <2>9 DEF AnnounceInv, Foretold
      <3>2. Balance(w, a)'
        BY <2>2, <2>5, <2>6, <3>1 DEF Balance, Flag
      <3>3. Flag(wasFinalizing)' = Flag(wasFinalizing)
        BY <2>1 DEF Flag
      <3> QED
        BY <2>1, <3>1, <3>2, <3>3 DEF Foretold
    <2> QED
      BY <2>8, <2>9 DEF AnnounceInv
  <1>5. CASE \/ TapNotices("RecordingListening") \/ TapNotices("RecordingCapturing")
             \/ WorkerNotices \/ DeviceNotices
    <2>1. PICK t \in Threads \ {"main"}, s \in Statuses : Notices(t, s)
      BY <1>5 DEF TapNotices, WorkerNotices, DeviceNotices
    <2>2. UNCHANGED <<wasFinalizing, announced, finalized, sessions, mainQueue, mode, raced>>
      BY <2>1 DEF Notices, modeMachineVars, uiVars
    <2>3. Tells(t, <<Status(s)>>) /\ (Tame' => Tame)
      BY <2>1, <2>2 DEF Notices, Tame
    <2> QED
      BY <2>2, <2>3, AnnounceTells
  <1> QED
    BY <1>1, <1>2, <1>3, <1>4, <1>5 DEF Session

\* A report goes to the main queue: the flag is foreseen from here on.
LEMMA AnnounceEmit ==
  ASSUME UiTyped, PendingExpected, AnnounceInv, NEW t \in Threads, Emit(t)
  PROVE  AnnounceInv'
  <1> DEFINE m == emitting[t][1]
  <1>1. /\ emitting[t] \in Seq(Notice) /\ Len(emitting[t]) \in Nat \ {0}
        /\ \A u \in Threads \ {t} : emitting'[u] = emitting[u]
        /\ Len(emitting'[t]) = Len(emitting[t]) - 1
        /\ \A i \in 1..Len(emitting'[t]) :
             i + 1 \in 1..Len(emitting[t]) /\ emitting'[t][i] = emitting[t][i + 1]
        /\ Head(emitting[t]) = m
    BY Emitted
  <1>2. /\ UNCHANGED <<wasFinalizing, announced, finalized, sessions, mode, raced>>
        /\ mainQueue' = Append(mainQueue, m)
    BY <1>1 DEF Emit, Send, modeMachineVars, uiVars, counts
  <1>3. m \in Sent /\ Expected(t, m.what)
    <2>1. m \in Notice
      BY <1>1
    <2> QED
      BY <1>1, <2>1 DEF Notice, Sent, PendingExpected
  <1>4. {"main", "worker"} \subseteq Threads /\ Len(emitting["main"]) <= 1
        /\ Len(emitting["main"]) \in Nat /\ Len(emitting'["main"]) <= 1
    <2>1. {"main", "worker"} \subseteq Threads
      BY DEF Threads
    <2>2. emitting["main"] \in Seq(Notice) /\ Len(emitting["main"]) <= 1
      BY <2>1 DEF UiTyped, AnnounceInv, CountsInv
    <2>3. CASE t = "main"
      BY <1>1, <2>1, <2>2, <2>3
    <2>4. CASE t # "main"
      BY <1>1, <2>1, <2>2, <2>4
    <2> QED
      BY <2>1, <2>2, <2>3, <2>4
  <1>5. ToTell("main", "Finalizing") <=>
          ToTell("main", "Finalizing")' \/ m.what = "Finalizing"
    <2>1. CASE t = "main"
      <3>1. Len(emitting["main"]) = 1 /\ Len(emitting'["main"]) = 0
        <4>1. /\ Len(emitting["main"]) \in Nat \ {0}
              /\ Len(emitting'["main"]) = Len(emitting["main"]) - 1
          BY <1>1, <2>1
        <4>2. Len(emitting["main"]) <= 1
          BY <1>4
        <4>3. \A n \in Nat \ {0} : n <= 1 => n = 1 /\ n - 1 = 0
          OBVIOUS
        <4> QED
          BY <4>1, <4>2, <4>3, Zenon
      <3>2. ToTell("main", "Finalizing") <=> m.what = "Finalizing"
        BY <2>1, <3>1 DEF ToTell
      <3>3. ~ToTell("main", "Finalizing")'
        BY <3>1 DEF ToTell
      <3> QED
        BY <3>2, <3>3
    <2>2. CASE t # "main"
      <3>1. m.what # "Finalizing"
        BY <1>3, <2>2 DEF Expected
      <3> QED
        BY <1>1, <1>4, <2>2, <3>1 DEF ToTell
    <2> QED
      BY <2>1, <2>2
  <1>6. m.what = "Finalizing" => mode = "Finalizing" /\ ~ToTell("main", "Finalizing")'
    <2> SUFFICES ASSUME m.what = "Finalizing"
                 PROVE  mode = "Finalizing" /\ ~ToTell("main", "Finalizing")'
      OBVIOUS
    <2>1. t = "main" /\ mode = "Finalizing"
      BY <1>3 DEF Expected
    <2>2. Len(emitting'["main"]) = 0
      BY <1>1, <1>4, <2>1
    <2> QED
      BY <2>1, <2>2 DEF ToTell
  <1>7. m.what # "Idle" => (ToTell("worker", "Idle") => ToTell("worker", "Idle")')
    <2> SUFFICES ASSUME m.what # "Idle", ToTell("worker", "Idle")
                 PROVE  ToTell("worker", "Idle")'
      OBVIOUS
    <2>1. PICK i \in 1..Len(emitting["worker"]) : emitting["worker"][i].what = "Idle"
      BY DEF ToTell
    <2>2. CASE t = "worker"
      <3>1. i # 1
        BY <2>1, <2>2
      <3>2. i - 1 \in 1..Len(emitting'["worker"]) /\ (i - 1) + 1 = i
        BY <1>1, <2>1, <2>2, <3>1
      <3>3. emitting'["worker"][i - 1] = emitting["worker"][i]
        BY <1>1, <2>2, <3>2
      <3> QED
        BY <2>1, <3>2, <3>3 DEF ToTell
    <2>3. CASE t # "worker"
      BY <1>1, <1>4, <2>1, <2>3 DEF ToTell
    <2> QED
      BY <2>2, <2>3
  <1> HIDE DEF m
  <1>8. CountsInv'
    BY <1>2, <1>4, CountsKept DEF AnnounceInv
  <1>9. ASSUME Tame' PROVE Foretold'
    <2>1. PICK w \in {0, 1}, a \in Nat :
            Outcome(mainQueue, Flag(wasFinalizing), announced, w, a) /\ Balance(w, a)
      BY <1>2, <1>9 DEF AnnounceInv, Foretold, Tame
    <2>2. PICK w2 \in {0, 1}, a2 \in Nat :
            w2 = FlagAfter(w, m.what) /\ a2 = CountAfter(w, a, m.what)
      BY DEF FlagAfter, CountAfter
    <2>3. Outcome(mainQueue', Flag(wasFinalizing), announced, w2, a2)
      <3>1. mainQueue \in Seq(Sent)
        BY DEF UiTyped
      <3> QED
        BY <1>2, <1>3, <2>1, <2>2, <3>1, OutcomeOfMore
    <2>4. finalized \in Nat
      BY DEF AnnounceInv, CountsInv
    <2>5. Balance(w2, a2)'
      <3>1. CASE m.what = "Finalizing"
        <4>1. w = 0 /\ w2 = 1 /\ a2 = a
          BY <1>5, <2>1, <2>2, <3>1 DEF Balance, FlagAfter, CountAfter
        <4> QED
          BY <1>2, <1>5, <1>6, <2>1, <2>4, <3>1, <4>1 DEF Balance, Flag
      <3>2. CASE m.what = "Idle"
        <4>1. w2 = 0 /\ a2 = a + w
          BY <2>2, <3>2 DEF FlagAfter, CountAfter
        <4> QED
          BY <1>2, <1>5, <2>1, <2>4, <3>2, <4>1 DEF Balance, Flag
      <3>3. CASE m.what \notin {"Finalizing", "Idle"}
        <4>1. w2 = w /\ a2 = a
          BY <2>2, <3>3 DEF FlagAfter, CountAfter
        <4> QED
          BY <1>2, <1>5, <1>7, <2>1, <2>4, <3>3, <4>1 DEF Balance, Flag
      <3> QED
        BY <3>1, <3>2, <3>3
    <2>6. Flag(wasFinalizing)' = Flag(wasFinalizing) /\ announced' = announced
      BY <1>2 DEF Flag
    <2> QED
      BY <2>3, <2>5, <2>6 DEF Foretold
  <1> QED
    BY <1>8, <1>9 DEF AnnounceInv

\* main handles what was foreseen.
LEMMA AnnounceHandle ==
  ASSUME UiTyped, UiFlags, announced \in Nat, AnnounceInv, Handle
  PROVE  AnnounceInv'
  <1> DEFINE m == mainQueue[1]
  <1>1. UNCHANGED <<emitting, finalized, sessions, mode, raced>>
    BY DEF Handle, MainFrame, modeMachineVars, counts
  <1>2. /\ mainQueue \in Seq(Sent) /\ mainQueue # <<>> /\ Head(mainQueue) = m
        /\ mainQueue' = Tail(mainQueue)
    BY DEF Handle, UiTyped
  <1>3. /\ Flag(wasFinalizing') = FlagAfter(Flag(wasFinalizing), m.what)
        /\ announced' = CountAfter(Flag(wasFinalizing), announced, m.what)
    <2>1. CASE Show(m.what)
      <3>1. wasFinalizing' <=>
              m.what = "Finalizing" \/ (wasFinalizing /\ m.what # "Idle")
        BY <2>1 DEF Show
      <3>2. announced' = announced + (IF wasFinalizing /\ m.what = "Idle" THEN 1 ELSE 0)
        BY <2>1, Zenon DEF Show, Announces
      <3>3. CASE wasFinalizing
        BY <3>1, <3>2, <3>3 DEF Flag, FlagAfter, CountAfter
      <3>4. CASE ~wasFinalizing
        BY <3>1, <3>2, <3>4 DEF Flag, FlagAfter, CountAfter
      <3> QED
        BY <3>3, <3>4
    <2>2. CASE m.what \in {"Text", "SavedOver", "Beep"}
               /\ UNCHANGED <<wasFinalizing, announced>>
      BY <2>2 DEF Flag, FlagAfter, CountAfter
    <2> QED
      BY <1>2, <2>1, <2>2 DEF Handle, Remember, uiVars
  <1> HIDE DEF m
  <1>4. CountsInv'
    BY <1>1, CountsKept DEF AnnounceInv, CountsInv
  <1>5. ASSUME Tame' PROVE Foretold'
    <2>1. PICK w \in {0, 1}, a \in Nat :
            Outcome(mainQueue, Flag(wasFinalizing), announced, w, a) /\ Balance(w, a)
      BY <1>1, <1>5 DEF AnnounceInv, Foretold, Tame
    <2>2. Outcome(mainQueue', Flag(wasFinalizing'), announced', w, a)
      BY <1>2, <1>3, <2>1, OutcomeOfRest DEF m
    <2>3. Balance(w, a)'
      BY <1>1, <2>1 DEF Balance, ToTell, Flag
    <2> QED
      BY <2>2, <2>3 DEF Foretold, Flag
  <1> QED
    BY <1>4, <1>5 DEF AnnounceInv

\* Every step.
LEMMA AnnounceStep ==
  ASSUME UiTyped, UiRest, PendingExpected, AnnounceInv, [Next]_vars
  PROVE  AnnounceInv'
  <1>1. CASE Handle
    BY <1>1, AnnounceHandle DEF UiRest, UiShows
  <1>2. CASE TimerFires
    <2>1. SavedOver \in Sent /\ SavedOver.what = "SavedOver"
          /\ mainQueue' = Append(mainQueue, SavedOver)
      BY <1>2 DEF SavedOver, Sent, TimerFires, Send
    <2>2. UNCHANGED <<wasFinalizing, announced, finalized, sessions, emitting, mode, raced>>
      BY <1>2 DEF TimerFires, MainFrame, modeMachineVars, uiVars, counts
    <2>3. Tame' => Tame
      BY <2>2 DEF Tame
    <2> QED
      BY <2>1, <2>2, <2>3, AnnounceSame
  <1>3. CASE ToggleHistory \/ ClearHistory \/ UNCHANGED vars
    <2>1. UNCHANGED <<wasFinalizing, announced, finalized, sessions, mainQueue, emitting,
                      mode, raced>>
      BY <1>3, Zenon DEF ToggleHistory, ClearHistory, MainFrame, vars, modeMachineVars,
                         uiVars, counts
    <2>2. Tame' => Tame
      BY <2>1 DEF Tame
    <2> QED
      BY <2>1, <2>2, AnnounceSame
  <1> QED
    BY <1>1, <1>2, <1>3, AnnounceDictation, AnnounceSession, AnnounceEmit DEF Next, Ui

\* To begin with there is nothing to announce.
LEMMA AnnounceInit == Init => AnnounceInv
  <1> SUFFICES ASSUME Init PROVE AnnounceInv
    OBVIOUS
  <1>1. mode = "Idle" /\ wasFinalizing = FALSE /\ finalized = 0 /\ announced = 0
        /\ sessions = 0 /\ mainQueue = <<>>
    BY DEF Init, ModeMachineInit
  <1>2. Len(emitting["main"]) = 0
    BY DEF Init, Threads
  <1>3. CountsInv
    BY <1>1, <1>2 DEF CountsInv, Flag
  <1>4. Outcome(mainQueue, 0, 0, 0, 0)
    BY <1>1, OutcomeOfNone
  <1>5. Balance(0, 0)
    BY <1>1, <1>2 DEF Balance, Flag, ToTell
  <1> QED
    BY <1>1, <1>3, <1>4, <1>5 DEF AnnounceInv, Foretold, Flag

\* mode_machine.cpp:52, app_delegate.mm:828: for any number of sessions, dictations and
\* reports on their way, every session that is over has been announced as saved once
\* everything is shown, and only once, as long as no report was overtaken, or there is
\* one session only.
THEOREM SavedIsAnnouncedAlways == Spec => []SavedIsAnnounced
  <1>1. AnnounceInv /\ UiRest => SavedIsAnnounced
    <2> SUFFICES ASSUME AnnounceInv, UiRest, Quiet, mode # "Finalizing", Tame
                 PROVE  announced = finalized
      BY DEF SavedIsAnnounced, Tame
    <2>1. PICK w \in {0, 1}, a \in Nat :
            Outcome(mainQueue, Flag(wasFinalizing), announced, w, a) /\ Balance(w, a)
      BY DEF AnnounceInv, Foretold
    <2>2. a = announced
      BY <2>1, OutcomeOfNone DEF Quiet
    <2>3. \A t \in Threads : \A s : ~ToTell(t, s)
      <3>1. \A t \in Threads : Len(emitting[t]) = 0
        BY DEF Quiet, Silent
      <3> QED
        BY <3>1 DEF ToTell
    <2>4. {"main", "worker"} \subseteq Threads
      BY DEF Threads
    <2>5. w = 0 /\ a + w + 0 = finalized + 0 /\ finalized \in Nat
      BY <2>1, <2>3, <2>4 DEF Balance, Flag, AnnounceInv, CountsInv
    <2> QED
      BY <2>2, <2>5
  <1>2. HistoryInv /\ UiRest /\ PendingExpected /\ AnnounceInv /\ [Next]_vars => AnnounceInv'
    BY AnnounceStep DEF HistoryInv
  <1>3. HistoryInv /\ UiRest /\ PendingExpected /\ [Next]_vars
          => UiRest' /\ PendingExpected'
    BY UiRestStep, ExpectedStep DEF HistoryInv
  <1>4. Init => PendingExpected
    BY MenuInit DEF MenuInv
  <1> QED
    BY <1>1, <1>2, <1>3, <1>4, UiRestInit, AnnounceInit, HistoryInvariant, PTL DEF Spec

==================================================
