--------------------------- MODULE EventTapProofs ---------------------------
(***************************************************************************)
(* The hotkey, for any keyboard, any number of events and any number of    *)
(* times the system disables the tap: the types, and that the last call    *)
(* follows the key.                                                        *)
(***************************************************************************)
EXTENDS EventTap, TLAPS, SequenceTheorems

\* The thread is there exactly from start() until stop() has joined it.
ThreadInv ==
  /\ mainPc = "joining" => ~running
  /\ loop = "none" <=> ~running /\ mainPc # "joining"

\* The types, by kind.
Booleans ==
  /\ running \in BOOLEAN /\ enabled \in BOOLEAN
  /\ missed \in BOOLEAN /\ masked \in BOOLEAN
Scalars ==
  /\ hotkey \in Hotkeys
  /\ mainPc \in {"idle", "waiting", "joining"}
  /\ loop \in {"none", "starting", "ready", "running", "stopping", "ended"}
  /\ held \subseteq Keys /\ events \in 0..MaxEvents
  /\ lastCall \in {"none", "down", "up"}
  /\ enabled => loop \in {"ready", "running", "stopping"}

Queued == queue \in Seq(Event)

\* The inductive invariant of the types.
TapTyped == Booleans /\ Scalars /\ Queued /\ ThreadInv

\* What a call may say of the key: that it is down, exactly if it is held or was released
\* with its twin held.
Heard == hotkey \in held \/ masked
Agrees(down) == down <=> Heard

\* The last event of the hotkey under way agrees with the key, and if there is none, the
\* last call does.
LastOfHotkey(i) ==
  /\ i \in 1..Len(queue) /\ OfHotkey(queue[i])
  /\ \A j \in 1..Len(queue) : j > i => ~OfHotkey(queue[j])

FollowInv ==
  ~missed =>
    /\ \A i \in 1..Len(queue) : LastOfHotkey(i) => Agrees(Pressed(queue[i]))
    /\ (\A i \in 1..Len(queue) : ~OfHotkey(queue[i])) => Agrees(lastCall = "down")

-----------------------------------------------------------------------------
(***************************************************************************)
(* Types.                                                                  *)
(***************************************************************************)

\* An event of a key.
LEMMA FlagsTyped ==
  ASSUME NEW now \in SUBSET Keys
  PROVE  Flags(now) \in SUBSET Masks
  BY DEF Flags, Masks

\* Appending an event to the queue.
LEMMA AppendEvent ==
  ASSUME NEW S, NEW q \in Seq(S), NEW e \in S
  PROVE  /\ Append(q, e) \in Seq(S) /\ Len(q) \in Nat
         /\ Len(Append(q, e)) = Len(q) + 1
         /\ \A i \in 1..Len(q) : Append(q, e)[i] = q[i]
         /\ Append(q, e)[Len(q) + 1] = e
  BY AppendProperties, LenProperties

\* Taking the head shifts every event one place forward.
LEMMA TailEvents ==
  ASSUME NEW S, NEW q \in Seq(S), q # <<>>
  PROVE  /\ Tail(q) \in Seq(S) /\ Len(q) \in Nat \ {0}
         /\ Len(Tail(q)) = Len(q) - 1
         /\ \A i \in 1..Len(Tail(q)) : Tail(q)[i] = q[i + 1]
         /\ Head(q) = q[1]
  BY HeadTailProperties, LenProperties, EmptySeq

\* Every step keeps the flags' type.
LEMMA BooleansStep ==
  ASSUME TapTyped, [Next]_vars
  PROVE  Booleans'
  <1> USE DEF TapTyped, Booleans
  <1>1. ASSUME NEW k, NEW type, NEW now, KeyEvent(k, type, now) PROVE Booleans'
    <2>1. CASE enabled
      BY <1>1, <2>1, Zenon DEF KeyEvent
    <2>2. CASE ~enabled
      BY <1>1, <2>2, Zenon DEF KeyEvent
    <2> QED
      BY <2>1, <2>2
  <1>2. CASE Keyboard
    BY <1>1, <1>2 DEF Keyboard, Press, Release, Repeat
  <1>3. CASE Main
    BY <1>3, Zenon DEF Main, Start, StartReturns, Stop, StopReturns
  <1>4. CASE Thread \/ HealthCheck
    BY <1>4, Zenon DEF Thread, ThreadReady, LoopRuns, LoopReturns, KeyCallback,
                       DisabledCallback, HealthCheck
  <1>5. ASSUME NEW k, SetHotkey(k) PROVE Booleans'
    BY <1>5, Zenon DEF SetHotkey
  <1>6. ASSUME NEW told, Disable(told) PROVE Booleans'
    BY <1>6, Zenon DEF Disable
  <1>7. CASE UNCHANGED vars
    BY <1>7, Zenon DEF vars
  <1> QED
    BY <1>2, <1>3, <1>4, <1>5, <1>6, <1>7 DEF Next

\* Every step keeps the queue's type.
LEMMA QueuedStep ==
  ASSUME TapTyped, [Next]_vars
  PROVE  Queued'
  <1> USE DEF TapTyped, Queued
  <1>1. queue' = queue \/ queue' = <<>> => Queued'
    <2>1. <<>> \in Seq(Event)
      BY EmptySeq
    <2> QED
      BY <2>1, Zenon
  <1>2. CASE KeyCallback \/ DisabledCallback
    BY <1>2, TailEvents DEF KeyCallback, DisabledCallback
  <1>3. ASSUME NEW k \in Keys, NEW type \in {"down", "up"}, NEW now \in SUBSET Keys,
               KeyEvent(k, type, now)
        PROVE  Queued'
    <2>1. [type |-> IF MaskOf[k] = NoMask THEN type ELSE "flags",
           key |-> k, flags |-> Flags(now)] \in Event
      BY FlagsTyped DEF Event
    <2> QED
      BY <1>1, <1>3, <2>1, AppendEvent DEF KeyEvent
  <1>4. CASE Keyboard
    BY <1>3, <1>4 DEF Keyboard, Press, Release, Repeat, Scalars
  <1>5. ASSUME NEW told \in BOOLEAN, Disable(told) PROVE Queued'
    <2>1. [type |-> "disabled", key |-> hotkey, flags |-> {}] \in Event
      BY TapAssumption DEF Event, Scalars
    <2> QED
      BY <1>5, <2>1, AppendEvent DEF Disable
  <1>6. CASE Main \/ ThreadReady \/ LoopRuns \/ LoopReturns \/ HealthCheck
    BY <1>1, <1>6, Zenon DEF Main, Start, StartReturns, Stop, StopReturns, ThreadReady,
                             LoopRuns, LoopReturns, HealthCheck
  <1>7. CASE UNCHANGED vars \/ \E k \in Hotkeys : SetHotkey(k)
    BY <1>1, <1>7, Zenon DEF vars, SetHotkey
  <1> QED
    BY <1>2, <1>4, <1>5, <1>6, <1>7 DEF Next, Thread

\* Every step keeps the types of the rest, and a thread exactly while there is to be one.
LEMMA ScalarsStep ==
  ASSUME TapTyped, [Next]_vars
  PROVE  Scalars' /\ ThreadInv'
  <1> USE DEF TapTyped, Scalars, ThreadInv
  <1>1. ASSUME NEW k, NEW type, NEW now \in SUBSET Keys, KeyEvent(k, type, now)
        PROVE  Scalars' /\ ThreadInv'
    BY <1>1, TapAssumption DEF KeyEvent
  <1>2. CASE Keyboard
    BY <1>1, <1>2 DEF Keyboard, Press, Release, Repeat
  <1>3. CASE Start \/ StartReturns
    BY <1>3 DEF Start, StartReturns
  <1>4. CASE Stop \/ StopReturns
    BY <1>4 DEF Stop, StopReturns
  <1>5. CASE ThreadReady \/ LoopRuns \/ LoopReturns
    BY <1>5 DEF ThreadReady, LoopRuns, LoopReturns
  <1>6. CASE KeyCallback \/ DisabledCallback \/ HealthCheck
    BY <1>6 DEF KeyCallback, DisabledCallback, HealthCheck
  <1>7. ASSUME NEW k \in Hotkeys, SetHotkey(k) PROVE Scalars' /\ ThreadInv'
    BY <1>7 DEF SetHotkey
  <1>8. ASSUME NEW told, Disable(told) PROVE Scalars' /\ ThreadInv'
    BY <1>8 DEF Disable
  <1>9. CASE UNCHANGED vars
    BY <1>9 DEF vars
  <1> QED
    BY <1>2, <1>3, <1>4, <1>5, <1>6, <1>7, <1>8, <1>9 DEF Next, Main, Thread

\* To begin with there is no thread.
LEMMA TypedInit == Init => TapTyped
  <1>1. Init => Queued
    BY DEF Init, Queued
  <1>2. Init => Booleans
    BY Zenon DEF Init, Booleans
  <1>3. Init => Scalars /\ ThreadInv
    BY TapAssumption DEF Init, Scalars, ThreadInv
  <1> QED
    BY <1>1, <1>2, <1>3 DEF TapTyped

\* Together.
LEMMA TypedStep ==
  ASSUME TapTyped, [Next]_vars
  PROVE  TapTyped'
  BY BooleansStep, ScalarsStep, QueuedStep DEF TapTyped

\* Of every behaviour.
LEMMA TypedInvariant == SafetySpec => []TapTyped
  BY TypedInit, TypedStep, PTL DEF SafetySpec

\* For any keyboard and bounds: the state is well typed, and a tap is enabled only while
\* its thread is there to answer it, so that none is left behind by stop().
THEOREM TapTypedAlways == SafetySpec => []TypeOK
  <1>1. TapTyped => TypeOK
    BY DEF TapTyped, Booleans, Scalars, Queued, TypeOK
  <1> QED
    BY <1>1, TypedInvariant, PTL

-----------------------------------------------------------------------------
(***************************************************************************)
(* The last call.                                                          *)
(***************************************************************************)

\* To begin with no key is held and nothing was called.
LEMMA FollowInit == Init => FollowInv
  BY DEF Init, FollowInv, Agrees, Heard, LastOfHotkey

\* A step that leaves the queue, the hotkey, how it is held and the last call, and forgets
\* no miss, keeps the invariant.
LEMMA FollowFrame ==
  ASSUME FollowInv, ~missed' => ~missed,
         UNCHANGED <<queue, hotkey, lastCall>>, Heard' <=> Heard
  PROVE  FollowInv'
  BY DEF FollowInv, Agrees, LastOfHotkey, OfHotkey

\* Events behind the last of the hotkey change nothing.
LEMMA FollowAppendOther ==
  ASSUME TapTyped, FollowInv, ~missed' => ~missed,
         UNCHANGED <<hotkey, lastCall>>, Heard' <=> Heard,
         NEW e \in Event, queue' = Append(queue, e), ~OfHotkey(e)
  PROVE  FollowInv'
  <1>1. queue \in Seq(Event)
    BY DEF TapTyped, Queued
  <1>2. SUFFICES ASSUME ~missed'
                 PROVE  /\ \A i \in 1..Len(queue') :
                             LastOfHotkey(i)' => Agrees(Pressed(queue[i]))'
                        /\ (\A i \in 1..Len(queue') : ~OfHotkey(queue[i])')
                             => Agrees(lastCall = "down")'
    BY DEF FollowInv, Agrees, Pressed
  <1>3. \A x : OfHotkey(x)' <=> OfHotkey(x)
    BY DEF OfHotkey
  <1>4. /\ Len(queue) \in Nat /\ Len(queue') = Len(queue) + 1
        /\ \A i \in 1..Len(queue) : queue'[i] = queue[i]
        /\ queue'[Len(queue) + 1] = e
    BY <1>1, AppendEvent
  <1>5. ASSUME NEW i \in 1..Len(queue'), LastOfHotkey(i)'
        PROVE  Agrees(Pressed(queue[i]))'
    <2>1. i \in 1..Len(queue)
      BY <1>3, <1>4, <1>5 DEF LastOfHotkey
    <2>2. LastOfHotkey(i)
      BY <1>3, <1>4, <1>5, <2>1 DEF LastOfHotkey
    <2> QED
      BY <1>2, <1>4, <2>1, <2>2 DEF FollowInv, Agrees, Pressed
  <1>6. ASSUME \A i \in 1..Len(queue') : ~OfHotkey(queue[i])'
        PROVE  Agrees(lastCall = "down")'
    BY <1>2, <1>3, <1>4, <1>6 DEF FollowInv, Agrees
  <1> QED
    BY <1>5, <1>6

\* An event of the hotkey that says how it is held speaks for itself.
LEMMA FollowAppendOwn ==
  ASSUME TapTyped, UNCHANGED hotkey,
         NEW e \in Event, queue' = Append(queue, e), OfHotkey(e),
         Pressed(e) <=> Heard'
  PROVE  FollowInv'
  <1>1. queue \in Seq(Event)
    BY DEF TapTyped, Queued
  <1>2. /\ Len(queue) \in Nat /\ Len(queue') = Len(queue) + 1
        /\ queue'[Len(queue) + 1] = e
    BY <1>1, AppendEvent
  <1>3. OfHotkey(queue[Len(queue)])'
    BY <1>2 DEF OfHotkey
  <1>4. ASSUME NEW i \in 1..Len(queue'), LastOfHotkey(i)'
        PROVE  i = Len(queue')
    BY <1>2, <1>3, <1>4 DEF LastOfHotkey
  <1>5. Len(queue') \in 1..Len(queue')
    BY <1>2
  <1> QED
    BY <1>2, <1>3, <1>4, <1>5 DEF FollowInv, Agrees, Pressed

\* The callback takes the first event, and calls what it says.
LEMMA FollowCallback ==
  ASSUME TapTyped, FollowInv, KeyCallback \/ DisabledCallback
  PROVE  FollowInv'
  <1>1. queue \in Seq(Event) /\ queue # <<>> /\ queue' = Tail(queue)
    BY DEF TapTyped, Queued, KeyCallback, DisabledCallback
  <1>2. /\ Len(queue) \in Nat \ {0} /\ Len(queue') = Len(queue) - 1
        /\ \A i \in 1..Len(queue') : queue'[i] = queue[i + 1]
        /\ Head(queue) = queue[1]
    BY <1>1, TailEvents
  <1>3. UNCHANGED <<hotkey, held, missed, masked>>
    BY DEF KeyCallback, DisabledCallback
  <1>4. \A x : OfHotkey(x)' <=> OfHotkey(x)
    BY <1>3 DEF OfHotkey
  <1>5. lastCall' = IF ~OfHotkey(queue[1]) THEN lastCall
                    ELSE IF Pressed(queue[1]) THEN "down" ELSE "up"
    BY <1>2, Zenon DEF KeyCallback, DisabledCallback, OfHotkey
  <1>6. SUFFICES ASSUME ~missed
                 PROVE  /\ \A i \in 1..Len(queue') :
                             LastOfHotkey(i)' => Agrees(Pressed(queue[i]))'
                        /\ (\A i \in 1..Len(queue') : ~OfHotkey(queue[i])')
                             => Agrees(lastCall = "down")'
    BY <1>3 DEF FollowInv, Agrees, Pressed
  <1>7. Heard' <=> Heard
    BY <1>3 DEF Heard
  <1>8. ASSUME NEW i \in 1..Len(queue'), LastOfHotkey(i)'
        PROVE  Agrees(Pressed(queue[i]))'
    <2>1. i + 1 \in 1..Len(queue) /\ queue'[i] = queue[i + 1]
      BY <1>2
    <2>2. ASSUME NEW j \in 1..Len(queue), j > i + 1
          PROVE  ~OfHotkey(queue[j])
      <3>1. j - 1 \in 1..Len(queue') /\ j - 1 > i /\ queue'[j - 1] = queue[j]
        BY <1>2, <2>2
      <3> QED
        BY <1>4, <1>8, <3>1 DEF LastOfHotkey
    <2>3. LastOfHotkey(i + 1)
      BY <1>4, <1>8, <2>1, <2>2 DEF LastOfHotkey
    <2> QED
      BY <1>6, <1>7, <2>1, <2>3 DEF FollowInv, Agrees, Pressed
  <1>9. ASSUME \A i \in 1..Len(queue') : ~OfHotkey(queue[i])'
        PROVE  Agrees(lastCall = "down")'
    <2>1. ASSUME NEW j \in 1..Len(queue), j > 1
          PROVE  ~OfHotkey(queue[j])
      <3>1. j - 1 \in 1..Len(queue') /\ queue'[j - 1] = queue[j]
        BY <1>2, <2>1
      <3> QED
        BY <1>4, <1>9, <3>1
    <2>2. CASE OfHotkey(queue[1])
      <3>1. LastOfHotkey(1)
        BY <1>2, <2>1, <2>2 DEF LastOfHotkey
      <3>2. Agrees(Pressed(queue[1]))
        BY <1>2, <1>6, <3>1 DEF FollowInv, Agrees
      <3> QED
        BY <1>5, <1>7, <2>2, <3>2 DEF Agrees
    <2>3. CASE ~OfHotkey(queue[1])
      <3>1. \A i \in 1..Len(queue) : ~OfHotkey(queue[i])
        BY <2>1, <2>3
      <3> QED
        BY <1>5, <1>6, <1>7, <2>3, <3>1 DEF FollowInv, Agrees
    <2> QED
      BY <2>2, <2>3
  <1> QED
    BY <1>8, <1>9

\* What a key event says of its key: that it is held, if it is or its twin is.
LEMMA EventSays ==
  ASSUME NEW k \in Hotkeys, NEW type \in {"down", "up"}, NEW now \in SUBSET Keys,
         type = "down" <=> k \in now,
         NEW e, e = [type  |-> IF MaskOf[k] = NoMask THEN type ELSE "flags",
                     key   |-> k,
                     flags |-> Flags(now)]
  PROVE  Pressed(e) <=> k \in now \/ Twin(k, now)
  <1>1. CASE MaskOf[k] = NoMask
    BY <1>1 DEF Pressed, Twin
  <1>2. CASE MaskOf[k] # NoMask
    <2>1. Pressed(e) <=> MaskOf[k] \in Flags(now)
      BY <1>2 DEF Pressed
    <2>2. MaskOf[k] \in Flags(now) <=> \E j \in now : MaskOf[j] = MaskOf[k]
      BY <1>2 DEF Flags
    <2> QED
      BY <1>2, <2>1, <2>2 DEF Twin
  <1> QED
    BY <1>1, <1>2

\* The keys: an event of the hotkey says how it is held, and one that is lost is a miss.
LEMMA FollowKeyEvent ==
  ASSUME TapTyped, FollowInv, NEW k \in Keys, NEW type \in {"down", "up"},
         NEW now \in SUBSET Keys, KeyEvent(k, type, now),
         type = "down" <=> k \in now, \A j \in Keys \ {k} : j \in now <=> j \in held
  PROVE  FollowInv'
  <1> DEFINE e == [type  |-> IF MaskOf[k] = NoMask THEN type ELSE "flags",
                   key   |-> k,
                   flags |-> Flags(now)]
  <1>1. e \in Event
    BY FlagsTyped DEF Event
  <1>2. hotkey \in Hotkeys /\ hotkey \in Keys /\ UNCHANGED <<hotkey, lastCall>>
    BY TapAssumption DEF TapTyped, Scalars, KeyEvent
  <1>3. OfHotkey(e) <=> k = hotkey
    BY DEF OfHotkey
  <1>4. held' = now
    BY DEF KeyEvent
  <1>5. CASE enabled /\ k = hotkey
    <2>1. Pressed(e) <=> k \in now \/ Twin(k, now)
      BY <1>2, <1>5, EventSays
    <2>2. queue' = Append(queue, e)
      BY <1>5 DEF KeyEvent
    <2>3. masked' <=> k \notin now /\ Twin(k, now)
      BY <1>5 DEF KeyEvent
    <2>4. Pressed(e) <=> Heard'
      BY <1>2, <1>4, <1>5, <2>1, <2>3 DEF Heard
    <2> HIDE DEF e
    <2> QED
      BY <1>1, <1>2, <1>3, <1>5, <2>2, <2>4, FollowAppendOwn
  <1>6. CASE enabled /\ k # hotkey
    <2>1. queue' = Append(queue, e)
      BY <1>6 DEF KeyEvent
    <2>2. (Heard' <=> Heard) /\ (~missed' => ~missed)
      BY <1>2, <1>4, <1>6 DEF Heard, KeyEvent
    <2> HIDE DEF e
    <2> QED
      BY <1>1, <1>2, <1>3, <1>6, <2>1, <2>2, FollowAppendOther
  <1>7. CASE ~enabled
    <2>1. ASSUME ~missed' PROVE (Heard' <=> Heard) /\ ~missed
      <3>1. ~missed /\ (k = hotkey => now = held)
        BY <1>7, <2>1, Zenon DEF KeyEvent
      <3>2. UNCHANGED masked
        BY <1>7 DEF KeyEvent
      <3> QED
        BY <1>2, <1>4, <3>1, <3>2 DEF Heard
    <2>2. CASE ~missed'
      BY <1>2, <1>7, <2>1, <2>2, FollowFrame DEF KeyEvent
    <2> QED
      BY <2>2 DEF FollowInv
  <1> QED
    BY <1>5, <1>6, <1>7

\* Every step.
LEMMA FollowStep ==
  ASSUME TapTyped, FollowInv, [Next]_vars
  PROVE  FollowInv'
  <1>1. CASE Keyboard
    <2>1. ASSUME NEW k \in Keys, Press(k) PROVE FollowInv'
      BY <2>1, FollowKeyEvent DEF Press, TapTyped, Scalars
    <2>2. ASSUME NEW k \in Keys, Release(k) PROVE FollowInv'
      BY <2>2, FollowKeyEvent DEF Release, TapTyped, Scalars
    <2>3. ASSUME NEW k \in Keys, Repeat(k) PROVE FollowInv'
      BY <2>3, FollowKeyEvent DEF Repeat, TapTyped, Scalars
    <2> QED
      BY <1>1, <2>1, <2>2, <2>3 DEF Keyboard
  <1>2. CASE KeyCallback \/ DisabledCallback
    BY <1>2, FollowCallback
  <1>3. CASE \/ Start \/ StartReturns \/ Stop \/ ThreadReady \/ LoopRuns \/ LoopReturns
             \/ HealthCheck \/ UNCHANGED vars
    <2>1. UNCHANGED <<queue, hotkey, held, lastCall, missed, masked>>
      BY <1>3, Zenon DEF Start, StartReturns, Stop, ThreadReady, LoopRuns, LoopReturns,
                         HealthCheck, vars
    <2> QED
      BY <2>1, FollowFrame DEF Heard
  <1>4. CASE StopReturns
    <2>1. SUFFICES ASSUME ~missed' PROVE FollowInv'
      BY DEF FollowInv
    <2>2. ~missed /\ \A i \in 1..Len(queue) : ~OfHotkey(queue[i])
      BY <1>4, <2>1 DEF StopReturns
    <2>3. Agrees(lastCall = "down")
      BY <2>2 DEF FollowInv
    <2>4. queue' = <<>> /\ UNCHANGED <<hotkey, held, lastCall, masked>>
      BY <1>4 DEF StopReturns
    <2> QED
      BY <2>3, <2>4 DEF FollowInv, Agrees, Heard
  <1>5. ASSUME NEW k \in Hotkeys, SetHotkey(k) PROVE FollowInv'
    <2>1. SUFFICES ASSUME ~missed' PROVE FollowInv'
      BY DEF FollowInv
    <2>2. queue' = <<>> /\ (lastCall' = "down" <=> Heard')
      BY <1>5, <2>1 DEF SetHotkey, Heard
    <2> QED
      BY <2>2 DEF FollowInv, Agrees
  <1>6. ASSUME NEW told \in BOOLEAN, Disable(told) PROVE FollowInv'
    <2>1. UNCHANGED <<hotkey, held, lastCall, missed, masked>>
      BY <1>6 DEF Disable
    <2>2. CASE told
      <3> DEFINE e == [type |-> "disabled", key |-> hotkey, flags |-> {}]
      <3>1. e \in Event /\ ~OfHotkey(e) /\ queue' = Append(queue, e)
        BY <1>6, <2>2, TapAssumption DEF Event, OfHotkey, Disable, TapTyped, Scalars
      <3> HIDE DEF e
      <3> QED
        BY <2>1, <3>1, FollowAppendOther DEF Heard
    <2>3. CASE ~told
      BY <1>6, <2>1, <2>3, FollowFrame DEF Disable, Heard
    <2> QED
      BY <2>2, <2>3
  <1> QED
    BY <1>1, <1>2, <1>3, <1>4, <1>5, <1>6 DEF Next, Main, Thread

\* Of every behaviour.
LEMMA FollowInvariant == SafetySpec => []FollowInv
  BY TypedInit, TypedStep, FollowInit, FollowStep, PTL DEF SafetySpec

\* With nothing under way and nothing missed, the last call agrees with the key.
LEMMA QuietAgrees ==
  ASSUME FollowInv, queue = <<>>, ~missed
  PROVE  Agrees(lastCall = "down")
  BY DEF FollowInv

\* event_tap.mm:48: for any keyboard, any hotkey, any number of events and of times the
\* system disables the tap, once every event is handled and unless the key has moved
\* unseen since its last event: the last call says that the key is down exactly if it is,
\* or was released with a key of the same flag held.
THEOREM FollowsTheKeyAlways == SafetySpec => []FollowsTheKey
  <1>1. FollowInv => FollowsTheKey
    BY QuietAgrees DEF FollowsTheKey, Agrees, Heard
  <1> QED
    BY <1>1, FollowInvariant, PTL

=============================================================================
