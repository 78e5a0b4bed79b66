------------------------------ MODULE EventTap ------------------------------
(***************************************************************************)
(* The global hotkey (src/src/event_tap.mm).  main starts and stops a      *)
(* thread whose run loop receives the key events of the whole system; the  *)
(* callback tells the controller when the hotkey goes down and up.  The    *)
(* system may disable the tap at any time, with or without an event that   *)
(* says so, and a timer looks for that.                                    *)
(*                                                                         *)
(* The run loop, the tap and its queue belong to the operating system and  *)
(* are modelled as this code uses them: a disabled tap gets no events, and *)
(* CFRunLoopStop() on a loop that does not run yet does nothing.           *)
(***************************************************************************)
EXTENDS Naturals, Sequences

CONSTANTS
  Keys,        \* keys of the keyboard
  MaskOf,      \* the modifier flag of each key
  NoMask,      \* the flag of a key that is no modifier
  Hotkeys,     \* the keys that can be chosen
  MaxEvents,   \* bound: key events
  MayDisable   \* the system may disable the tap

ASSUME TapAssumption ==
  /\ Hotkeys \subseteq Keys /\ MaxEvents \in Nat /\ MayDisable \in BOOLEAN
  /\ DOMAIN MaskOf = Keys

VARIABLES
  hotkey,    \* hotkey
  running,   \* running
  mainPc,    \* where main is in start() and stop()
  loop,      \* where the thread is
  enabled,   \* the tap is enabled
  queue,     \* events on their way to the callback
  held,      \* the keys held down
  events,    \* history: key events so far
  lastCall,  \* history: which of on_down and on_up was called last
  missed,    \* history: since its last event the hotkey has moved unseen
  masked     \* history: its last event was a release with its twin held

vars == <<hotkey, running, mainPc, loop, enabled, queue, held, events, lastCall,
          missed, masked>>

Masks == {MaskOf[k] : k \in Keys} \ {NoMask}
Event == [type : {"down", "up", "flags", "disabled"}, key : Keys, flags : SUBSET Masks]

\* Besides the types: a tap is enabled only while its thread is there.
TypeOK ==
  /\ hotkey \in Hotkeys
  /\ running \in BOOLEAN /\ enabled \in BOOLEAN
  /\ missed \in BOOLEAN /\ masked \in BOOLEAN
  /\ mainPc \in {"idle", "waiting", "joining"}
  /\ loop \in {"none", "starting", "ready", "running", "stopping", "ended"}
  /\ queue \in Seq(Event)
  /\ held \subseteq Keys /\ events \in 0..MaxEvents
  /\ lastCall \in {"none", "down", "up"}
  /\ enabled => loop \in {"ready", "running", "stopping"}

Init ==
  /\ hotkey \in Hotkeys
  /\ running = FALSE /\ mainPc = "idle" /\ loop = "none"
  /\ enabled = FALSE /\ queue = <<>>
  /\ held = {} /\ events = 0
  /\ lastCall = "none" /\ missed = FALSE /\ masked = FALSE

-----------------------------------------------------------------------------
(***************************************************************************)
(* main: start(), stop() and setHotkey().                                  *)
(***************************************************************************)

\* start(), once Accessibility is granted: make the tap, spawn the thread.
Start ==
  /\ mainPc = "idle" /\ ~running
  /\ running' = TRUE
  /\ loop' = "starting"
  /\ mainPc' = "waiting"
  /\ UNCHANGED <<hotkey, enabled, queue, held, events, lastCall, missed, masked>>

\* The thread is ready.
StartReturns ==
  /\ mainPc = "waiting" /\ loop # "starting"
  /\ mainPc' = "idle"
  /\ UNCHANGED <<hotkey, running, loop, enabled, queue, held, events, lastCall,
                 missed, masked>>

\* stop(): CFRunLoopStop(), then join.
Stop ==
  /\ mainPc = "idle" /\ running
  /\ running' = FALSE
  /\ loop' = IF loop = "running" THEN "stopping" ELSE loop
  /\ mainPc' = "joining"
  /\ UNCHANGED <<hotkey, enabled, queue, held, events, lastCall, missed, masked>>

\* An event the callback answers with on_down or on_up.
OfHotkey(e) == e.type # "disabled" /\ e.key = hotkey

\* The thread is joined and the tap released, with what it had queued.
StopReturns ==
  /\ mainPc = "joining" /\ loop = "ended"
  /\ loop' = "none"
  /\ mainPc' = "idle"
  /\ queue' = <<>>
  /\ missed' = (missed \/ \E i \in 1..Len(queue) : OfHotkey(queue[i]))
  /\ UNCHANGED <<hotkey, running, enabled, held, events, lastCall, masked>>

SetHotkey(k) ==
  /\ mainPc = "idle"
  /\ hotkey' = k
  /\ missed' = (queue # <<>> \/ ~(lastCall = "down" <=> k \in held))
  /\ masked' = FALSE
  /\ UNCHANGED <<running, mainPc, loop, enabled, queue, held, events, lastCall>>

-----------------------------------------------------------------------------
(***************************************************************************)
(* The thread.                                                             *)
(***************************************************************************)

\* Enable the tap, set the timer, and say so.
ThreadReady ==
  /\ loop = "starting"
  /\ loop' = "ready"
  /\ enabled' = TRUE
  /\ UNCHANGED <<hotkey, running, mainPc, queue, held, events, lastCall, missed, masked>>

\* CFRunLoopRun()
LoopRuns ==
  /\ loop = "ready"
  /\ loop' = "running"
  /\ UNCHANGED <<hotkey, running, mainPc, enabled, queue, held, events, lastCall,
                 missed, masked>>

\* Mutant: the tap is left enabled.
LoopLeavesTap ==
  /\ loop = "stopping"
  /\ loop' = "ended"
  /\ UNCHANGED <<hotkey, running, mainPc, enabled, queue, held, events, lastCall,
                 missed, masked>>

\* CFRunLoopRun() returns: disable the tap, remove source and timer.
LoopReturns ==
  /\ loop = "stopping"
  /\ loop' = "ended"
  /\ enabled' = FALSE
  /\ UNCHANGED <<hotkey, running, mainPc, queue, held, events, lastCall, missed, masked>>

\* Mutant: any modifier counts.
PressedByAnyFlag(e) ==
  \/ e.type = "down"
  \/ e.type = "flags" /\ e.flags # {}

\* What the callback takes an event of the hotkey for: a modifier sends
\* FlagsChanged, and its flag tells pressed from released.
Pressed(e) ==
  \/ e.type = "down"
  \/ e.type = "flags" /\ MaskOf[e.key] \in e.flags

\* A key event reaches the callback.
KeyCallback ==
  /\ loop = "running" /\ queue # <<>> /\ Head(queue).type # "disabled"
  /\ queue' = Tail(queue)
  /\ lastCall' = IF ~OfHotkey(Head(queue)) THEN lastCall
                 ELSE IF Pressed(Head(queue)) THEN "down" ELSE "up"
  /\ UNCHANGED <<hotkey, running, mainPc, loop, enabled, held, events, missed, masked>>

\* The callback hears that the tap was disabled.
DisabledCallback ==
  /\ loop = "running" /\ queue # <<>> /\ Head(queue).type = "disabled"
  /\ queue' = Tail(queue)
  /\ enabled' = TRUE
  /\ UNCHANGED <<hotkey, running, mainPc, loop, held, events, lastCall, missed, masked>>

\* Mutant: the timer looks and does nothing.
HealthLooks ==
  /\ loop = "running" /\ ~enabled
  /\ UNCHANGED vars

\* The timer finds the tap disabled.
HealthCheck ==
  /\ loop = "running" /\ ~enabled
  /\ enabled' = TRUE
  /\ UNCHANGED <<hotkey, running, mainPc, loop, queue, held, events, lastCall,
                 missed, masked>>

-----------------------------------------------------------------------------
(***************************************************************************)
(* The keyboard and the system.                                            *)
(***************************************************************************)

Flags(keys) == {MaskOf[k] : k \in keys} \ {NoMask}

\* Another key that shares the flag of k is among those held.
Twin(k, keys) == MaskOf[k] # NoMask /\ \E j \in keys \ {k} : MaskOf[j] = MaskOf[k]

\* An event of key k, which leaves the keys in now held.
KeyEvent(k, type, now) ==
  /\ events < MaxEvents
  /\ events' = events + 1
  /\ held' = now
  /\ IF enabled
       THEN /\ queue' = Append(queue,
                 [type  |-> IF MaskOf[k] = NoMask THEN type ELSE "flags",
                  key   |-> k,
                  flags |-> Flags(now)])
            /\ missed' = (missed /\ k # hotkey)
            /\ masked' = IF k = hotkey THEN k \notin now /\ Twin(k, now) ELSE masked
       ELSE /\ UNCHANGED <<queue, masked>>
            /\ missed' = (missed \/ (k = hotkey /\ now # held))
  /\ UNCHANGED <<hotkey, running, mainPc, loop, enabled, lastCall>>

Press(k) == k \notin held /\ KeyEvent(k, "down", held \union {k})
Release(k) == k \in held /\ KeyEvent(k, "up", held \ {k})

\* A key that is no modifier repeats while it is held.
Repeat(k) == k \in held /\ MaskOf[k] = NoMask /\ KeyEvent(k, "down", held)

\* The system disables the tap, and may or may not say so.
Disable(told) ==
  /\ MayDisable /\ enabled
  /\ \A i \in 1..Len(queue) : queue[i].type # "disabled"
  /\ enabled' = FALSE
  /\ queue' = IF told
       THEN Append(queue, [type |-> "disabled", key |-> hotkey, flags |-> {}])
       ELSE queue
  /\ UNCHANGED <<hotkey, running, mainPc, loop, held, events, lastCall, missed, masked>>

-----------------------------------------------------------------------------

Main == Start \/ StartReturns \/ Stop \/ StopReturns
Thread == ThreadReady \/ LoopRuns \/ LoopReturns \/ KeyCallback \/ DisabledCallback
Keyboard == \E k \in Keys : Press(k) \/ Release(k) \/ Repeat(k)

Next ==
  \/ Main \/ \E k \in Hotkeys : SetHotkey(k)
  \/ Thread \/ HealthCheck
  \/ Keyboard \/ \E told \in BOOLEAN : Disable(told)

\* The thread is scheduled, its timer fires, and calls that wait for it return.
Fairness ==
  /\ WF_vars(Thread) /\ WF_vars(HealthCheck)
  /\ WF_vars(StartReturns) /\ WF_vars(StopReturns)

SafetySpec == Init /\ [][Next]_vars
Spec == SafetySpec /\ Fairness

-----------------------------------------------------------------------------
(***************************************************************************)
(* Properties.                                                             *)
(***************************************************************************)

\* README.md:72, "Hold the hotkey ... Release the hotkey": when every event is
\* handled, the last call says whether the key is held, unless the key has moved
\* unseen since the last event of it: what was lost while the tap was disabled, or
\* while another key was the hotkey, is made good by the next one.  A release while
\* the key's twin is held is taken for a press, and that release alone: the last
\* call says "down" of a key that is up exactly then, until its next event.
FollowsTheKey ==
  queue = <<>> /\ ~missed => (lastCall = "down" <=> hotkey \in held \/ masked)

\* event_tap.mm:135: a tap that was disabled, told or not, is enabled again,
\* unless the thread is being stopped.
TapComesBack == loop = "running" /\ ~enabled ~> enabled \/ loop # "running"

\* event_tap.mm:155: "start() can return safely".  After that stop() returns.
StopEnds == mainPc = "joining" ~> mainPc = "idle"

=============================================================================
