------------------------------ MODULE MainLoop ------------------------------
(***************************************************************************)
(* main's loop: its timers, and sleeping on __wfi until a callback has     *)
(* counted up global_activity.                                             *)
(*                                                                         *)
(* What the loop calls is in other modules; here it matters only whether   *)
(* something is queued for sendPackets.  Times are 32-bit microseconds     *)
(* that wrap, beside the true time they stand for.                         *)
(***************************************************************************)
EXTENDS Integers

CONSTANTS
  LaterTimers,    \* of "flash", "rssi", "scan", "cleanup": tested after sendPackets
  TwoSeconds, FiveMinutes, TenMinutes,
  Width,          \* number of values of time_us_32()
  ActivityWidth,  \* number of values of global_activity
  MaxTime         \* bound on the true time

Timers == {"announce"} \cup LaterTimers

ASSUME TimersAssumption == LaterTimers \subseteq {"flash", "rssi", "scan", "cleanup"}
ASSUME TimesAssumption ==
  /\ TwoSeconds \in Nat
  /\ FiveMinutes \in Nat
  /\ TenMinutes \in Nat
  /\ Width \in Nat \ {0}
  /\ ActivityWidth \in Nat \ {0}
  /\ MaxTime \in Nat

VARIABLES
  \* callbacks and main
  global_activity,
  keep_running,
  life_check,
  queued,                    \* something waits for sendPackets
  \* main only
  pc,
  loopStart,
  last,                      \* lastAnnounce, lastFlash, ..., lastCleanup
  lastSleepOrActivity,
  last_activity,
  slept,
  todo,                      \* timers this pass has still to test
  \* the environment
  now,                       \* the true time
  \* history: the true times that loopStart and last stand for, the callbacks
  \* since last_activity was stored, up to ActivityWidth, and whether one ran
  \* between main's last test and __wfi
  loopAt,
  stamp,
  unseen,
  late

shared == <<global_activity, keep_running, life_check, queued>>
times == <<loopStart, last, lastSleepOrActivity, loopAt, stamp>>
vars == <<shared, pc, times, last_activity, slept, todo, now, unseen, late>>

Clock == now % Width

Period(t) ==
  CASE t \in {"announce", "flash"} -> TwoSeconds
    [] t = "rssi" -> FiveMinutes
    [] OTHER -> TenMinutes

\* time_us_32() + five_minutes_in_us for the cleanup
FirstStamp(t) == IF t = "cleanup" THEN FiveMinutes ELSE 0

Init ==
  /\ global_activity = 0
  /\ keep_running = TRUE
  /\ life_check = FALSE
  /\ queued = FALSE
  /\ pc = "start"
  /\ loopStart = 0
  /\ last = [t \in Timers |-> FirstStamp(t) % Width]
  /\ lastSleepOrActivity = 0
  /\ last_activity = 0
  /\ slept = FALSE
  /\ todo = {}
  /\ now = 0
  /\ loopAt = 0
  /\ stamp = [t \in Timers |-> FirstStamp(t)]
  /\ unseen = 0
  /\ late = FALSE
----------------------------------------------------------------------------
(* Interrupts *)

\* Faulty variant: a counter that does not wrap
Increment_Unwrapped(n) == n + 1

\* global_activity++, a uint16_t
Increment(n) == (n + 1) % ActivityWidth

Count(n) == IF n < ActivityWidth THEN n + 1 ELSE n

CountActivity ==
  /\ global_activity' = Increment(global_activity)
  /\ unseen' = Count(unseen)

\* An interrupt ends __wfi
WakeUp ==
  /\ pc' = IF pc = "wfi" THEN "test" ELSE pc
  /\ slept' = (slept \/ pc = "wfi")

\* Each callback counts, whatever else it does
Callback ==
  /\ pc # "halted"
  /\ CountActivity
  /\ WakeUp
  /\ late' = (late \/ pc = "sleep")
  /\ UNCHANGED <<times, last_activity, todo, now>>

\* A Bluetooth callback, which may enqueue packets
BluetoothCallback ==
  /\ Callback
  /\ queued' \in {queued, TRUE}
  /\ UNCHANGED <<keep_running, life_check>>

\* gpio_callback: the exit pin, or the life-check pin
GpioCallback ==
  /\ Callback
  /\ \/ keep_running' = FALSE /\ UNCHANGED life_check
     \/ life_check' = TRUE /\ UNCHANGED keep_running
  /\ UNCHANGED queued

\* An interrupt that ends in none of our callbacks
OtherInterrupt ==
  /\ pc = "wfi"
  /\ WakeUp
  /\ UNCHANGED <<shared, times, last_activity, todo, now, unseen, late>>

Tick ==
  /\ pc # "halted"
  /\ now < MaxTime
  /\ now' = now + 1
  /\ UNCHANGED <<shared, pc, times, last_activity, slept, todo, unseen, late>>
----------------------------------------------------------------------------
(* main's loop *)

Halt ==
  /\ pc = "start"
  /\ ~keep_running
  /\ pc' = "halted"
  /\ UNCHANGED <<shared, times, last_activity, slept, todo, now, unseen, late>>

\* loopStart and handlePinActivity
StartPass ==
  /\ pc = "start"
  /\ keep_running
  /\ pc' = "announce"
  /\ loopStart' = Clock
  /\ loopAt' = now
  /\ IF life_check
     THEN life_check' = FALSE /\ queued' = TRUE /\ CountActivity
     ELSE UNCHANGED <<life_check, queued, global_activity, unseen>>
  /\ UNCHANGED <<keep_running, last, lastSleepOrActivity, stamp, last_activity,
                 slept, todo, now, late>>

\* Faulty variant: tests against the timer's end, not its age
Due_Deadline(t) == loopStart > (last[t] + Period(t)) % Width

Due(t) == (loopStart - last[t]) % Width > Period(t)

\* Run what timer t is for, then last = time_us_32()
TestTimer(t) ==
  /\ last' = IF Due(t) THEN [last EXCEPT ![t] = Clock] ELSE last
  /\ stamp' = IF Due(t) THEN [stamp EXCEPT ![t] = now] ELSE stamp
  /\ UNCHANGED <<loopStart, lastSleepOrActivity, loopAt>>

\* announceToConnections may queue the announce
AnnounceTimer ==
  /\ pc = "announce"
  /\ pc' = "send"
  /\ TestTimer("announce")
  /\ queued' \in {queued, queued \/ Due("announce")}
  /\ UNCHANGED <<global_activity, keep_running, life_check, last_activity, slept,
                 todo, now, unseen, late>>

SendPackets ==
  /\ pc = "send"
  /\ pc' = "timers"
  /\ queued' = FALSE
  /\ todo' = LaterTimers
  /\ UNCHANGED <<global_activity, keep_running, life_check, times, last_activity,
                 slept, now, unseen, late>>

LaterTimer(t) ==
  /\ pc = "timers"
  /\ t \in todo
  /\ todo' = todo \ {t}
  /\ TestTimer(t)
  /\ UNCHANGED <<shared, pc, last_activity, slept, now, unseen, late>>

EndTimers ==
  /\ pc = "timers"
  /\ todo = {}
  /\ pc' = "test"
  /\ slept' = FALSE
  /\ UNCHANGED <<shared, times, last_activity, todo, now, unseen, late>>

\* Faulty variant: looks at the time only
MaySleep_TimeOnly == (loopStart - lastSleepOrActivity) % Width > TwoSeconds

\* "nothing happened in the last 2seconds so lets sleep"
MaySleep ==
  /\ (loopStart - lastSleepOrActivity) % Width > TwoSeconds
  /\ last_activity = global_activity

\* Faulty variant: stays in the loop until it may sleep
TestSleep_Spins ==
  /\ pc = "test"
  /\ pc' = IF MaySleep THEN "sleep"
          ELSE IF last_activity = global_activity THEN "test" ELSE "end"
  /\ late' = FALSE
  /\ UNCHANGED <<shared, times, last_activity, slept, todo, now, unseen>>

TestSleep ==
  /\ pc = "test"
  /\ pc' = IF MaySleep THEN "sleep" ELSE "end"
  /\ late' = FALSE
  /\ UNCHANGED <<shared, times, last_activity, slept, todo, now, unseen>>

\* __wfi: the core stops until the next interrupt, whatever came before it
Wfi ==
  /\ pc = "sleep"
  /\ pc' = "wfi"
  /\ UNCHANGED <<shared, times, last_activity, slept, todo, now, unseen, late>>

\* The end of the pass; loopStart and slept are locals of the body
EndPass ==
  /\ pc = "end"
  /\ pc' = "start"
  /\ IF slept \/ last_activity # global_activity
     THEN /\ lastSleepOrActivity' = Clock
          /\ last_activity' = global_activity
          /\ unseen' = 0
     ELSE UNCHANGED <<lastSleepOrActivity, last_activity, unseen>>
  /\ slept' = FALSE
  /\ loopStart' = 0
  /\ loopAt' = 0
  /\ UNCHANGED <<shared, last, stamp, todo, now, late>>
----------------------------------------------------------------------------
Interrupt == BluetoothCallback \/ GpioCallback \/ OtherInterrupt

Main ==
  \/ Halt
  \/ StartPass
  \/ AnnounceTimer
  \/ SendPackets
  \/ \E t \in LaterTimers : LaterTimer(t)
  \/ EndTimers
  \/ TestSleep
  \/ Wfi
  \/ EndPass

Next == Interrupt \/ Main \/ Tick

Spec == Init /\ [][Next]_vars

\* main runs on unless it sleeps; no interrupt is assumed ever to come
FairSpec == Spec /\ WF_vars(Main)
----------------------------------------------------------------------------
(* Properties *)

Residues == 0 .. Width - 1
Counts == 0 .. ActivityWidth - 1

\* main's timers and counters have their types.
TypeOK ==
  /\ global_activity \in Counts
  /\ last_activity \in Counts
  /\ unseen \in 0 .. ActivityWidth
  /\ keep_running \in BOOLEAN
  /\ life_check \in BOOLEAN
  /\ queued \in BOOLEAN
  /\ slept \in BOOLEAN
  /\ late \in BOOLEAN
  /\ pc \in {"start", "announce", "send", "timers", "test", "sleep", "wfi",
             "end", "halted"}
  /\ loopStart \in Residues
  /\ last \in [Timers -> Residues]
  /\ lastSleepOrActivity \in Residues
  /\ todo \subseteq LaterTimers
  /\ now \in Nat
  /\ loopAt \in Nat
  /\ stamp \in [Timers -> Nat]

\* Something for the next pass to do
Work == queued \/ life_check \/ ~keep_running

\* A callback main missed: it ran after main's test and before __wfi, or
\* global_activity came round to the value main remembers
Missed == late \/ unseen = ActivityWidth

\* main sleeps with work to do only if it missed the callback that brought it.
SleepsOnlyWhenServed ==
  pc = "wfi" /\ Work => Missed

\* Timer t is tested in this state
Tested(t) ==
  \/ pc = "announce" /\ t = "announce"
  \/ pc = "timers" /\ t \in todo

\* A timer fires only when more than its period has passed since it last did,
\* also after the clock has wrapped; and then it does fire, unless main slept for
\* a whole turn of the clock.  The first cleanup is an exception: its stamp lies
\* ahead of the clock and it is due at once.
TimersTimely ==
  \A t \in Timers :
    Tested(t) /\ stamp[t] <= loopAt =>
      LET age == loopAt - stamp[t]
      IN  /\ Due(t) => age > Period(t)
          /\ age > Period(t) /\ age < Width => Due(t)

\* What callbacks queue is sent, and a pulled exit pin ends the loop, unless main
\* sleeps and missed the callback: then it waits for another interrupt.
EventuallyServed ==
  /\ queued ~> ~queued \/ pc = "halted" \/ (pc = "wfi" /\ Missed)
  /\ ~keep_running ~> pc = "halted" \/ (pc = "wfi" /\ Missed)
============================================================================
