-------------------------- MODULE MainLoop_proofs --------------------------
(***************************************************************************)
(* main's timers and its sleep, for every width of the clock and of        *)
(* global_activity and every period.                                       *)
(***************************************************************************)
EXTENDS MainLoop, TLAPS
----------------------------------------------------------------------------
(* Arithmetic of a clock that wraps *)

\* What the remainder and the quotient of a division are.
LEMMA Division ==
  ASSUME NEW a \in Int, NEW w \in Nat \ {0}
  PROVE  /\ a % w \in 0 .. w - 1
         /\ a \div w \in Int
         /\ a = w * (a \div w) + (a % w)
  BY Z3

\* A multiple of w above -w is not negative.
LEMMA NotNegative ==
  ASSUME NEW k \in Int, NEW w \in Nat \ {0}, w * k > -w
  PROVE  w * k >= 0
<1>1. CASE k >= 0
  BY <1>1
<1>2. CASE k <= -1
  <2>1. PICK j \in Nat : k = -1 - j
    <3>1. -1 - k \in Nat /\ k = -1 - (-1 - k)
      BY <1>2
    <3> QED BY <3>1
  <2>2. w * j \in Nat
    OBVIOUS
  <2>3. w * k = -w - w * j
    BY <2>1, Z3
  <2> QED BY <2>2, <2>3
<1> QED BY <1>1, <1>2

\* The difference of two residues is a multiple of w away from the true one.
LEMMA Difference ==
  ASSUME NEW a \in Nat, NEW b \in Nat, NEW w \in Nat \ {0}
  PROVE  \E k \in Int : a - b = (((a % w) - (b % w)) % w) + w * k
<1> DEFINE d == (a % w) - (b % w)
           i == a \div w
           j == b \div w
           q == d \div w
<1>1. a % w \in Int /\ b % w \in Int /\ d \in Int
  BY Division
<1>2. i \in Int /\ j \in Int /\ q \in Int
  BY <1>1, Division
<1>3. a = w * i + (a % w) /\ b = w * j + (b % w)
  BY Division
<1>4. d = w * q + (d % w) /\ d % w \in Int
  BY <1>1, Division
<1>5. a - b = w * i - w * j + d
  BY <1>1, <1>2, <1>3
<1> HIDE DEF d, i, j, q
<1>6. a - b = w * i - w * j + w * q + (d % w)
  BY <1>1, <1>2, <1>4, <1>5
<1>7. w * i - w * j + w * q = w * (i - j + q)
  BY <1>2, Z3
<1>8. a - b = (d % w) + w * (i - j + q)
  BY <1>1, <1>2, <1>4, <1>6, <1>7
<1>9. i - j + q \in Int
  BY <1>2
<1> QED BY <1>8, <1>9 DEF d

\* The age a wrapping clock shows is at most the true age.
LEMMA AgeShown ==
  ASSUME NEW a \in Nat, NEW b \in Nat, NEW w \in Nat \ {0}, b <= a
  PROVE  /\ ((a % w) - (b % w)) % w \in Nat
         /\ ((a % w) - (b % w)) % w <= a - b
         /\ a - b < w => ((a % w) - (b % w)) % w = a - b
<1> DEFINE r == ((a % w) - (b % w)) % w
<1>1. PICK k \in Int : a - b = r + w * k
  BY Difference
<1>2. (a % w) - (b % w) \in Int
  BY Division
<1>3. r \in 0 .. w - 1
  BY <1>2, Division
<1> HIDE DEF r
<1>4. w * k \in Int
  OBVIOUS
<1>5. w * k > -w
  BY <1>1, <1>3, <1>4
<1>6. w * k >= 0
  BY <1>5, NotNegative
<1>7. r <= a - b
  BY <1>1, <1>3, <1>4, <1>6
<1>8. ASSUME a - b < w PROVE r = a - b
  <2>1. w * k < w
    BY <1>1, <1>3, <1>4, <1>8
  <2>2. w * k = 0
    <3>1. w * (-k) = -(w * k)
      BY Z3
    <3>2. w * (-k) > -w
      BY <2>1, <3>1, <1>4
    <3>3. w * (-k) >= 0
      BY <3>2, NotNegative
    <3> QED BY <1>4, <1>6, <3>1, <3>3
  <2> QED BY <1>1, <1>3, <2>2
<1> QED BY <1>3, <1>7, <1>8 DEF r

\* Counting on by less than a whole turn ends at another value.
LEMMA Elsewhere ==
  ASSUME NEW w \in Nat \ {0}, NEW x \in 0 .. w - 1, NEW n \in Nat, 0 < n, n < w
  PROVE  (x + n) % w # x
<1>1. CASE x + n < w
  <2>1. (x + n) % w = x + n
    BY <1>1
  <2> QED BY <2>1
<1>2. CASE x + n >= w
  <2>1. (x + n) % w = x + n - w
    <3>1. x + n - w \in 0 .. w - 1
      BY <1>2
    <3>2. ((x + n - w) + w) % w = x + n - w
      BY <3>1, Z3
    <3> QED BY <3>2
  <2> QED BY <2>1
<1> QED BY <1>1, <1>2

\* y is q times w and r
Decomposes(y, w, q, r) == y = w * q + r

\* A division determines its remainder.
LEMMA Remainder ==
  ASSUME NEW w \in Nat \ {0}, NEW q \in Int, NEW r \in 0 .. w - 1, NEW y \in Int,
         Decomposes(y, w, q, r)
  PROVE  y % w = r
<1>0. y = w * q + r
  BY DEF Decomposes
<1> DEFINE s == y % w
           p == y \div w
<1>1. s \in 0 .. w - 1 /\ p \in Int /\ y = w * p + s
  BY Division
<1> HIDE DEF s, p
<1>2. w * (q - p) = w * q - w * p /\ w * (p - q) = w * p - w * q
  BY <1>1, Z3
<1>3. w * q \in Int /\ w * p \in Int
  BY <1>1
<1>4. w * (q - p) > -w /\ w * (p - q) > -w
  BY <1>0, <1>1, <1>2, <1>3
<1>5. w * (q - p) >= 0 /\ w * (p - q) >= 0
  <2>1. q - p \in Int /\ p - q \in Int
    BY <1>1
  <2> QED BY <1>4, <2>1, NotNegative
<1>6. s = r
  BY <1>0, <1>1, <1>2, <1>3, <1>5
<1> QED BY <1>6 DEF s

\* Counting a residue on by one.
LEMMA CountOn ==
  ASSUME NEW w \in Nat \ {0}, NEW x \in Nat
  PROVE  ((x % w) + 1) % w = (x + 1) % w
<1>1. x % w \in 0 .. w - 1 /\ x = w * (x \div w) + (x % w) /\ x \div w \in Int
  BY Division
<1>2. CASE (x % w) + 1 < w
  <2>1. ((x % w) + 1) % w = (x % w) + 1
    BY <1>1, <1>2
  <2>2. x + 1 = w * (x \div w) + ((x % w) + 1)
    BY <1>1
  <2>3. (x + 1) % w = (x % w) + 1
    <3>1. /\ Decomposes(x + 1, w, x \div w, (x % w) + 1)
          /\ (x % w) + 1 \in 0 .. w - 1
          /\ x + 1 \in Int
      BY <1>1, <1>2, <2>2 DEF Decomposes
    <3> QED BY <1>1, <3>1, Remainder
  <2> QED BY <2>1, <2>3
<1>3. CASE (x % w) + 1 = w
  <2>1. ((x % w) + 1) % w = 0
    BY <1>3
  <2>2. x + 1 = w * ((x \div w) + 1)
    BY <1>1, <1>3, Z3
  <2>3. (x + 1) % w = 0
    <3>1. /\ Decomposes(x + 1, w, (x \div w) + 1, 0)
          /\ (x \div w) + 1 \in Int
          /\ 0 \in 0 .. w - 1
          /\ x + 1 \in Int
      BY <1>1, <2>2 DEF Decomposes
    <3> QED BY <3>1, Remainder
  <2> QED BY <2>1, <2>3
<1> QED BY <1>1, <1>2, <1>3
----------------------------------------------------------------------------
(* The inductive invariant *)

\* Every 32-bit time stands for its true time.
TimeInv ==
  /\ loopStart = loopAt % Width
  /\ \A t \in Timers : last[t] = stamp[t] % Width

\* Up to a whole turn of the counter, main can tell how many callbacks it has not
\* seen.
ActivityInv ==
  unseen < ActivityWidth => global_activity = (last_activity + unseen) % ActivityWidth

\* Work that came after this pass looked for it was counted after last_activity
\* was stored; and where main is about to sleep, after its last test.
WorkInv ==
  /\ pc \in {"announce", "send"} /\ (life_check \/ ~keep_running) => unseen > 0
  /\ pc \in {"timers", "test"} /\ Work => unseen > 0
  /\ pc \in {"sleep", "wfi"} /\ Work => Missed
  /\ pc \in {"sleep", "wfi"} /\ late => unseen > 0

IInv == TypeOK /\ TimeInv /\ ActivityInv /\ WorkInv

\* The clock shows a residue.
LEMMA ClockType == ASSUME now \in Nat PROVE Clock \in Residues
  BY TimesAssumption, Division DEF Clock, Residues

\* CountActivity keeps the counters in step.
LEMMA ActivityCounted ==
  ASSUME TypeOK, ActivityInv, CountActivity, last_activity' = last_activity
  PROVE  /\ global_activity' \in Counts
         /\ unseen' \in 0 .. ActivityWidth
         /\ unseen' > 0
         /\ unseen = ActivityWidth => unseen' = ActivityWidth
         /\ ActivityInv'
<1>1. global_activity \in Nat /\ last_activity \in Nat /\ unseen \in Nat
  BY TimesAssumption DEF TypeOK, Counts
<1>2. global_activity' \in Counts
  BY <1>1, TimesAssumption, Division DEF CountActivity, Increment, Counts
<1>3. /\ unseen' \in 0 .. ActivityWidth
      /\ unseen' > 0
      /\ unseen = ActivityWidth => unseen' = ActivityWidth
  BY <1>1, TimesAssumption DEF TypeOK, CountActivity, Count
<1>4. ActivityInv'
  <2> SUFFICES ASSUME unseen' < ActivityWidth
               PROVE  global_activity' = (last_activity + unseen') % ActivityWidth
    BY DEF ActivityInv
  <2>1. unseen < ActivityWidth /\ unseen' = unseen + 1
    BY <1>1, TimesAssumption DEF TypeOK, CountActivity, Count
  <2>2. global_activity = (last_activity + unseen) % ActivityWidth
    BY <2>1 DEF ActivityInv
  <2>3. last_activity + unseen \in Nat
    BY <1>1
  <2>4. global_activity' = ((last_activity + unseen) + 1) % ActivityWidth
    BY <2>2, <2>3, CountOn, TimesAssumption DEF CountActivity, Increment
  <2> QED BY <1>1, <2>1, <2>4
<1> QED BY <1>2, <1>3, <1>4

\* Testing a timer keeps its types and its meaning.
LEMMA TimerTested ==
  ASSUME TypeOK, TimeInv, NEW t \in Timers, TestTimer(t)
  PROVE  /\ last' \in [Timers -> Residues]
         /\ stamp' \in [Timers -> Nat]
         /\ \A u \in Timers : last'[u] = stamp'[u] % Width
<1>1. Clock \in Residues
  BY ClockType DEF TypeOK
<1>2. CASE Due(t)
  BY <1>1, <1>2 DEF TestTimer, TypeOK, TimeInv, Clock
<1>3. CASE ~Due(t)
  BY <1>3 DEF TestTimer, TypeOK, TimeInv
<1> QED BY <1>2, <1>3

\* The invariant holds when the loop begins.
LEMMA IInvInit == Init => IInv
<1> SUFFICES ASSUME Init PROVE IInv
  OBVIOUS
<1>1. 0 \in Residues /\ 0 \in Counts /\ 0 % Width = 0 /\ 0 % ActivityWidth = 0
  BY TimesAssumption DEF Residues, Counts
<1>2. \A t \in Timers : FirstStamp(t) \in Nat /\ FirstStamp(t) % Width \in Residues
  BY TimesAssumption, Division DEF FirstStamp, Residues
<1>3. TypeOK
  <2>1. /\ keep_running \in BOOLEAN /\ life_check \in BOOLEAN /\ queued \in BOOLEAN
        /\ slept \in BOOLEAN /\ late \in BOOLEAN
    BY Zenon DEF Init
  <2>2. last \in [Timers -> Residues] /\ stamp \in [Timers -> Nat]
    BY <1>2 DEF Init
  <2>3. unseen \in 0 .. ActivityWidth
    BY TimesAssumption DEF Init
  <2> QED BY <1>1, <2>1, <2>2, <2>3 DEF Init, TypeOK
<1>4. TimeInv
  BY <1>1 DEF Init, TimeInv
<1>5. ActivityInv
  BY <1>1 DEF Init, ActivityInv
<1>6. WorkInv
  BY DEF Init, WorkInv
<1> QED BY <1>3, <1>4, <1>5, <1>6 DEF IInv

\* Every interrupt and every step of main keeps the invariant.
LEMMA IInvNext == IInv /\ [Next]_vars => IInv'
<1> SUFFICES ASSUME IInv, [Next]_vars
             PROVE  IInv'
  OBVIOUS
<1>0. TypeOK /\ TimeInv /\ ActivityInv /\ WorkInv /\ ActivityWidth \in Nat \ {0}
  BY TimesAssumption DEF IInv
<1>1. ASSUME Callback, queued' \in BOOLEAN, keep_running' \in BOOLEAN, life_check' \in BOOLEAN
      PROVE  IInv'
  <2>1. /\ global_activity' \in Counts
        /\ unseen' \in 0 .. ActivityWidth
        /\ unseen' > 0
        /\ unseen = ActivityWidth => unseen' = ActivityWidth
        /\ ActivityInv'
    BY <1>0, <1>1, ActivityCounted DEF Callback
  <2>2. TypeOK'
    BY <1>0, <1>1, <2>1 DEF Callback, WakeUp, TypeOK, times
  <2>3. TimeInv'
    BY <1>0, <1>1 DEF Callback, TimeInv, times
  <2>4. WorkInv'
    BY <1>0, <1>1, <2>1 DEF Callback, WakeUp, WorkInv, Work, Missed
  <2> QED BY <2>1, <2>2, <2>3, <2>4 DEF IInv
<1>2. CASE BluetoothCallback
  BY <1>0, <1>1, <1>2 DEF BluetoothCallback, TypeOK
<1>3. CASE GpioCallback
  BY <1>0, <1>1, <1>3 DEF GpioCallback, TypeOK
<1>4. CASE OtherInterrupt
  <2>1. TypeOK'
    BY <1>0, <1>4 DEF OtherInterrupt, WakeUp, TypeOK, shared, times
  <2>2. TimeInv' /\ ActivityInv'
    BY <1>0, <1>4 DEF OtherInterrupt, TimeInv, ActivityInv, shared, times
  <2>3. WorkInv'
    BY <1>0, <1>4 DEF OtherInterrupt, WakeUp, WorkInv, Work, Missed, shared
  <2> QED BY <2>1, <2>2, <2>3 DEF IInv
<1>5. CASE Tick
  BY <1>0, <1>5
  DEF Tick, IInv, TypeOK, TimeInv, ActivityInv, WorkInv, Work, Missed, shared, times
<1>6. CASE Halt
  BY <1>0, <1>6
  DEF Halt, IInv, TypeOK, TimeInv, ActivityInv, WorkInv, shared, times
<1>7. CASE StartPass
  <2>1. Clock \in Residues /\ Clock = now % Width
    BY <1>0, ClockType DEF TypeOK, Clock
  <2>2. CASE life_check
    <3>1. /\ global_activity' \in Counts
          /\ unseen' \in 0 .. ActivityWidth
          /\ unseen' > 0
          /\ ActivityInv'
      BY <1>0, <1>7, <2>2, ActivityCounted DEF StartPass
    <3>2. TypeOK' /\ TimeInv'
      BY <1>0, <1>7, <2>1, <2>2, <3>1 DEF StartPass, TypeOK, TimeInv
    <3>3. WorkInv'
      BY <1>7, <3>1 DEF StartPass, WorkInv
    <3> QED BY <3>1, <3>2, <3>3 DEF IInv
  <2>3. CASE ~life_check
    <3>1. TypeOK' /\ TimeInv' /\ ActivityInv'
      BY <1>0, <1>7, <2>1, <2>3 DEF StartPass, TypeOK, TimeInv, ActivityInv
    <3>2. WorkInv'
      BY <1>7, <2>3 DEF StartPass, WorkInv
    <3> QED BY <3>1, <3>2 DEF IInv
  <2> QED BY <2>2, <2>3
<1>8. CASE AnnounceTimer
  <2>1. /\ last' \in [Timers -> Residues]
        /\ stamp' \in [Timers -> Nat]
        /\ \A u \in Timers : last'[u] = stamp'[u] % Width
    BY <1>0, <1>8, TimerTested DEF AnnounceTimer, Timers
  <2>2. queued' \in BOOLEAN
    BY <1>0, <1>8, Zenon DEF AnnounceTimer, TypeOK
  <2>3. TypeOK'
    BY <1>0, <1>8, <2>1, <2>2 DEF AnnounceTimer, TestTimer, TypeOK
  <2>4. TimeInv' /\ ActivityInv'
    BY <1>0, <1>8, <2>1 DEF AnnounceTimer, TestTimer, TimeInv, ActivityInv
  <2>5. WorkInv'
    BY <1>0, <1>8 DEF AnnounceTimer, WorkInv
  <2> QED BY <2>3, <2>4, <2>5 DEF IInv
<1>9. CASE SendPackets
  <2>1. TypeOK'
    BY <1>0, <1>9 DEF SendPackets, TypeOK, times
  <2>2. TimeInv' /\ ActivityInv'
    BY <1>0, <1>9 DEF SendPackets, TimeInv, ActivityInv, times
  <2>3. WorkInv'
    BY <1>0, <1>9 DEF SendPackets, WorkInv, Work
  <2> QED BY <2>1, <2>2, <2>3 DEF IInv
<1>10. ASSUME NEW t \in LaterTimers, LaterTimer(t)
       PROVE  IInv'
  <2>1. /\ last' \in [Timers -> Residues]
        /\ stamp' \in [Timers -> Nat]
        /\ \A u \in Timers : last'[u] = stamp'[u] % Width
    BY <1>0, <1>10, TimerTested DEF LaterTimer, Timers
  <2>2. TypeOK'
    BY <1>0, <1>10, <2>1 DEF LaterTimer, TestTimer, TypeOK, shared
  <2>3. TimeInv' /\ ActivityInv'
    BY <1>0, <1>10, <2>1 DEF LaterTimer, TestTimer, TimeInv, ActivityInv, shared
  <2>4. WorkInv'
    BY <1>0, <1>10 DEF LaterTimer, WorkInv, Work, Missed, shared
  <2> QED BY <2>2, <2>3, <2>4 DEF IInv
<1>11. CASE EndTimers
  BY <1>0, <1>11
  DEF EndTimers, IInv, TypeOK, TimeInv, ActivityInv, WorkInv, Work, Missed, shared, times
<1>12. CASE TestSleep
  <2>1. TypeOK'
    BY <1>0, <1>12 DEF TestSleep, TypeOK, shared, times
  <2>2. TimeInv' /\ ActivityInv'
    BY <1>0, <1>12 DEF TestSleep, TimeInv, ActivityInv, shared, times
  <2>3. ASSUME MaySleep, unseen > 0 PROVE unseen = ActivityWidth
    <3>1. unseen \in Nat /\ unseen <= ActivityWidth /\ last_activity \in 0 .. ActivityWidth - 1
      BY <1>0 DEF TypeOK, Counts
    <3>2. CASE unseen < ActivityWidth
      <4>1. global_activity = (last_activity + unseen) % ActivityWidth
        BY <1>0, <3>2 DEF ActivityInv
      <4>2. (last_activity + unseen) % ActivityWidth # last_activity
        BY <1>0, <2>3, <3>1, <3>2, Elsewhere
      <4> QED BY <2>3, <4>1, <4>2 DEF MaySleep
    <3> QED BY <1>0, <3>1, <3>2
  <2>4. WorkInv'
    BY <1>0, <1>12, <2>3 DEF TestSleep, WorkInv, Work, Missed, shared
  <2> QED BY <2>1, <2>2, <2>4 DEF IInv
<1>13. CASE Wfi
  BY <1>0, <1>13
  DEF Wfi, IInv, TypeOK, TimeInv, ActivityInv, WorkInv, Work, Missed, shared, times
<1>14. CASE EndPass
  <2>1. Clock \in Residues /\ 0 \in Residues /\ 0 % Width = 0
    BY <1>0, ClockType, TimesAssumption DEF TypeOK, Residues
  <2>2. TypeOK'
    <3>1. /\ lastSleepOrActivity' \in Residues
          /\ last_activity' \in Counts
          /\ unseen' \in 0 .. ActivityWidth
      BY <1>0, <1>14, <2>1 DEF EndPass, TypeOK
    <3>2. slept' \in BOOLEAN
      BY <1>14, Zenon DEF EndPass
    <3> QED BY <1>0, <1>14, <2>1, <3>1, <3>2 DEF EndPass, TypeOK, shared
  <2>3. TimeInv'
    BY <1>0, <1>14, <2>1 DEF EndPass, TimeInv
  <2>4. ActivityInv'
    <3>1. global_activity \in 0 .. ActivityWidth - 1
      BY <1>0 DEF TypeOK, Counts
    <3>2. (global_activity + 0) % ActivityWidth = global_activity
      BY <1>0, <3>1
    <3> QED BY <1>0, <1>14, <3>2 DEF EndPass, ActivityInv, shared
  <2>5. WorkInv'
    BY <1>14 DEF EndPass, WorkInv
  <2> QED BY <2>2, <2>3, <2>4, <2>5 DEF IInv
<1>15. CASE UNCHANGED vars
  BY <1>0, <1>15
  DEF vars, IInv, TypeOK, TimeInv, ActivityInv, WorkInv, Work, Missed, shared, times
<1> QED
  BY <1>2, <1>3, <1>4, <1>5, <1>6, <1>7, <1>8, <1>9, <1>10, <1>11, <1>12, <1>13,
     <1>14, <1>15
  DEF Next, Interrupt, Main
----------------------------------------------------------------------------
(* The theorems *)

\* The inductive invariant holds in every state of the loop.
THEOREM Invariance == Spec => []IInv
  BY IInvInit, IInvNext, PTL DEF Spec

\* main's timers and counters always have their types.
THEOREM TypeCorrect == Spec => []TypeOK
<1>1. IInv => TypeOK
  BY DEF IInv
<1> QED BY <1>1, Invariance, PTL

\* main sleeps with work to do only if it missed the callback that brought it,
\* whatever the width of global_activity.
THEOREM SleepCorrect == Spec => []SleepsOnlyWhenServed
<1>1. IInv => SleepsOnlyWhenServed
  BY DEF IInv, WorkInv, SleepsOnlyWhenServed
<1> QED BY <1>1, Invariance, PTL

\* The timers fire when their period is over and not before, whatever the width of
\* the clock and however often it wraps.
THEOREM TimersCorrect == Spec => []TimersTimely
<1>1. IInv => TimersTimely
  <2> SUFFICES ASSUME IInv, NEW t \in Timers, stamp[t] <= loopAt
               PROVE  /\ Due(t) => loopAt - stamp[t] > Period(t)
                      /\ loopAt - stamp[t] > Period(t) /\ loopAt - stamp[t] < Width => Due(t)
    BY DEF TimersTimely
  <2>1. loopAt \in Nat /\ stamp[t] \in Nat /\ Width \in Nat \ {0} /\ Period(t) \in Nat
    BY TimesAssumption DEF IInv, TypeOK, Period
  <2>2. loopStart - last[t] = (loopAt % Width) - (stamp[t] % Width)
    BY DEF IInv, TimeInv
  <2>3. /\ ((loopAt % Width) - (stamp[t] % Width)) % Width \in Nat
        /\ ((loopAt % Width) - (stamp[t] % Width)) % Width <= loopAt - stamp[t]
        /\ loopAt - stamp[t] < Width
             => ((loopAt % Width) - (stamp[t] % Width)) % Width = loopAt - stamp[t]
    BY <2>1, AgeShown
  <2>4. Due(t) <=> ((loopAt % Width) - (stamp[t] % Width)) % Width > Period(t)
    BY <2>2 DEF Due
  <2> QED BY <2>1, <2>3, <2>4
<1> QED BY <1>1, Invariance, PTL
============================================================================
