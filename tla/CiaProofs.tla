------------------------------- MODULE CiaProofs -------------------------------
(***************************************************************************)
(* The alarms of a CIA stand where its timers will need them, whatever the *)
(* program, the clock guard and the snapshots do and in whatever order;    *)
(* and the chip that is replayed late is the one that counts every cycle.  *)
(***************************************************************************)
EXTENDS CiaComparison, CiaTimerProofs, SequenceTheorems

-----------------------------------------------------------------------------
(* What the cycles leave alone.                                            *)
LEMMA CycleKeeps ==
  ASSUME NEW t \in Timer
  PROVE  LET r == Cycle(t) IN
         /\ r.latch = t.latch
         /\ r.cnt <= t.cnt \/ r.cnt = t.latch
         /\ "START" \in r.state => "START" \in t.state
         /\ "PHI2IN" \in r.state <=> "PHI2IN" \in t.state
         /\ "CR_ONESHOT" \in r.state <=> "CR_ONESHOT" \in t.state
         /\ r.clk = t.clk
<1> DEFINE i == Inc(t)
           r == Reload(i)
<1>1. i \in Timer /\ i.latch = t.latch /\ i.state = Pipeline(t.state) /\ i.clk = t.clk
      /\ t.cnt \in Nat
      /\ i.cnt = IF t.cnt > 0 /\ "COUNT3" \in t.state THEN t.cnt - 1 ELSE t.cnt
  BY IncIs DEF Timer
<1>2. /\ "START" \in i.state <=> "START" \in t.state
      /\ "PHI2IN" \in i.state <=> "PHI2IN" \in t.state
      /\ "CR_ONESHOT" \in i.state <=> "CR_ONESHOT" \in t.state
  BY <1>1 DEF Pipeline, Given
<1> HIDE DEF i
<1>3. /\ r.latch = i.latch /\ r.clk = i.clk
      /\ r.cnt = IF "LOAD" \in i.state \/ AtZero(i) THEN i.latch ELSE i.cnt
      /\ "START" \in r.state => "START" \in i.state
      /\ "PHI2IN" \in r.state <=> "PHI2IN" \in i.state
      /\ "CR_ONESHOT" \in r.state <=> "CR_ONESHOT" \in i.state
  BY <1>1, Reloaded
<1> HIDE DEF r
<1>4. r.cnt <= t.cnt \/ r.cnt = t.latch
  BY <1>1, <1>3
<1>5. Cycle(t) = r
  BY DEF Cycle, r, i
<1> QED BY <1>1, <1>2, <1>3, <1>4, <1>5

(* Where the control register has put a timer, and within which bounds.    *)
Kept(t, ctl) ==
  /\ t.cnt <= MaxLatch /\ t.latch <= MaxLatch
  /\ "START" \in t.state => "START" \in ctl
  /\ "PHI2IN" \in t.state => "CNT" \notin ctl
  /\ "CR_ONESHOT" \in ctl => "CR_ONESHOT" \in t.state

LEMMA CourseKeeps ==
  ASSUME NEW t \in Timer, NEW ctl, Kept(t, ctl), NEW k \in Nat
  PROVE  Kept(Course(t)[k], ctl) /\ Course(t)[k] \in Timer
<1> DEFINE c == Course(t)
           A == {n \in Nat : Kept(c[n], ctl)}
<1>1. c \in Courses /\ c[0] = t
  BY CourseIs
<1> HIDE DEF c
<1>2. 0 \in A
  BY <1>1
<1>3. ASSUME NEW n \in A PROVE n + 1 \in A
  <2> DEFINE x == c[n]
  <2>1. x \in Timer /\ c[n + 1] = Cycle(x) /\ Kept(x, ctl)
    BY <1>1, CourseStep
  <2> HIDE DEF x
  <2>2. Cycle(x) \in Timer
    BY <2>1, IncIsTimer
  <2>3. LET r == Cycle(x) IN
         /\ r.latch = x.latch
         /\ r.cnt <= x.cnt \/ r.cnt = x.latch
         /\ "START" \in r.state => "START" \in x.state
         /\ "PHI2IN" \in r.state <=> "PHI2IN" \in x.state
         /\ "CR_ONESHOT" \in r.state <=> "CR_ONESHOT" \in x.state
    BY <2>1, CycleKeeps
  <2> DEFINE r == Cycle(x)
  <2> HIDE DEF r
  <2>4. r \in Timer /\ r.latch = x.latch /\ (r.cnt <= x.cnt \/ r.cnt = x.latch)
         /\ ("START" \in r.state => "START" \in x.state)
         /\ ("PHI2IN" \in r.state <=> "PHI2IN" \in x.state)
         /\ ("CR_ONESHOT" \in r.state <=> "CR_ONESHOT" \in x.state)
    BY <2>2, <2>3 DEF r
  <2>5. r.cnt <= MaxLatch
    BY <2>1, <2>4, CiaBusAssumption DEF Kept, Timer
  <2>6. Kept(r, ctl)
    BY <2>1, <2>4, <2>5 DEF Kept
  <2> QED BY <2>1, <2>6 DEF r
<1>4. A = Nat
  <2>1. A \in SUBSET Nat
    OBVIOUS
  <2> HIDE DEF A
  <2> QED BY <1>2, <1>3, <2>1, Inductive
<1>5. k \in A
  BY <1>4
<1> QED BY <1>1, <1>5, CourseStep DEF c

LEMMA KeptByCore ==
  ASSUME NEW t \in Timer, NEW u \in Timer, Core(t) = Core(u), NEW ctl, Kept(t, ctl)
  PROVE  Kept(u, ctl)
<1>1. t.cnt = u.cnt /\ t.latch = u.latch
      /\ \A b : b \notin {"COUNT", "STEP"} => (b \in t.state <=> b \in u.state)
  BY CoreIs
<1> QED BY <1>1 DEF Kept

LEMMA CoursesByCore ==
  ASSUME NEW t \in Timer, NEW u \in Timer, NEW d \in Nat,
         Core(u) = Core(Course(t)[d]), NEW k \in Nat
  PROVE  /\ Core(Course(u)[k]) = Core(Course(t)[d + k])
         /\ AtZero(Inc(Course(u)[k])) = AtZero(Inc(Course(t)[d + k]))
<1> DEFINE c == Course(t)
           e == Course(u)
           A == {n \in Nat : Core(e[n]) = Core(c[d + n])}
<1>1. c \in Courses /\ e \in Courses /\ e[0] = u /\ Core(u) = Core(c[d])
  BY CourseIs
<1> HIDE DEF c, e
<1>2. 0 \in A
  <2>1. d + 0 = d
    OBVIOUS
  <2> QED BY <1>1, <2>1
<1>3. ASSUME NEW n \in Nat, Core(e[n]) = Core(c[d + n])
      PROVE  /\ Core(e[n + 1]) = Core(c[d + (n + 1)])
             /\ AtZero(Inc(e[n])) = AtZero(Inc(c[d + n]))
  <2>1. d + n \in Nat /\ d + (n + 1) = d + n + 1
    OBVIOUS
  <2>2. e[n] \in Timer /\ e[n + 1] = Cycle(e[n])
        /\ c[d + n] \in Timer /\ c[d + n + 1] = Cycle(c[d + n])
    BY <1>1, <2>1, CourseStep
  <2> QED BY <1>3, <2>1, <2>2, CoreDecides
<1>4. A = Nat
  <2>1. \A n \in A : n + 1 \in A
    BY <1>3
  <2>2. A \in SUBSET Nat
    OBVIOUS
  <2> HIDE DEF A
  <2> QED BY <1>2, <2>1, <2>2, Inductive
<1>5. Core(e[k]) = Core(c[d + k])
  BY <1>4
<1> QED BY <1>3, <1>5 DEF c, e

-----------------------------------------------------------------------------
(* The next underflow of a timer, in ticks of the clock.                   *)
Upcoming(t) == NextUnderflow(t, t.clk)
Zero(t, k) == AtZero(Inc(Course(t)[k]))
Silent(t) == \A k \in Nat : ~Zero(t, k)
FirstZero(t, m) == Zero(t, m) /\ \A k \in 0..m - 1 : ~Zero(t, k)

LEMMA UpcomingIs ==
  ASSUME NEW t \in Timer, Regular(t), NEW ctl, Kept(t, ctl)
  PROVE  \/ Silent(t) /\ Upcoming(t) = ClockMax
         \/ \E m \in 0..4 + MaxLatch : FirstZero(t, m) /\ Upcoming(t) = t.clk + (m + 1)
<1> DEFINE a == NextUnderflow(t, t.clk)
<1>1. t.clk \in Int
  BY DEF Timer
<1>2. \/ a = ClockMax /\ Silent(t)
      \/ \E m \in Nat : /\ a = t.clk + (m + 1)
                        /\ FirstZero(t, m)
                        /\ \E i \in 0..Stages : m <= i + Course(t)[i].cnt
  BY <1>1, AlarmIsNextUnderflow DEF Silent, FirstZero, Zero
<1> HIDE DEF a
<1>3. CASE a = ClockMax /\ Silent(t)
  BY <1>3 DEF a, Upcoming
<1>4. ASSUME NEW m \in Nat, a = t.clk + (m + 1), FirstZero(t, m),
             NEW i \in 0..Stages, m <= i + Course(t)[i].cnt
      PROVE  m \in 0..4 + MaxLatch
  <2>1. i \in Nat /\ i <= 4
    BY DEF Stages
  <2>2. Course(t)[i].cnt \in Nat /\ Course(t)[i].cnt <= MaxLatch
    BY <2>1, CourseKeeps DEF Kept, Timer
  <2> QED BY <1>4, <2>1, <2>2, CiaBusAssumption
<1> QED BY <1>2, <1>3, <1>4 DEF a, Upcoming

(* An underflow that is known to come is the one that is foreseen.         *)
LEMMA FirstIsUpcoming ==
  ASSUME NEW t \in Timer, Regular(t), NEW ctl, Kept(t, ctl),
         NEW m \in Nat, FirstZero(t, m)
  PROVE  Upcoming(t) = t.clk + (m + 1)
<1>1. ~Silent(t)
  BY DEF Silent, FirstZero
<1>2. PICK n \in 0..4 + MaxLatch : FirstZero(t, n) /\ Upcoming(t) = t.clk + (n + 1)
  BY <1>1, UpcomingIs
<1>3. n \in Nat
  BY <1>2, CiaBusAssumption
<1>4. n = m
  <2>1. n < m => n \in 0..m - 1
    BY <1>3
  <2>2. m < n => m \in 0..n - 1
    BY <1>3
  <2> QED BY <1>2, <1>3, <2>1, <2>2 DEF FirstZero
<1> QED BY <1>2, <1>4

LEMMA SilentIsUpcoming ==
  ASSUME NEW t \in Timer, Regular(t), NEW ctl, Kept(t, ctl), Silent(t)
  PROVE  Upcoming(t) = ClockMax
<1>1. \A m \in 0..4 + MaxLatch : ~FirstZero(t, m)
  <2>1. ASSUME NEW m \in 0..4 + MaxLatch PROVE ~FirstZero(t, m)
    BY CiaBusAssumption DEF Silent, FirstZero
  <2> QED BY <2>1
<1> QED BY <1>1, UpcomingIs

(* Cycles that pass without an underflow do not move the next.             *)
LEMMA UpcomingStays ==
  ASSUME NEW t \in Timer, Regular(t), NEW u \in Timer, Regular(u), NEW ctl,
         Kept(t, ctl), Kept(u, ctl), NEW d \in Nat,
         Core(u) = Core(Course(t)[d]), u.clk = t.clk + d,
         \A k \in 0..d - 1 : ~Zero(t, k)
  PROVE  Upcoming(u) = Upcoming(t)
<1>1. \A k \in Nat : Zero(u, k) = Zero(t, d + k)
  BY CoursesByCore DEF Zero
<1>2. CASE Silent(t)
  <2>1. Silent(u)
    BY <1>1, <1>2 DEF Silent
  <2> QED BY <1>2, <2>1, SilentIsUpcoming
<1>3. CASE ~Silent(t)
  <2>1. PICK m \in 0..4 + MaxLatch : FirstZero(t, m) /\ Upcoming(t) = t.clk + (m + 1)
    BY <1>3, UpcomingIs
  <2>2. m \in Nat /\ d <= m
    <3>1. m \in Nat
      BY <2>1, CiaBusAssumption
    <3>2. m < d => m \in 0..d - 1
      BY <3>1
    <3> QED BY <2>1, <3>1, <3>2 DEF FirstZero
  <2>3. m - d \in Nat /\ d + (m - d) = m
    BY <2>2
  <2>4. FirstZero(u, m - d)
    <3>1. Zero(u, m - d)
      BY <1>1, <2>1, <2>3 DEF FirstZero
    <3>2. ASSUME NEW k \in 0..(m - d) - 1 PROVE ~Zero(u, k)
      <4>1. k \in Nat /\ d + k \in 0..m - 1
        BY <2>2
      <4> QED BY <1>1, <2>1, <4>1 DEF FirstZero
    <3> QED BY <3>1, <3>2 DEF FirstZero
  <2>5. Upcoming(u) = u.clk + ((m - d) + 1)
    BY <2>3, <2>4, FirstIsUpcoming
  <2>6. t.clk \in Int /\ u.clk \in Int
    BY DEF Timer
  <2> QED BY <2>1, <2>2, <2>5, <2>6
<1> QED BY <1>2, <1>3

(* The clock is moved, and the next underflow with it.                     *)
LEMMA UpcomingMoves ==
  ASSUME NEW t \in Timer, Regular(t), NEW u \in Timer, NEW ctl, Kept(t, ctl),
         u.state = t.state, u.cnt = t.cnt, u.latch = t.latch
  PROVE  /\ Core(u) = Core(t) /\ Regular(u) /\ Kept(u, ctl)
         /\ \/ Upcoming(t) = ClockMax /\ Upcoming(u) = ClockMax
            \/ \E m \in 0..4 + MaxLatch : /\ Upcoming(t) = t.clk + (m + 1)
                                          /\ Upcoming(u) = u.clk + (m + 1)
<1>1. Core(u) = Core(t)
  BY DEF Core
<1>2. Regular(u) /\ Kept(u, ctl)
  BY <1>1, RegularByCore, KeptByCore
<1>3. \A k \in Nat : Zero(u, k) = Zero(t, k)
  <2>1. Core(u) = Core(Course(t)[0])
    BY <1>1, CourseIs
  <2>2. ASSUME NEW k \in Nat PROVE Zero(u, k) = Zero(t, k)
    <3>1. 0 + k = k
      OBVIOUS
    <3> QED BY <2>1, <3>1, CoursesByCore DEF Zero
  <2> QED BY <2>2
<1>4. CASE Silent(t)
  <2>1. Silent(u)
    BY <1>3, <1>4 DEF Silent
  <2> QED BY <1>1, <1>2, <1>4, <2>1, SilentIsUpcoming
<1>5. CASE ~Silent(t)
  <2>1. PICK m \in 0..4 + MaxLatch : FirstZero(t, m) /\ Upcoming(t) = t.clk + (m + 1)
    BY <1>5, UpcomingIs
  <2>2. m \in Nat
    BY <2>1, CiaBusAssumption
  <2>3. FirstZero(u, m)
    BY <1>3, <2>1, <2>2 DEF FirstZero
  <2>4. Upcoming(u) = u.clk + (m + 1)
    BY <1>2, <2>2, <2>3, FirstIsUpcoming
  <2> QED BY <1>1, <1>2, <2>1, <2>4
<1> QED BY <1>4, <1>5

(* A timer that is stopped, counts another input or runs in one-shot mode  *)
(* underflows once at the most.                                            *)
LEMMA LastUnderflow ==
  ASSUME NEW t \in Timer, AtZero(Inc(t)),
         NEW u \in Timer, Regular(u), NEW ctl, Kept(u, ctl), Core(u) = Core(Cycle(t)),
         "START" \notin t.state \/ "PHI2IN" \notin t.state \/ "CR_ONESHOT" \in t.state
  PROVE  Upcoming(u) = ClockMax
<1> DEFINE i == Inc(t)
           r == Reload(i)
<1>1. i \in Timer /\ i.state = Pipeline(t.state) /\ AtZero(i)
  BY IncIs
<1>2. /\ "START" \in i.state <=> "START" \in t.state
      /\ "PHI2IN" \in i.state <=> "PHI2IN" \in t.state
      /\ "ONESHOT0" \in i.state <=> "CR_ONESHOT" \in t.state
      /\ "COUNT2" \in i.state <=> "START" \in t.state /\ "PHI2IN" \in t.state
      /\ "STEP" \notin i.state
  BY <1>1 DEF Pipeline, Given
<1> HIDE DEF i
<1>3. r \in Timer /\ \A b : b \in r.state <=>
              /\ b \in i.state \/ (AtZero(i) /\ b \in {"LOAD", "OUT"})
              /\ b = "COUNT3" => ~("LOAD" \in i.state \/ AtZero(i))
              /\ b \in {"START", "COUNT2"} =>
                   ~(/\ "OUT" \in i.state \/ AtZero(i)
                     /\ "ONESHOT" \in i.state \/ "ONESHOT0" \in i.state)
  BY <1>1, Reloaded
<1> HIDE DEF r
<1>4. /\ "COUNT3" \notin r.state /\ "COUNT2" \notin r.state /\ "STEP" \notin r.state
      /\ "START" \notin r.state \/ "PHI2IN" \notin r.state
  BY <1>1, <1>2, <1>3
<1>5. Cycle(t) = r
  BY DEF Cycle, r, i
<1>6. Idling(r)
  BY <1>4 DEF Idling
<1>7. Idling(u)
  <2>1. (Stepped(u.state) <=> Stepped(r.state))
        /\ \A b : b \notin {"COUNT", "STEP"} => (b \in u.state <=> b \in r.state)
    BY <1>3, <1>5, CoreIs
  <2> QED BY <1>4, <2>1 DEF Idling, Stepped
<1>8. Silent(u)
  <2>1. Course(u) \in Courses /\ Course(u)[0] = u
    BY CourseIs
  <2>2. ASSUME NEW k \in Nat PROVE ~Zero(u, k)
    <3>1. 0 + k = k
      OBVIOUS
    <3> QED BY <1>7, <2>1, <3>1, IdleStays DEF Zero
  <2> QED BY <2>2 DEF Silent
<1> QED BY <1>8, SilentIsUpcoming

-----------------------------------------------------------------------------
(* A timer is brought up to date.  CLOCK_MAX is out of its reach.          *)
Near(t) == t.clk + (5 + MaxLatch) < ClockMax

LEMMA UpcomingLies ==
  ASSUME NEW t \in Timer, Regular(t), NEW ctl, Kept(t, ctl), Near(t)
  PROVE  /\ Upcoming(t) \in Int /\ Upcoming(t) > t.clk
         /\ Upcoming(t) = ClockMax \/ Upcoming(t) <= t.clk + (5 + MaxLatch)
         /\ Upcoming(t) = ClockMax => Silent(t)
<1>1. t.clk \in Int /\ MaxLatch \in Nat /\ ClockMax \in Nat /\ t.clk < ClockMax
  BY CiaBusAssumption, TimerAssumption DEF Near, Timer
<1>2. CASE Silent(t) /\ Upcoming(t) = ClockMax
  BY <1>1, <1>2
<1>3. ASSUME NEW m \in 0..4 + MaxLatch, Upcoming(t) = t.clk + (m + 1)
      PROVE  Upcoming(t) \in Int /\ Upcoming(t) > t.clk
             /\ Upcoming(t) <= t.clk + (5 + MaxLatch) /\ Upcoming(t) < ClockMax
  BY <1>1, <1>3 DEF Near
<1> QED BY <1>1, <1>2, <1>3, UpcomingIs

LEMMA UpdateIs ==
  ASSUME NEW t \in Timer, Regular(t), NEW ctl, Kept(t, ctl), Near(t),
         NEW rclk \in Int
  PROVE  LET u == Update(t, rclk).timer IN
         /\ ~(t.clk < rclk) => Update(t, rclk) = [timer |-> t, n |-> 0]
         /\ Update(t, rclk).n \in Nat
         /\ u \in Timer /\ Regular(u) /\ Kept(u, ctl)
         /\ u.alarmclk = t.alarmclk /\ u.pending = t.pending
         /\ t.clk < rclk => u.clk = rclk /\ Settled(u)
         /\ Upcoming(t) > rclk \/ Upcoming(t) = ClockMax => Upcoming(u) = Upcoming(t)
         /\ /\ t.clk < rclk /\ Upcoming(t) = rclk /\ rclk # ClockMax
            /\ "START" \notin ctl \/ "CNT" \in ctl \/ "CR_ONESHOT" \in ctl
            => Upcoming(u) = ClockMax
<1> DEFINE u == Update(t, rclk).timer
           d == rclk - t.clk
           c == Course(t)
<1>1. t.clk \in Int
  BY DEF Timer
<1>2. CASE ~(t.clk < rclk)
  <2>1. Update(t, rclk) = Turns(t, rclk)[0]
    BY <1>2 DEF Update
  <2>2. Update(t, rclk) = [timer |-> t, n |-> 0]
    <3> DEFINE x == [timer |-> t, n |-> 0]
               Is(f) == f = [k \in Nat |-> IF k = 0 THEN [timer |-> t, n |-> 0]
                                           ELSE Turn(f[k - 1], rclk)]
               h == CHOOSE f : Is(f)
               g == [k \in Nat |-> x]
    <3>1. Turn(x, rclk) = x
      BY <1>1, <1>2 DEF Turn
    <3>2. Is(g)
      <4>1. \A k \in Nat : g[k] = IF k = 0 THEN x ELSE Turn(g[k - 1], rclk)
        BY <3>1
      <4> QED BY <4>1
    <3>3. Turns(t, rclk) = h
      BY DEF Turns
    <3>4. Is(h)
      BY <3>2
    <3> HIDE DEF h
    <3>5. h[0] = x
      BY <3>4
    <3> QED BY <2>1, <3>3, <3>5
  <2>3. Update(t, rclk).n = 0 /\ Update(t, rclk).timer = t
    BY <2>2
  <2> QED BY <1>2, <2>2, <2>3
<1>3. CASE t.clk < rclk
  <2>1. d \in Nat /\ d > 0 /\ t.clk <= rclk /\ rclk = t.clk + d
    BY <1>1, <1>3
  <2>2. /\ u \in Timer /\ u.clk = rclk
        /\ Core(u) = Core(c[d])
        /\ Update(t, rclk).n = Underflown(c, d)
        /\ Settled(u)
        /\ u.alarmclk = t.alarmclk /\ u.pending = t.pending
    BY <2>1, UpdateIsReplay
  <2> HIDE DEF u, d
  <2>3. Underflown(c, d) \in Nat
    BY <2>1, CourseIs, CourseStep
  <2>4. Regular(u)
    BY <2>2, SettledIsRegular
  <2>5. Kept(c[d], ctl) /\ c[d] \in Timer
    BY <2>1, CourseKeeps
  <2>6. Kept(u, ctl)
    BY <2>2, <2>5, KeptByCore
  <2>7. ASSUME Upcoming(t) > rclk \/ Upcoming(t) = ClockMax
        PROVE  Upcoming(u) = Upcoming(t)
    <3>1. \A k \in 0..d - 1 : ~Zero(t, k)
      <4>1. CASE Silent(t)
        BY <2>1, <4>1 DEF Silent
      <4>2. CASE ~Silent(t)
        <5>1. PICK m \in 0..4 + MaxLatch : FirstZero(t, m) /\ Upcoming(t) = t.clk + (m + 1)
          BY <4>2, UpcomingIs
        <5>2. m \in Nat /\ d <= m
          <6>1. Upcoming(t) > rclk
            BY <2>7, <4>2, UpcomingLies
          <6> QED BY <1>1, <2>1, <5>1, <6>1, CiaBusAssumption
        <5>3. \A k \in 0..d - 1 : k \in 0..m - 1
          BY <2>1, <5>2
        <5> QED BY <5>1, <5>3 DEF FirstZero
      <4> QED BY <4>1, <4>2
    <3> QED BY <2>1, <2>2, <2>4, <2>6, <3>1, UpcomingStays
  <2>8. ASSUME Upcoming(t) = rclk, rclk # ClockMax,
               "START" \notin ctl \/ "CNT" \in ctl \/ "CR_ONESHOT" \in ctl
        PROVE  Upcoming(u) = ClockMax
    <3>1. PICK m \in 0..4 + MaxLatch : FirstZero(t, m) /\ Upcoming(t) = t.clk + (m + 1)
      BY <2>8, UpcomingIs
    <3>2. m \in Nat /\ d = m + 1
      BY <1>1, <2>1, <2>8, <3>1, CiaBusAssumption
    <3>3. c[m] \in Timer /\ c[m + 1] = Cycle(c[m])
      BY <3>2, CourseIs, CourseStep
    <3> DEFINE x == c[m]
    <3>4. x \in Timer /\ Kept(x, ctl)
      BY <3>2, CourseKeeps
    <3>5. AtZero(Inc(x)) /\ Core(u) = Core(Cycle(x))
      BY <2>2, <3>1, <3>2, <3>3 DEF FirstZero, Zero
    <3> HIDE DEF x
    <3>6. "START" \notin x.state \/ "PHI2IN" \notin x.state \/ "CR_ONESHOT" \in x.state
      BY <2>8, <3>4 DEF Kept
    <3> QED BY <2>2, <2>4, <2>6, <3>4, <3>5, <3>6, LastUnderflow
  <2> QED BY <1>3, <2>2, <2>3, <2>4, <2>6, <2>7, <2>8 DEF u
<1> QED BY <1>2, <1>3

(* A timer as the program and the emulator find it at tick now.            *)
Held(t, ctl, now) ==
  /\ t \in Timer /\ t.clk \in 0..now
  /\ Regular(t) /\ (t.clk = now => Settled(t))
  /\ Kept(t, ctl)

(* Its alarm, if one is set, is at the next underflow, and the context     *)
(* knows it.                                                               *)
Agreed(t) == t.pending = t.alarmclk /\ t.alarmclk \in {Upcoming(t), ClockMax}

(* As far as the clock gets.                                               *)
LastClk == LastTick - 9 - MaxLatch

LEMMA HeldIsNear ==
  ASSUME NEW t, NEW ctl, NEW now \in 0..LastClk, Held(t, ctl, now)
  PROVE  Near(t) /\ t \in Timer /\ t.clk \in Nat /\ t.clk <= now /\ now \in Nat
         /\ Regular(t) /\ Kept(t, ctl) /\ LastClk \in Nat /\ now < ClockMax
<1>1. LastClk \in Nat /\ LastClk + 9 + MaxLatch < ClockMax
  BY CiaAssumption, CiaBusAssumption DEF LastClk, LastTick
<1>2. now \in Nat /\ t.clk \in Nat /\ t.clk <= now
  BY <1>1 DEF Held
<1> QED BY <1>1, <1>2, CiaBusAssumption, TimerAssumption DEF Held, Near

LEMMA HeldUntil ==
  ASSUME NEW t, NEW ctl, NEW now \in Nat, NEW later \in Nat, Held(t, ctl, now),
         now < later
  PROVE  Held(t, ctl, later)
BY DEF Held

(* An update before the alarm leaves it where it is.                       *)
LEMMA UpdateHolds ==
  ASSUME NEW t, NEW ctl, NEW now \in 0..LastClk, Held(t, ctl, now), Agreed(t),
         NEW rclk \in 0..now, rclk < t.alarmclk
  PROVE  LET u == Update(t, rclk).timer IN
         /\ Held(u, ctl, now) /\ Agreed(u)
         /\ u.clk = IF t.clk < rclk THEN rclk ELSE t.clk
         /\ u.alarmclk = t.alarmclk
         /\ t.alarmclk = Upcoming(t) => u.alarmclk = Upcoming(u)
<1> DEFINE u == Update(t, rclk).timer
<1>1. Near(t) /\ t \in Timer /\ t.clk \in Nat /\ t.clk <= now /\ now \in Nat
      /\ Regular(t) /\ Kept(t, ctl) /\ rclk \in Nat /\ rclk <= now /\ now < ClockMax
  BY HeldIsNear
<1>2. /\ ~(t.clk < rclk) => u = t
      /\ u \in Timer /\ Regular(u) /\ Kept(u, ctl)
      /\ u.alarmclk = t.alarmclk /\ u.pending = t.pending
      /\ t.clk < rclk => u.clk = rclk /\ Settled(u)
      /\ Upcoming(t) > rclk \/ Upcoming(t) = ClockMax => Upcoming(u) = Upcoming(t)
  BY <1>1, UpdateIs
<1> HIDE DEF u
<1>3. u.clk = IF t.clk < rclk THEN rclk ELSE t.clk
  BY <1>1, <1>2
<1>4. Held(u, ctl, now)
  BY <1>1, <1>2, <1>3 DEF Held
<1>5. t.alarmclk = Upcoming(t) => Upcoming(u) = Upcoming(t)
  <2>1. Upcoming(t) \in Int
    BY <1>1, UpcomingLies
  <2> QED BY <1>1, <1>2, <2>1
<1>6. Agreed(u)
  BY <1>2, <1>5 DEF Agreed
<1> QED BY <1>2, <1>3, <1>4, <1>5, <1>6 DEF u

(* An update that does not move the clock of the timer does nothing.       *)
LEMMA NothingToReplay ==
  ASSUME NEW t, NEW ctl, NEW now \in 0..LastClk, Held(t, ctl, now),
         NEW rclk \in 0..now, ~(t.clk < rclk)
  PROVE  Update(t, rclk) = [timer |-> t, n |-> 0]
<1>1. Near(t) /\ t \in Timer /\ Regular(t) /\ Kept(t, ctl)
  BY HeldIsNear
<1> QED BY <1>1, UpdateIs

LEMMA UpdateCounts ==
  ASSUME NEW t, NEW ctl, NEW now \in 0..LastClk, Held(t, ctl, now), NEW rclk \in 0..now
  PROVE  Update(t, rclk).n \in Nat
<1>1. Near(t) /\ t \in Timer /\ Regular(t) /\ Kept(t, ctl) /\ rclk \in Int
  BY HeldIsNear
<1> QED BY <1>1, UpdateIs

(* Alarms lie ahead of the timer's clock, but not far.                     *)
LEMMA AlarmLies ==
  ASSUME NEW t, NEW ctl, NEW now \in 0..LastClk, Held(t, ctl, now), Agreed(t)
  PROVE  /\ t.alarmclk \in Nat /\ t.alarmclk > t.clk
         /\ t.alarmclk = ClockMax \/ t.alarmclk \in 1..now + (5 + MaxLatch)
         /\ t.alarmclk <= now => t.alarmclk = Upcoming(t)
<1>1. Near(t) /\ t \in Timer /\ t.clk \in Nat /\ t.clk <= now /\ now \in Nat
      /\ Regular(t) /\ Kept(t, ctl) /\ now < ClockMax
  BY HeldIsNear
<1>2. /\ Upcoming(t) \in Int /\ Upcoming(t) > t.clk
      /\ Upcoming(t) = ClockMax \/ Upcoming(t) <= t.clk + (5 + MaxLatch)
  BY <1>1, UpcomingLies
<1>3. ClockMax \in Nat /\ MaxLatch \in Nat
  BY TimerAssumption, CiaBusAssumption
<1> QED BY <1>1, <1>2, <1>3 DEF Agreed

(* The alarm is set.                                                       *)
LEMMA AlarmAtIs ==
  ASSUME NEW t \in Timer, NEW x \in Int
  PROVE  LET a == AlarmAt(t, x) IN
         /\ a \in Timer /\ a.clk = t.clk /\ a.state = t.state /\ a.cnt = t.cnt
         /\ a.latch = t.latch /\ a.alarmclk = x /\ a.pending = x
BY DEF AlarmAt, Timer

LEMMA AlarmAtHolds ==
  ASSUME NEW t, NEW ctl, NEW now \in 0..LastClk, Held(t, ctl, now), NEW x \in Int
  PROVE  LET a == AlarmAt(t, x) IN
         Held(a, ctl, now) /\ Upcoming(a) = Upcoming(t) /\ a.clk = t.clk
         /\ a.alarmclk = x /\ a.pending = x
<1> DEFINE a == AlarmAt(t, x)
<1>1. t \in Timer /\ t.clk \in Nat /\ Regular(t) /\ Kept(t, ctl)
  BY HeldIsNear
<1>2. /\ a \in Timer /\ a.clk = t.clk /\ a.state = t.state /\ a.cnt = t.cnt
      /\ a.latch = t.latch /\ a.alarmclk = x /\ a.pending = x
  BY <1>1, AlarmAtIs
<1> HIDE DEF a
<1>3. Upcoming(a) = Upcoming(t) /\ Regular(a) /\ Kept(a, ctl) /\ Core(a) = Core(t)
  BY <1>1, <1>2, UpcomingMoves
<1>4. Settled(t) => Settled(a)
  BY <1>2 DEF Settled
<1>5. Held(a, ctl, now)
  BY <1>2, <1>3, <1>4 DEF Held
<1> QED BY <1>2, <1>3, <1>5 DEF a

LEMMA SetAlarmHolds ==
  ASSUME NEW t, NEW ctl, NEW now \in 0..LastClk, Held(t, ctl, now)
  PROVE  LET a == SetAlarm(t) IN
         Held(a, ctl, now) /\ Agreed(a) /\ a.alarmclk = Upcoming(a) /\ a.clk = t.clk
<1>1. Near(t) /\ t \in Timer /\ Regular(t) /\ Kept(t, ctl)
  BY HeldIsNear
<1>2. Upcoming(t) \in Int
  BY <1>1, UpcomingLies
<1>3. SetAlarm(t) = AlarmAt(t, Upcoming(t))
  BY DEF SetAlarm, Upcoming
<1> QED BY <1>2, <1>3, AlarmAtHolds DEF Agreed

(* The alarm goes off: the timer is brought up to its tick, and another    *)
(* underflow follows only if the timer goes on by itself.                  *)
LEMMA AlarmServed ==
  ASSUME NEW t, NEW ctl, NEW now \in 0..LastClk, Held(t, ctl, now), Agreed(t),
         t.alarmclk <= now
  PROVE  LET a == AckAlarm(Update(t, t.alarmclk).timer) IN
         /\ Held(a, ctl, now) /\ Agreed(a) /\ a.clk = t.alarmclk
         /\ a.alarmclk = ClockMax
         /\ "START" \notin ctl \/ "CNT" \in ctl \/ "CR_ONESHOT" \in ctl
              => Upcoming(a) = ClockMax
<1> DEFINE rclk == t.alarmclk
           u == Update(t, rclk).timer
           a == AckAlarm(u)
<1>1. Near(t) /\ t \in Timer /\ t.clk \in Nat /\ t.clk <= now /\ now \in Nat
      /\ Regular(t) /\ Kept(t, ctl) /\ now < ClockMax /\ ClockMax \in Nat
  BY HeldIsNear, TimerAssumption
<1>2. rclk \in Nat /\ rclk > t.clk /\ rclk = Upcoming(t) /\ rclk <= now
  BY AlarmLies
<1> HIDE DEF rclk
<1>3. /\ u \in Timer /\ Regular(u) /\ Kept(u, ctl)
      /\ u.clk = rclk /\ Settled(u)
      /\ "START" \notin ctl \/ "CNT" \in ctl \/ "CR_ONESHOT" \in ctl
            => Upcoming(u) = ClockMax
  BY <1>1, <1>2, UpdateIs
<1> HIDE DEF u
<1>4. Held(u, ctl, now)
  BY <1>1, <1>2, <1>3 DEF Held
<1>5. a = AlarmAt(u, ClockMax)
  BY DEF AckAlarm
<1> HIDE DEF a
<1>6. Held(a, ctl, now) /\ Upcoming(a) = Upcoming(u) /\ a.clk = u.clk
      /\ a.alarmclk = ClockMax /\ a.pending = ClockMax
  <2>1. ClockMax \in Int
    BY <1>1
  <2> QED BY <1>4, <1>5, <2>1, AlarmAtHolds
<1> QED BY <1>3, <1>6 DEF Agreed, a, u, rclk

(* The stores to the registers of a timer that is up to date.              *)
LEMMA LatchLoHolds ==
  ASSUME NEW t, NEW ctl, NEW now \in 0..LastClk, Held(t, ctl, now), t.clk = now,
         NEW byte \in 0..MaxLatch
  PROVE  Held(WithLatchLo(t, byte), ctl, now + 1)
<1> DEFINE r == WithLatchLo(t, byte)
           n == IF "LOAD" \in t.state THEN byte ELSE t.cnt
<1>1. t \in Timer /\ Settled(t) /\ Kept(t, ctl) /\ now \in Nat /\ byte \in Nat
      /\ byte <= MaxLatch
  BY HeldIsNear, CiaBusAssumption DEF Held
<1>2. r \in Timer /\ Regular(r)
  BY <1>1, StoresStayRegular
<1>3. r = [t EXCEPT !.latch = byte, !.cnt = n]
  BY DEF WithLatchLo
<1>4. n <= MaxLatch
  BY <1>1 DEF Kept
<1> HIDE DEF r, n
<1>5. r.latch = byte /\ r.cnt = n /\ r.state = t.state /\ r.clk = t.clk
  BY <1>1, <1>3 DEF Timer
<1>6. Kept(r, ctl)
  BY <1>1, <1>4, <1>5 DEF Kept
<1> QED BY <1>1, <1>2, <1>5, <1>6 DEF Held, r

LEMMA LatchHiHolds ==
  ASSUME NEW t, NEW ctl, NEW now \in 0..LastClk, Held(t, ctl, now), t.clk = now
  PROVE  Held(WithLatchHi(t), ctl, now + 1)
<1> DEFINE r == WithLatchHi(t)
           n == IF "LOAD" \in t.state \/ "START" \notin t.state THEN t.latch ELSE t.cnt
<1>1. t \in Timer /\ Settled(t) /\ Kept(t, ctl) /\ now \in Nat
  BY HeldIsNear DEF Held
<1>2. r \in Timer /\ Regular(r)
  BY <1>1, StoresStayRegular
<1>3. r = [t EXCEPT !.cnt = n]
  BY DEF WithLatchHi
<1>4. n <= MaxLatch
  BY <1>1 DEF Kept
<1> HIDE DEF r, n
<1>5. r.latch = t.latch /\ r.cnt = n /\ r.state = t.state /\ r.clk = t.clk
  BY <1>1, <1>3 DEF Timer
<1>6. Kept(r, ctl)
  BY <1>1, <1>4, <1>5 DEF Kept
<1> QED BY <1>1, <1>2, <1>5, <1>6 DEF Held, r

LEMMA ControlHolds ==
  ASSUME NEW t, NEW old, NEW now \in 0..LastClk, Held(t, old, now), t.clk = now,
         NEW byte, NEW ctl,
         "START" \in byte => "START" \in ctl,
         "CNT" \notin byte => "CNT" \notin ctl,
         "CR_ONESHOT" \in ctl => "CR_ONESHOT" \in byte
  PROVE  Held(WithControl(t, byte), ctl, now + 1)
<1> DEFINE r == WithControl(t, byte)
           s == (t.state \ {"START", "CR_ONESHOT", "FLOAD", "PHI2IN"})
                \cup (byte \cap {"START", "CR_ONESHOT", "FLOAD"})
                \cup Given("CNT" \notin byte, {"PHI2IN"})
<1>1. t \in Timer /\ Settled(t) /\ Kept(t, old) /\ now \in Nat
  BY HeldIsNear DEF Held
<1>2. r \in Timer /\ Regular(r)
  BY <1>1, StoresStayRegular
<1>3. r = [t EXCEPT !.state = s]
  BY DEF WithControl
<1>4. /\ "START" \in s => "START" \in byte
      /\ "PHI2IN" \in s => "CNT" \notin byte
      /\ "CR_ONESHOT" \in byte => "CR_ONESHOT" \in s
  BY DEF Given
<1> HIDE DEF r, s
<1>5. r.latch = t.latch /\ r.cnt = t.cnt /\ r.state = s /\ r.clk = t.clk
  BY <1>1, <1>3 DEF Timer
<1>6. Kept(r, ctl)
  BY <1>1, <1>4, <1>5 DEF Kept
<1> QED BY <1>1, <1>2, <1>5, <1>6 DEF Held, r

LEMMA StepHolds ==
  ASSUME NEW t, NEW ctl, NEW now \in 0..LastClk, Held(t, ctl, now)
  PROVE  Held(WithStep(t), ctl, now) /\ WithStep(t).clk = t.clk
<1> DEFINE r == WithStep(t)
           s == t.state \cup Given("START" \in t.state, {"STEP"})
<1>1. t \in Timer /\ Kept(t, ctl) /\ Regular(t) /\ now \in Nat /\ t.clk \in 0..now
      /\ (t.clk = now => Settled(t))
  BY HeldIsNear DEF Held
<1>2. r = [t EXCEPT !.state = s]
  BY DEF WithStep
<1>3. s \in SUBSET Bits /\ \A b : b # "STEP" => (b \in s <=> b \in t.state)
  BY <1>1 DEF Given, Bits, Timer
<1> HIDE DEF r, s
<1>4. r \in Timer /\ r.latch = t.latch /\ r.cnt = t.cnt /\ r.state = s /\ r.clk = t.clk
  BY <1>1, <1>2, <1>3 DEF Timer
<1>5. Kept(r, ctl) /\ Regular(r) /\ (Settled(t) => Settled(r))
  BY <1>1, <1>3, <1>4 DEF Kept, Regular, Settled
<1> QED BY <1>1, <1>4, <1>5 DEF Held, r

(* Timer B is stepped.                                                     *)
LEMMA SingleStepHolds ==
  ASSUME NEW t, NEW ctl, NEW now \in 0..LastClk, Held(t, ctl, now), Agreed(t)
  PROVE  LET r == SingleStep(t) IN
         /\ Held(r, ctl, now) /\ Agreed(r)
         /\ t.alarmclk = Upcoming(t) => r.alarmclk = Upcoming(r)
<1>1. CASE "START" \in t.state
  <2>1. SingleStep(t) = SetAlarm(WithStep(t))
    BY <1>1 DEF SingleStep
  <2> QED BY <2>1, StepHolds, SetAlarmHolds
<1>2. CASE "START" \notin t.state
  BY <1>2 DEF SingleStep
<1> QED BY <1>1, <1>2

(* The clock is moved back.                                                *)
Moved(t) == WarpAlarm(PreventClockOverflow(t, OverflowSub))

LEMMA MovedHolds ==
  ASSUME NEW t, NEW ctl, NEW now \in 0..LastClk, Held(t, ctl, now), Agreed(t),
         t.clk = now, OverflowSub < now
  PROVE  /\ Held(Moved(t), ctl, now - OverflowSub) /\ Agreed(Moved(t))
         /\ t.alarmclk = Upcoming(t) => Moved(t).alarmclk = Upcoming(Moved(t))
<1> DEFINE p == PreventClockOverflow(t, OverflowSub)
           m == WarpAlarm(p)
           a == IF t.alarmclk < ClockMax THEN t.alarmclk - OverflowSub ELSE ClockMax
<1>1. Near(t) /\ t \in Timer /\ t.clk \in Nat /\ now \in Nat /\ Regular(t)
      /\ Kept(t, ctl) /\ now < ClockMax /\ ClockMax \in Nat /\ Settled(t)
      /\ OverflowSub \in Nat
  BY HeldIsNear, TimerAssumption, CiaAssumption DEF Held
<1>2. t.alarmclk \in Nat /\ t.pending = t.alarmclk /\ a \in Int
      /\ (t.alarmclk = ClockMax \/ t.alarmclk < ClockMax)
  <2>1. t.alarmclk = ClockMax \/ t.alarmclk \in 1..now + (5 + MaxLatch)
    BY AlarmLies
  <2>2. t.alarmclk \in Nat
    BY AlarmLies
  <2> QED BY <1>1, <2>1, <2>2, CiaBusAssumption DEF Agreed, Near
<1>3. p \in Timer /\ p.clk = now - OverflowSub /\ p.alarmclk = a
      /\ p.state = t.state /\ p.cnt = t.cnt /\ p.latch = t.latch
      /\ p.pending = t.pending
  <2>1. p = [t EXCEPT !.clk = t.clk - OverflowSub, !.alarmclk = a]
    BY DEF PreventClockOverflow
  <2>2. t.clk - OverflowSub \in Int
    BY <1>1
  <2> HIDE DEF p, a
  <2> QED BY <1>1, <1>2, <2>1, <2>2 DEF Timer
<1> HIDE DEF p
<1>4. m \in Timer /\ m.clk = p.clk /\ m.alarmclk = a /\ m.pending = a
      /\ m.state = t.state /\ m.cnt = t.cnt /\ m.latch = t.latch
  <2>1. m = [p EXCEPT !.pending = IF p.pending < ClockMax THEN p.pending - OverflowSub
                                                          ELSE p.pending]
    BY DEF WarpAlarm
  <2>2. a = IF p.pending < ClockMax THEN p.pending - OverflowSub ELSE p.pending
    BY <1>2, <1>3
  <2>3. m = [p EXCEPT !.pending = a]
    BY <2>1, <2>2
  <2> HIDE DEF m, a
  <2> QED BY <1>2, <1>3, <2>3 DEF Timer
<1> HIDE DEF m
<1>5. Regular(m) /\ Kept(m, ctl) /\ Settled(m)
      /\ \/ Upcoming(t) = ClockMax /\ Upcoming(m) = ClockMax
         \/ \E k \in 0..4 + MaxLatch : /\ Upcoming(t) = t.clk + (k + 1)
                                       /\ Upcoming(m) = m.clk + (k + 1)
  <2>1. Settled(m)
    BY <1>1, <1>4 DEF Settled
  <2> QED BY <1>1, <1>4, <2>1, UpcomingMoves
<1>6. Held(m, ctl, now - OverflowSub)
  <2>1. now - OverflowSub \in Nat
    BY <1>1
  <2>2. m.clk = now - OverflowSub /\ now - OverflowSub \in 0..now - OverflowSub
    BY <1>3, <1>4, <2>1
  <2> QED BY <1>4, <1>5, <2>2 DEF Held
<1>7. t.alarmclk = Upcoming(t) => a = Upcoming(m)
  <2>1. SUFFICES ASSUME t.alarmclk = Upcoming(t) PROVE a = Upcoming(m)
    OBVIOUS
  <2>2. CASE Upcoming(t) = ClockMax /\ Upcoming(m) = ClockMax
    BY <1>1, <2>1, <2>2
  <2>3. ASSUME NEW k \in 0..4 + MaxLatch, Upcoming(t) = t.clk + (k + 1),
               Upcoming(m) = m.clk + (k + 1)
        PROVE  a = Upcoming(m)
    <3>1. k \in Nat /\ k <= 4 + MaxLatch
      BY CiaBusAssumption
    <3>2. t.alarmclk < ClockMax
      BY <1>1, <2>1, <2>3, <3>1, CiaBusAssumption DEF Near
    <3> QED BY <1>1, <1>3, <1>4, <2>1, <2>3, <3>1, <3>2
  <2> QED BY <1>5, <2>2, <2>3
<1>8. a \in {Upcoming(m), ClockMax}
  <2>1. CASE t.alarmclk = Upcoming(t)
    BY <1>7, <2>1
  <2>2. CASE t.alarmclk = ClockMax
    BY <1>1, <2>2
  <2> QED BY <2>1, <2>2 DEF Agreed
<1>9. Agreed(m)
  BY <1>4, <1>8 DEF Agreed
<1> QED BY <1>4, <1>6, <1>7, <1>9 DEF Moved, m, p

LEMMA LoadHolds ==
  ASSUME NEW t, NEW ctl, NEW now \in 0..LastClk, Held(t, ctl, now), t.clk = now
  PROVE  LET r == LoadSnapshot(t, now) IN
         Held(r, ctl, now) /\ Agreed(r) /\ r.alarmclk = Upcoming(r)
<1>1. t \in Timer
  BY HeldIsNear
<1>2. [t EXCEPT !.clk = now] = t
  BY <1>1 DEF Timer
<1> QED BY <1>2, SetAlarmHolds DEF LoadSnapshot

-----------------------------------------------------------------------------
(* The chip at tick now; R is where the value read last is.                *)
Shapes(now, R) ==
  [model : Models, ta : Timer, tb : Timer, mask : SUBSET Sources,
   irqflags : SUBSET (Flags \cup {"TBB"}), cra : SUBSET ControlBits,
   crb : SUBSET ControlBits, tat : {0, 1}, tbt : {0, 1}, rdi : 0..now,
   line : BOOLEAN, int_clk : 0..now + 3, last_read : R]

(* A timer that is to be stopped underflows once more at the most, and its *)
(* alarm is set to that.                                                   *)
WantedA(c) == NeededA(c) \/ "START" \notin c.cra
WantedB(c) == NeededB(c) \/ "START" \notin c.crb

SideA(c, now) == /\ Held(c.ta, c.cra, now) /\ Agreed(c.ta)
                 /\ WantedA(c) => c.ta.alarmclk = Upcoming(c.ta)

SideB(c, now) == /\ Held(c.tb, InputB(c.crb), now) /\ Agreed(c.tb)
                 /\ WantedB(c) => c.tb.alarmclk = Upcoming(c.tb)

Sound(c, now, R) == c \in Shapes(now, R) /\ SideA(c, now) /\ SideB(c, now)

SameControl(c, d) == d.mask = c.mask /\ d.cra = c.cra /\ d.crb = c.crb

LEMMA SideAStays ==
  ASSUME NEW c, NEW d, NEW now, SideA(c, now), d.ta = c.ta, SameControl(c, d),
         "IR" \in c.irqflags => "IR" \in d.irqflags
  PROVE  SideA(d, now)
BY DEF SideA, WantedA, NeededA, SameControl

LEMMA SideBStays ==
  ASSUME NEW c, NEW d, NEW now, SideB(c, now), d.tb = c.tb, SameControl(c, d)
  PROVE  SideB(d, now)
BY DEF SideB, WantedB, NeededB, SameControl

(* What the operators of the chip change, field by field.                  *)
LEMMA WithTA ==
  ASSUME NEW now, NEW R, NEW c \in Shapes(now, R), NEW t \in Timer
  PROVE  LET d == [c EXCEPT !.ta = t] IN
         /\ d \in Shapes(now, R) /\ d.ta = t /\ d.tb = c.tb /\ SameControl(c, d)
         /\ d.irqflags = c.irqflags
BY DEF Shapes, SameControl

LEMMA WithTB ==
  ASSUME NEW now, NEW R, NEW c \in Shapes(now, R), NEW t \in Timer
  PROVE  LET d == [c EXCEPT !.tb = t] IN
         /\ d \in Shapes(now, R) /\ d.tb = t /\ d.ta = c.ta /\ SameControl(c, d)
         /\ d.irqflags = c.irqflags
BY DEF Shapes, SameControl

LEMMA UpdatedTAIs ==
  ASSUME NEW now, NEW R, NEW c \in Shapes(now, R), NEW u, u.timer \in Timer, u.n \in Nat
  PROVE  LET d == UpdatedTA(c, u) IN
         /\ d \in Shapes(now, R) /\ d.ta = u.timer /\ d.tb = c.tb /\ SameControl(c, d)
         /\ "IR" \in c.irqflags <=> "IR" \in d.irqflags
<1> DEFINE d == UpdatedTA(c, u)
           f == c.irqflags \cup {"TA"}
           n == (c.tat + u.n) % 2
<1>1. CASE u.n = 0
  <2>1. d = [c EXCEPT !.ta = u.timer]
    BY <1>1 DEF UpdatedTA
  <2> QED BY <2>1, WithTA
<1>2. CASE u.n # 0
  <2>1. d = [c EXCEPT !.ta = u.timer, !.irqflags = f, !.tat = n]
    BY <1>2 DEF UpdatedTA
  <2>2. f \in SUBSET (Flags \cup {"TBB"}) /\ ("IR" \in c.irqflags <=> "IR" \in f)
    BY DEF Shapes, Flags, Sources
  <2>3. n \in {0, 1}
    <3>1. c.tat + u.n \in Nat
      BY DEF Shapes
    <3> QED BY <3>1
  <2> HIDE DEF d, f, n
  <2> DEFINE t == u.timer
  <2>4. t \in Timer
    OBVIOUS
  <2> HIDE DEF t
  <2>5. d = [c EXCEPT !.ta = t, !.irqflags = f, !.tat = n]
    BY <2>1 DEF t
  <2>6. /\ d \in Shapes(now, R) /\ d.ta = t /\ d.tb = c.tb /\ SameControl(c, d)
        /\ d.irqflags = f
    BY <2>2, <2>3, <2>4, <2>5 DEF Shapes, SameControl
  <2> QED BY <2>2, <2>6 DEF d, t
<1> QED BY <1>1, <1>2

LEMMA UpdatedTBIs ==
  ASSUME NEW now, NEW R, NEW c \in Shapes(now, R), NEW u, u.timer \in Timer, u.n \in Nat,
         NEW bug
  PROVE  LET d == UpdatedTB(c, u, bug) IN
         /\ d \in Shapes(now, R) /\ d.tb = u.timer /\ d.ta = c.ta /\ SameControl(c, d)
         /\ "IR" \in c.irqflags <=> "IR" \in d.irqflags
<1> DEFINE d == UpdatedTB(c, u, bug)
           f == (c.irqflags \ {"TBB"}) \cup {"TB"} \cup Given(bug, {"TBB"})
           n == (c.tbt + u.n) % 2
<1>1. CASE u.n = 0
  <2>1. d = [c EXCEPT !.tb = u.timer]
    BY <1>1 DEF UpdatedTB
  <2> QED BY <2>1, WithTB
<1>2. CASE u.n # 0
  <2>1. d = [c EXCEPT !.tb = u.timer, !.irqflags = f, !.tbt = n]
    BY <1>2 DEF UpdatedTB
  <2>2. f \in SUBSET (Flags \cup {"TBB"}) /\ ("IR" \in c.irqflags <=> "IR" \in f)
    BY DEF Shapes, Flags, Sources, Given
  <2>3. n \in {0, 1}
    <3>1. c.tbt + u.n \in Nat
      BY DEF Shapes
    <3> QED BY <3>1
  <2> HIDE DEF d, f, n
  <2> DEFINE t == u.timer
  <2>4. t \in Timer
    OBVIOUS
  <2> HIDE DEF t
  <2>5. d = [c EXCEPT !.tb = t, !.irqflags = f, !.tbt = n]
    BY <2>1 DEF t
  <2>6. /\ d \in Shapes(now, R) /\ d.tb = t /\ d.ta = c.ta /\ SameControl(c, d)
        /\ d.irqflags = f
    BY <2>2, <2>3, <2>4, <2>5 DEF Shapes, SameControl
  <2> QED BY <2>2, <2>6 DEF d, t
<1> QED BY <1>1, <1>2

LEMMA DoSetIntIs ==
  ASSUME NEW now \in Nat, NEW R, NEW c \in Shapes(now, R), NEW rclk \in 0..now + 1
  PROVE  LET d == DoSetInt(c, rclk) IN
         /\ d \in Shapes(now, R) /\ d.ta = c.ta /\ d.tb = c.tb /\ SameControl(c, d)
         /\ "IR" \in c.irqflags => "IR" \in d.irqflags
<1> DEFINE new == c.model = "6526A"
           tick == IF new /\ c.rdi = rclk - 1 THEN rclk + 1 ELSE rclk
           shownflags == c.irqflags \cap c.mask # {}
           lost == Given("TBB" \in c.irqflags, {"TBB", "TB"})
           d == DoSetInt(c, rclk)
           x == LineClk(c, tick)
           i == IF c.line THEN c.int_clk ELSE x
           f == (c.irqflags \ lost) \cup {"IR"}
           e == [c EXCEPT !.line = TRUE, !.int_clk = i]
<1>1. i \in 0..now + 3
  <2>1. x \in 0..now + 3
    BY DEF LineClk
  <2> HIDE DEF x
  <2> QED BY <2>1 DEF Shapes
<1>2. f \in SUBSET (Flags \cup {"TBB"}) /\ "IR" \in f
  BY DEF Shapes, Flags
<1>3. d = IF ~shownflags \/ (~new /\ c.rdi = tick) THEN c ELSE [e EXCEPT !.irqflags = f]
  BY DEF DoSetInt, SetInt
<1> HIDE DEF i, f, shownflags, new, d, tick
<1>4. e \in Shapes(now, R) /\ e.ta = c.ta /\ e.tb = c.tb /\ SameControl(c, e)
  BY <1>1 DEF Shapes, SameControl
<1> HIDE DEF e
<1>5. LET g == [e EXCEPT !.irqflags = f] IN
      /\ g \in Shapes(now, R) /\ g.ta = c.ta /\ g.tb = c.tb /\ SameControl(c, g)
      /\ g.irqflags = f
  BY <1>2, <1>4 DEF Shapes, SameControl
<1>6. SameControl(c, c)
  BY DEF SameControl
<1> QED BY <1>2, <1>3, <1>5, <1>6 DEF d

-----------------------------------------------------------------------------
(* Timer B: ciacore_inttb and cia_update_tb.                               *)
LEMMA ClkInNat == ASSUME NEW now \in 0..LastClk PROVE now \in Nat /\ now < ClockMax
BY CiaAssumption, CiaBusAssumption, TimerAssumption DEF LastClk, LastTick

LEMMA UpdateTBBefore ==
  ASSUME NEW now \in 0..LastClk, NEW R, NEW c, Sound(c, now, R),
         NEW rclk \in 0..now, rclk < c.tb.alarmclk
  PROVE  LET d == DoUpdateTB(c, rclk) IN
         /\ Sound(d, now, R) /\ d.ta = c.ta /\ SameControl(c, d)
         /\ d.tb.clk >= rclk /\ d.tb.alarmclk = c.tb.alarmclk
         /\ "IR" \in c.irqflags <=> "IR" \in d.irqflags
<1> DEFINE u == Update(c.tb, rclk)
           d == DoUpdateTB(c, rclk)
<1>1. c \in Shapes(now, R) /\ SideA(c, now) /\ SideB(c, now)
  BY DEF Sound
<1>2. Held(c.tb, InputB(c.crb), now) /\ Agreed(c.tb)
  BY <1>1 DEF SideB
<1>3. /\ Held(u.timer, InputB(c.crb), now) /\ Agreed(u.timer)
      /\ u.timer.clk = IF c.tb.clk < rclk THEN rclk ELSE c.tb.clk
      /\ u.timer.alarmclk = c.tb.alarmclk
      /\ c.tb.alarmclk = Upcoming(c.tb) => u.timer.alarmclk = Upcoming(u.timer)
  BY <1>2, UpdateHolds
<1>4. u.n \in Nat /\ u.timer \in Timer /\ c.tb.clk \in Nat /\ rclk \in Nat
  BY <1>2, <1>3, UpdateCounts, HeldIsNear
<1>5. u.timer.clk >= rclk
  BY <1>3, <1>4
<1> HIDE DEF u
<1>6. /\ d \in Shapes(now, R) /\ d.tb = u.timer /\ d.ta = c.ta /\ SameControl(c, d)
      /\ "IR" \in c.irqflags <=> "IR" \in d.irqflags
  BY <1>1, <1>4, UpdatedTBIs DEF DoUpdateTB, u
<1> HIDE DEF d
<1>7. SideA(d, now)
  BY <1>1, <1>6, SideAStays
<1>8. SideB(d, now)
  BY <1>1, <1>3, <1>6 DEF SideB, WantedB, NeededB, SameControl
<1> QED BY <1>3, <1>5, <1>6, <1>7, <1>8 DEF Sound, d

LEMMA IntTBIs ==
  ASSUME NEW now \in 0..LastClk, NEW R, NEW c, Sound(c, now, R), c.tb.alarmclk <= now
  PROVE  LET tick == c.tb.alarmclk
             d == IntTB(c, tick)
         IN  /\ Sound(d, now, R) /\ d.ta = c.ta /\ SameControl(c, d)
             /\ d.tb.clk = tick /\ d.tb.alarmclk > tick
             /\ "IR" \in c.irqflags => "IR" \in d.irqflags
<1> DEFINE tick == c.tb.alarmclk
           ctl == InputB(c.crb)
           u == Update(c.tb, tick)
           e == DoUpdateTB(c, tick)
           a == AckAlarm(u.timer)
           f == [e EXCEPT !.tb = AckAlarm(@)]
           g == AlarmB(f)
           d == IntTB(c, tick)
<1>1. c \in Shapes(now, R) /\ SideA(c, now) /\ SideB(c, now) /\ now \in Nat
      /\ Held(c.tb, ctl, now) /\ Agreed(c.tb)
  BY ClkInNat DEF Sound, SideB
<1>2. /\ Held(a, ctl, now) /\ Agreed(a) /\ a.clk = tick /\ a.alarmclk = ClockMax
      /\ "START" \notin ctl \/ "CNT" \in ctl \/ "CR_ONESHOT" \in ctl
              => Upcoming(a) = ClockMax
  BY <1>1, AlarmServed
<1>3. tick \in 0..now
  BY <1>1, AlarmLies
<1>4. u.n \in Nat /\ u.timer \in Timer /\ a \in Timer
  <2>1. u.n \in Nat
    BY <1>1, <1>3, UpdateCounts
  <2>2. a \in Timer
    BY <1>2, HeldIsNear
  <2>3. Near(c.tb) /\ c.tb \in Timer /\ Regular(c.tb) /\ Kept(c.tb, ctl) /\ tick \in Int
    BY <1>1, <1>3, HeldIsNear
  <2>4. u.timer \in Timer
    BY <2>3, UpdateIs
  <2> QED BY <2>1, <2>2, <2>4
<1> HIDE DEF tick, u
<1>5. /\ e \in Shapes(now, R) /\ e.tb = u.timer /\ e.ta = c.ta /\ SameControl(c, e)
      /\ "IR" \in c.irqflags <=> "IR" \in e.irqflags
  BY <1>1, <1>4, UpdatedTBIs DEF DoUpdateTB, u
<1> HIDE DEF e
<1>6. /\ f \in Shapes(now, R) /\ f.tb = a /\ f.ta = c.ta /\ SameControl(e, f)
      /\ f.irqflags = e.irqflags
  <2>1. f = [e EXCEPT !.tb = a]
    BY <1>5
  <2> HIDE DEF a, f
  <2> QED BY <1>4, <1>5, <2>1, WithTB
<1> HIDE DEF a, f
<1>7. SameControl(c, f)
  BY <1>5, <1>6 DEF SameControl
<1>8. /\ g \in Shapes(now, R) /\ g.ta = c.ta /\ SameControl(c, g)
      /\ g.irqflags = e.irqflags
      /\ Held(g.tb, ctl, now) /\ Agreed(g.tb) /\ g.tb.clk = tick
      /\ WantedB(g) => g.tb.alarmclk = Upcoming(g.tb)
  <2>1. CASE NeedsAlarmB(f)
    <3> DEFINE s == SetAlarm(a)
    <3>1. g = [f EXCEPT !.tb = SetAlarm(@)]
      BY <2>1 DEF AlarmB
    <3>2. Held(s, ctl, now) /\ Agreed(s) /\ s.alarmclk = Upcoming(s) /\ s.clk = a.clk
      BY <1>2, SetAlarmHolds
    <3>3. s \in Timer /\ g = [f EXCEPT !.tb = s]
      BY <1>6, <3>1, <3>2, HeldIsNear
    <3> HIDE DEF s, g
    <3>4. g \in Shapes(now, R) /\ g.tb = s /\ g.ta = f.ta /\ SameControl(f, g)
          /\ g.irqflags = f.irqflags
      BY <1>6, <3>3, WithTB
    <3>5. SameControl(c, g)
      BY <1>7, <3>4 DEF SameControl
    <3> QED BY <1>2, <1>6, <3>2, <3>4, <3>5
  <2>2. CASE ~NeedsAlarmB(f)
    <3>1. g = f
      BY <2>2 DEF AlarmB
    <3>2. WantedB(f) => "START" \notin ctl \/ "CNT" \in ctl \/ "CR_ONESHOT" \in ctl
      BY <1>7, <2>2 DEF NeedsAlarmB, WantedB, NeededB, SameControl, InputB
    <3> HIDE DEF ctl, g
    <3> QED BY <1>2, <1>6, <1>7, <3>1, <3>2
  <2> QED BY <2>1, <2>2
<1> HIDE DEF g
<1>9. tick < g.tb.alarmclk
  BY <1>8, AlarmLies
<1>10. d = DoSetInt(g, tick)
  BY DEF IntTB, d, g, f, e, a, tick
<1> HIDE DEF d
<1>11. /\ d \in Shapes(now, R) /\ d.ta = g.ta /\ d.tb = g.tb /\ SameControl(g, d)
       /\ "IR" \in g.irqflags => "IR" \in d.irqflags
  <2>1. tick \in 0..now + 1
    BY <1>1, <1>3
  <2> QED BY <1>1, <1>8, <1>10, <2>1, DoSetIntIs
<1>12. SameControl(c, d) /\ d.ta = c.ta /\ ("IR" \in c.irqflags => "IR" \in d.irqflags)
  BY <1>5, <1>8, <1>11 DEF SameControl
<1>13. SideA(d, now)
  BY <1>1, <1>12, SideAStays
<1>14. SideB(d, now)
  BY <1>8, <1>11 DEF SideB, WantedB, NeededB, SameControl
<1>15. d.tb.clk = tick /\ d.tb.alarmclk > tick
  <2>1. tick \in Nat /\ g.tb.alarmclk \in Nat
    BY <1>3, <1>8, AlarmLies
  <2> QED BY <1>8, <1>9, <1>11, <2>1
<1> QED BY <1>11, <1>12, <1>13, <1>14, <1>15 DEF Sound, d, tick

(* The loop over the alarms that are due.                                  *)
ServedTB(c, now, R, rclk) ==
  {s \in [chip : Shapes(now, R), last : 0..rclk] :
     /\ Sound(s.chip, now, R) /\ s.chip.ta = c.ta /\ SameControl(c, s.chip)
     /\ "IR" \in c.irqflags => "IR" \in s.chip.irqflags
     /\ s.last <= s.chip.tb.clk}

LEMMA NextTBServes ==
  ASSUME NEW now \in 0..LastClk, NEW R, NEW c, NEW rclk \in 0..now,
         NEW s \in ServedTB(c, now, R, rclk)
  PROVE  LET r == NextTB(s, rclk) IN
         /\ r \in ServedTB(c, now, R, rclk)
         /\ s.chip.tb.alarmclk <= rclk => r.chip.tb.alarmclk > s.chip.tb.alarmclk
         /\ s.chip.tb.alarmclk > rclk => r = s
         /\ s.chip.tb.alarmclk \in Nat
<1> DEFINE b == s.chip
           tick == b.tb.alarmclk
           r == NextTB(s, rclk)
           d == IntTB(b, tick)
<1>1. Sound(b, now, R) /\ b.ta = c.ta /\ SameControl(c, b)
      /\ ("IR" \in c.irqflags => "IR" \in b.irqflags)
      /\ now \in Nat /\ rclk \in Nat /\ rclk <= now
  BY ClkInNat DEF ServedTB
<1>2. tick \in Nat
  BY <1>1, AlarmLies DEF Sound, SideB
<1>3. CASE tick > rclk
  <2>1. r = s
    BY <1>1, <1>2, <1>3 DEF NextTB
  <2> QED BY <1>1, <1>2, <1>3, <2>1
<1>4. CASE tick <= rclk
  <2>1. /\ Sound(d, now, R) /\ d.ta = b.ta /\ SameControl(b, d)
        /\ d.tb.clk = tick /\ d.tb.alarmclk > tick
        /\ "IR" \in b.irqflags => "IR" \in d.irqflags
    BY <1>1, <1>2, <1>4, IntTBIs
  <2>2. r = [chip |-> d, last |-> tick]
    BY <1>4 DEF NextTB
  <2> HIDE DEF d, b, r, tick
  <2>3. SameControl(c, d) /\ d.ta = c.ta
    BY <1>1, <2>1 DEF SameControl
  <2>4. d \in Shapes(now, R) /\ tick \in 0..rclk
    BY <1>1, <1>2, <1>4, <2>1 DEF Sound
  <2>5. r \in ServedTB(c, now, R, rclk)
    <3>1. r \in [chip : Shapes(now, R), last : 0..rclk] /\ r.chip = d /\ r.last = tick
      BY <2>2, <2>4
    <3>2. r.last <= r.chip.tb.clk
      BY <1>2, <2>1, <3>1
    <3> QED BY <1>1, <2>1, <2>3, <3>1, <3>2 DEF ServedTB
  <2>6. r.chip = d
    BY <2>2
  <2>7. ~(tick > rclk)
    BY <1>1, <1>2, <1>4
  <2> QED BY <1>2, <2>1, <2>5, <2>6, <2>7 DEF b, r, tick
<1> QED BY <1>1, <1>2, <1>3, <1>4

LEMMA ServeTBServes ==
  ASSUME NEW now \in 0..LastClk, NEW R, NEW c, Sound(c, now, R), NEW rclk \in 0..now,
         NEW k \in Nat
  PROVE  LET s == ServeTB(c, rclk)[k] IN
         /\ s \in ServedTB(c, now, R, rclk)
         /\ s.chip.tb.alarmclk \in Nat
         /\ s.chip.tb.alarmclk > rclk \/ s.chip.tb.alarmclk >= c.tb.alarmclk + k
<1> DEFINE S == ServedTB(c, now, R, rclk)
           x == Serving(c)
           F == [s \in S |-> NextTB(s, rclk)]
           Is(f) == f = [i \in Nat |-> IF i = 0 THEN Serving(c) ELSE NextTB(f[i - 1], rclk)]
           h == CHOOSE f : Is(f)
<1>1. now \in Nat /\ rclk \in Nat /\ c \in Shapes(now, R) /\ c.tb.alarmclk \in Nat
      /\ c.tb.clk \in Nat
  BY ClkInNat, AlarmLies, HeldIsNear DEF Sound, SideB
<1>2. x \in S
  <2>1. SameControl(c, c)
    BY DEF SameControl
  <2> QED BY <1>1, <2>1 DEF Serving, ServedTB
<1>3. ASSUME NEW s \in S
      PROVE  /\ NextTB(s, rclk) \in S
             /\ s.chip.tb.alarmclk <= rclk => NextTB(s, rclk).chip.tb.alarmclk > s.chip.tb.alarmclk
             /\ s.chip.tb.alarmclk > rclk => NextTB(s, rclk) = s
             /\ s.chip.tb.alarmclk \in Nat
  BY NextTBServes
<1> HIDE DEF S
<1>4. F \in [S -> S]
  BY <1>3
<1> DEFINE g == Orbit(S, x, F)
<1>5. g \in [Nat -> S] /\ g[0] = x /\ \A n \in Nat : g[n + 1] = F[g[n]]
  <2> HIDE DEF F, x
  <2> QED BY ONLY <1>2, <1>4, OrbitIs
<1> HIDE DEF g
<1>6. Is(g)
  <2>1. ASSUME NEW i \in Nat PROVE g[i] = IF i = 0 THEN x ELSE NextTB(g[i - 1], rclk)
    <3>1. CASE i = 0
      BY <1>5, <3>1
    <3>2. CASE i # 0
      <4>1. i - 1 \in Nat /\ i - 1 + 1 = i
        BY <3>2
      <4> QED BY <1>5, <3>2, <4>1
    <3> QED BY <3>1, <3>2
  <2> QED BY <1>5, <2>1
<1>7. ServeTB(c, rclk) = h
  BY DEF ServeTB
<1>8. Is(h)
  BY <1>6
<1> HIDE DEF h, x
<1>9. h[0] = x /\ \A i \in Nat : h[i + 1] = NextTB(h[i], rclk)
  BY <1>8 DEF x
<1> HIDE DEF Is, F
<1> DEFINE Far(s, i) == s.chip.tb.alarmclk > rclk \/ s.chip.tb.alarmclk >= c.tb.alarmclk + i
           A == {i \in Nat : h[i] \in S /\ Far(h[i], i)}
<1>10. 0 \in A
  <2>1. x.chip = c
    BY DEF x, Serving
  <2> QED BY <1>1, <1>2, <1>9, <2>1
<1>11. ASSUME NEW i \in A PROVE i + 1 \in A
  <2>1. PICK s : s = h[i]
    OBVIOUS
  <2>2. PICK r : r = h[i + 1]
    OBVIOUS
  <2>3. i \in Nat /\ s \in S /\ Far(s, i) /\ r = NextTB(s, rclk)
    BY <1>9, <2>1, <2>2
  <2>4. /\ r \in S
        /\ s.chip.tb.alarmclk <= rclk => r.chip.tb.alarmclk > s.chip.tb.alarmclk
        /\ s.chip.tb.alarmclk > rclk => r = s
        /\ s.chip.tb.alarmclk \in Nat
    BY <1>3, <2>3
  <2>5. r.chip.tb.alarmclk \in Nat
    BY <1>3, <2>4
  <2>6. Far(r, i + 1)
    <3> DEFINE p == s.chip.tb.alarmclk
               q == r.chip.tb.alarmclk
               o == c.tb.alarmclk
    <3>1. p \in Nat /\ q \in Nat /\ o \in Nat /\ (p > rclk \/ p >= o + i)
          /\ (p <= rclk => q > p) /\ (p > rclk => q = p)
      BY <1>1, <2>3, <2>4, <2>5
    <3> HIDE DEF p, q, o
    <3>2. q > rclk \/ q >= o + (i + 1)
      BY <1>1, <2>3, <3>1
    <3> QED BY <3>2 DEF q, o
  <2>7. h[i + 1] \in S /\ Far(h[i + 1], i + 1)
    <3> HIDE DEF Far
    <3> QED BY <2>2, <2>4, <2>6
  <2> QED BY <2>3, <2>7
<1>12. A = Nat
  <2>1. A \in SUBSET Nat
    OBVIOUS
  <2> HIDE DEF A
  <2> QED BY <1>10, <1>11, <2>1, Inductive
<1>13. k \in A
  BY <1>12
<1>14. h[k].chip.tb.alarmclk \in Nat
  BY <1>3, <1>13
<1> QED BY <1>7, <1>13, <1>14 DEF S

LEMMA PassesSuffice ==
  ASSUME NEW t, NEW a, t.alarmclk \in Nat, NEW rclk \in Nat, NEW k \in Nat,
         k = Passes(t, rclk), a \in Nat, a > rclk \/ a >= t.alarmclk + k
  PROVE  a > rclk
<1> DEFINE o == t.alarmclk
<1>1. k = IF o <= rclk THEN rclk - o + 1 ELSE 0
  BY DEF Passes
<1>2. o \in Nat /\ (a > rclk \/ a >= o + k)
  OBVIOUS
<1> HIDE DEF o
<1> QED BY <1>1, <1>2

LEMMA PassesInNat ==
  ASSUME NEW t, t.alarmclk \in Nat, NEW rclk \in Nat
  PROVE  Passes(t, rclk) \in Nat
BY DEF Passes

LEMMA AlarmsTBIs ==
  ASSUME NEW now \in 0..LastClk, NEW R, NEW c, Sound(c, now, R), NEW rclk \in 0..now
  PROVE  LET d == AlarmsTB(c, rclk) IN
         /\ Sound(d, now, R) /\ d.ta = c.ta /\ SameControl(c, d)
         /\ "IR" \in c.irqflags => "IR" \in d.irqflags
         /\ d.tb.clk >= rclk /\ d.tb.alarmclk > rclk
<1> DEFINE k == Passes(c.tb, rclk)
           s == ServeTB(c, rclk)[k]
           b == s.chip
           d == AlarmsTB(c, rclk)
           u == DoUpdateTB(b, rclk)
<1>1. now \in Nat /\ rclk \in Nat /\ c.tb.alarmclk \in Nat
  BY ClkInNat, AlarmLies DEF Sound, SideB
<1>2. k \in Nat
  BY <1>1, PassesInNat
<1>3. /\ s \in ServedTB(c, now, R, rclk)
      /\ b.tb.alarmclk \in Nat
      /\ b.tb.alarmclk > rclk \/ b.tb.alarmclk >= c.tb.alarmclk + k
  BY <1>2, ServeTBServes
<1>4. d = IF s.last = rclk THEN b ELSE u
  BY DEF AlarmsTB, ReplayedTB
<1> HIDE DEF s, d
<1>5. b.tb.alarmclk > rclk
  <2> HIDE DEF b
  <2> QED BY <1>1, <1>2, <1>3, PassesSuffice
<1>6. /\ Sound(b, now, R) /\ b.ta = c.ta /\ SameControl(c, b)
      /\ "IR" \in c.irqflags => "IR" \in b.irqflags
      /\ s.last <= b.tb.clk
  BY <1>3 DEF ServedTB
<1> HIDE DEF b
<1>7. /\ Sound(u, now, R) /\ u.ta = b.ta /\ SameControl(b, u)
      /\ u.tb.clk >= rclk /\ u.tb.alarmclk = b.tb.alarmclk
      /\ "IR" \in b.irqflags <=> "IR" \in u.irqflags
  BY <1>1, <1>3, <1>5, <1>6, UpdateTBBefore
<1>8. CASE s.last = rclk
  <2>1. d = b
    BY <1>4, <1>8
  <2>2. b.tb.clk \in Nat
    BY <1>6, HeldIsNear DEF Sound, SideB
  <2>3. b.tb.clk >= rclk
    BY <1>1, <1>6, <1>8, <2>2
  <2> QED BY <1>5, <1>6, <2>1, <2>3 DEF d
<1>9. CASE s.last # rclk
  <2>1. d = u
    BY <1>4, <1>9
  <2>2. SameControl(c, u)
    BY <1>6, <1>7 DEF SameControl
  <2> QED BY <1>5, <1>6, <1>7, <2>1, <2>2 DEF d
<1> QED BY <1>8, <1>9

-----------------------------------------------------------------------------
(* Timer A: ciacore_intta and cia_update_ta.                               *)
LEMMA UpdateTABefore ==
  ASSUME NEW now \in 0..LastClk, NEW R, NEW c, Sound(c, now, R),
         NEW rclk \in 0..now, rclk < c.ta.alarmclk
  PROVE  LET d == DoUpdateTA(c, rclk) IN
         /\ Sound(d, now, R) /\ d.tb = c.tb /\ SameControl(c, d)
         /\ d.ta.clk >= rclk /\ d.ta.alarmclk = c.ta.alarmclk
         /\ "IR" \in c.irqflags <=> "IR" \in d.irqflags
<1> DEFINE u == Update(c.ta, rclk)
           d == DoUpdateTA(c, rclk)
<1>1. c \in Shapes(now, R) /\ SideA(c, now) /\ SideB(c, now)
  BY DEF Sound
<1>2. Held(c.ta, c.cra, now) /\ Agreed(c.ta)
  BY <1>1 DEF SideA
<1>3. /\ Held(u.timer, c.cra, now) /\ Agreed(u.timer)
      /\ u.timer.clk = IF c.ta.clk < rclk THEN rclk ELSE c.ta.clk
      /\ u.timer.alarmclk = c.ta.alarmclk
      /\ c.ta.alarmclk = Upcoming(c.ta) => u.timer.alarmclk = Upcoming(u.timer)
  BY <1>2, UpdateHolds
<1>4. u.n \in Nat /\ u.timer \in Timer /\ c.ta.clk \in Nat /\ rclk \in Nat
  BY <1>2, <1>3, UpdateCounts, HeldIsNear
<1>5. u.timer.clk >= rclk
  BY <1>3, <1>4
<1> HIDE DEF u
<1>6. /\ d \in Shapes(now, R) /\ d.ta = u.timer /\ d.tb = c.tb /\ SameControl(c, d)
      /\ "IR" \in c.irqflags <=> "IR" \in d.irqflags
  BY <1>1, <1>4, UpdatedTAIs DEF DoUpdateTA, u
<1> HIDE DEF d
<1>7. SideB(d, now)
  BY <1>1, <1>6, SideBStays
<1>8. SideA(d, now)
  BY <1>1, <1>3, <1>6 DEF SideA, WantedA, NeededA, SameControl
<1> QED BY <1>3, <1>5, <1>6, <1>7, <1>8 DEF Sound, d

(* The alarm of timer A up to the point where timer B is told.             *)
Rung(c, tick) == AlarmA([DoUpdateTA(c, tick) EXCEPT !.ta = AckAlarm(@)])

LEMMA RungIs ==
  ASSUME NEW now \in 0..LastClk, NEW R, NEW c, Sound(c, now, R), c.ta.alarmclk <= now
  PROVE  LET tick == c.ta.alarmclk
             d == Rung(c, tick)
         IN  /\ Sound(d, now, R) /\ d.tb = c.tb /\ SameControl(c, d)
             /\ d.ta.clk = tick /\ d.ta.alarmclk > tick
             /\ "IR" \in c.irqflags <=> "IR" \in d.irqflags
<1> DEFINE tick == c.ta.alarmclk
           ctl == c.cra
           u == Update(c.ta, tick)
           e == DoUpdateTA(c, tick)
           a == AckAlarm(u.timer)
           f == [e EXCEPT !.ta = AckAlarm(@)]
           g == AlarmA(f)
           d == Rung(c, tick)
<1>1. c \in Shapes(now, R) /\ SideA(c, now) /\ SideB(c, now) /\ now \in Nat
      /\ Held(c.ta, ctl, now) /\ Agreed(c.ta)
  BY ClkInNat DEF Sound, SideA
<1>2. /\ Held(a, ctl, now) /\ Agreed(a) /\ a.clk = tick /\ a.alarmclk = ClockMax
      /\ "START" \notin ctl \/ "CNT" \in ctl \/ "CR_ONESHOT" \in ctl
              => Upcoming(a) = ClockMax
  BY <1>1, AlarmServed
<1>3. tick \in 0..now
  BY <1>1, AlarmLies
<1>4. u.n \in Nat /\ u.timer \in Timer /\ a \in Timer
  <2>1. u.n \in Nat
    BY <1>1, <1>3, UpdateCounts
  <2>2. a \in Timer
    BY <1>2, HeldIsNear
  <2>3. Near(c.ta) /\ c.ta \in Timer /\ Regular(c.ta) /\ Kept(c.ta, ctl) /\ tick \in Int
    BY <1>1, <1>3, HeldIsNear
  <2>4. u.timer \in Timer
    BY <2>3, UpdateIs
  <2> QED BY <2>1, <2>2, <2>4
<1> HIDE DEF tick, u
<1>5. /\ e \in Shapes(now, R) /\ e.ta = u.timer /\ e.tb = c.tb /\ SameControl(c, e)
      /\ "IR" \in c.irqflags <=> "IR" \in e.irqflags
  BY <1>1, <1>4, UpdatedTAIs DEF DoUpdateTA, u
<1> HIDE DEF e
<1>6. /\ f \in Shapes(now, R) /\ f.ta = a /\ f.tb = c.tb /\ SameControl(e, f)
      /\ f.irqflags = e.irqflags
  <2>1. f = [e EXCEPT !.ta = a]
    BY <1>5
  <2> HIDE DEF a, f
  <2> QED BY <1>4, <1>5, <2>1, WithTA
<1> HIDE DEF a, f
<1>7. SameControl(c, f)
  BY <1>5, <1>6 DEF SameControl
<1>8. /\ g \in Shapes(now, R) /\ g.tb = c.tb /\ SameControl(c, g)
      /\ g.irqflags = e.irqflags
      /\ Held(g.ta, ctl, now) /\ Agreed(g.ta) /\ g.ta.clk = tick
      /\ WantedA(g) => g.ta.alarmclk = Upcoming(g.ta)
  <2>1. CASE NeedsAlarmA(f)
    <3> DEFINE s == SetAlarm(a)
    <3>1. g = [f EXCEPT !.ta = SetAlarm(@)]
      BY <2>1 DEF AlarmA
    <3>2. Held(s, ctl, now) /\ Agreed(s) /\ s.alarmclk = Upcoming(s) /\ s.clk = a.clk
      BY <1>2, SetAlarmHolds
    <3>3. s \in Timer /\ g = [f EXCEPT !.ta = s]
      BY <1>6, <3>1, <3>2, HeldIsNear
    <3> HIDE DEF s, g
    <3>4. g \in Shapes(now, R) /\ g.ta = s /\ g.tb = f.tb /\ SameControl(f, g)
          /\ g.irqflags = f.irqflags
      BY <1>6, <3>3, WithTA
    <3>5. SameControl(c, g)
      BY <1>7, <3>4 DEF SameControl
    <3> QED BY <1>2, <1>6, <3>2, <3>4, <3>5
  <2>2. CASE ~NeedsAlarmA(f)
    <3>1. g = f
      BY <2>2 DEF AlarmA
    <3>2. WantedA(f) => "START" \notin ctl \/ "CNT" \in ctl \/ "CR_ONESHOT" \in ctl
      BY <1>7, <2>2 DEF NeedsAlarmA, WantedA, NeededA, SameControl
    <3> HIDE DEF ctl, g
    <3> QED BY <1>2, <1>6, <1>7, <3>1, <3>2
  <2> QED BY <2>1, <2>2
<1>9. d = g
  BY DEF Rung, d, g, f, e, tick
<1> HIDE DEF g, d
<1>10. g.ta.alarmclk > tick
  <2>1. tick \in Nat /\ g.ta.alarmclk \in Nat /\ tick < g.ta.alarmclk
    BY <1>3, <1>8, AlarmLies
  <2> QED BY <2>1
<1>11. SideA(g, now)
  BY <1>8 DEF SideA, SameControl
<1>12. SideB(g, now)
  BY <1>1, <1>8, SideBStays
<1> QED BY <1>5, <1>8, <1>9, <1>10, <1>11, <1>12 DEF Sound, d, tick

(* Timer B counts the underflow.  The call back into cia_update_ta finds   *)
(* nothing to do.                                                          *)
LEMMA CountedByTBIs ==
  ASSUME NEW now \in 0..LastClk, NEW R, NEW c, Sound(c, now, R), NEW rclk \in 0..now,
         ~(c.ta.clk < rclk)
  PROVE  LET d == CountedByTB(c, rclk) IN
         /\ Sound(d, now, R) /\ d.ta = c.ta /\ SameControl(c, d)
         /\ "IR" \in c.irqflags => "IR" \in d.irqflags
<1> DEFINE e == AlarmsTB(c, rclk)
           s == SingleStep(e.tb)
           d == CountedByTB(c, rclk)
<1>1. CASE ~CountsTA(c)
  <2>1. SameControl(c, c)
    BY DEF SameControl
  <2> QED BY <1>1, <2>1 DEF CountedByTB
<1>2. CASE CountsTA(c)
  <2>1. c \in Shapes(now, R) /\ Held(c.ta, c.cra, now)
    BY DEF Sound, SideA
  <2>2. Update(c.ta, rclk) = [timer |-> c.ta, n |-> 0]
    BY <2>1, NothingToReplay
  <2>3. DoUpdateTA(c, rclk) = c
    <3>1. DoUpdateTA(c, rclk) = [c EXCEPT !.ta = c.ta]
      BY <2>2 DEF DoUpdateTA, UpdatedTA
    <3> QED BY <2>1, <3>1 DEF Shapes
  <2>4. d = [e EXCEPT !.tb = s]
    BY <1>2, <2>3 DEF CountedByTB
  <2>5. /\ Sound(e, now, R) /\ e.ta = c.ta /\ SameControl(c, e)
        /\ "IR" \in c.irqflags => "IR" \in e.irqflags
    BY AlarmsTBIs
  <2> HIDE DEF e, d
  <2>6. e \in Shapes(now, R) /\ SideA(e, now) /\ SideB(e, now)
    BY <2>5 DEF Sound
  <2>7. /\ Held(s, InputB(e.crb), now) /\ Agreed(s)
        /\ WantedB(e) => s.alarmclk = Upcoming(s)
    <3>1. Held(e.tb, InputB(e.crb), now) /\ Agreed(e.tb)
          /\ (WantedB(e) => e.tb.alarmclk = Upcoming(e.tb))
      BY <2>6 DEF SideB
    <3> QED BY <3>1, SingleStepHolds
  <2>8. s \in Timer
    BY <2>7, HeldIsNear
  <2> HIDE DEF s
  <2>9. /\ d \in Shapes(now, R) /\ d.tb = s /\ d.ta = e.ta /\ SameControl(e, d)
        /\ d.irqflags = e.irqflags
    BY <2>4, <2>6, <2>8, WithTB
  <2>10. SideA(d, now)
    BY <2>6, <2>9, SideAStays
  <2>11. SideB(d, now)
    BY <2>7, <2>9 DEF SideB, WantedB, NeededB, SameControl
  <2>12. SameControl(c, d)
    BY <2>5, <2>9 DEF SameControl
  <2> QED BY <2>5, <2>9, <2>10, <2>11, <2>12 DEF Sound, d
<1> QED BY <1>1, <1>2

LEMMA IntTAIs ==
  ASSUME NEW now \in 0..LastClk, NEW R, NEW c, Sound(c, now, R), c.ta.alarmclk <= now
  PROVE  LET tick == c.ta.alarmclk
             d == IntTA(c, tick)
         IN  /\ Sound(d, now, R) /\ SameControl(c, d)
             /\ d.ta.clk = tick /\ d.ta.alarmclk > tick
             /\ "IR" \in c.irqflags => "IR" \in d.irqflags
<1> DEFINE tick == c.ta.alarmclk
           g == Rung(c, tick)
           e == CountedByTB(g, tick)
           d == IntTA(c, tick)
<1>1. /\ Sound(g, now, R) /\ g.tb = c.tb /\ SameControl(c, g)
      /\ g.ta.clk = tick /\ g.ta.alarmclk > tick
      /\ "IR" \in c.irqflags <=> "IR" \in g.irqflags
  BY RungIs
<1>2. tick \in 0..now /\ now \in Nat
  BY ClkInNat, AlarmLies DEF Sound, SideA
<1>3. d = DoSetInt(e, tick)
  BY DEF IntTA, Rung
<1> HIDE DEF tick, g, d
<1>4. /\ Sound(e, now, R) /\ e.ta = g.ta /\ SameControl(g, e)
      /\ "IR" \in g.irqflags => "IR" \in e.irqflags
  <2>1. ~(g.ta.clk < tick)
    BY <1>1, <1>2
  <2> QED BY <1>1, <1>2, <2>1, CountedByTBIs
<1> HIDE DEF e
<1>5. /\ d \in Shapes(now, R) /\ d.ta = e.ta /\ d.tb = e.tb /\ SameControl(e, d)
      /\ "IR" \in e.irqflags => "IR" \in d.irqflags
  <2>1. tick \in 0..now + 1 /\ e \in Shapes(now, R)
    BY <1>2, <1>4 DEF Sound
  <2> QED BY <1>2, <1>3, <2>1, DoSetIntIs
<1>6. SideA(d, now)
  BY <1>4, <1>5, SideAStays DEF Sound
<1>7. SideB(d, now)
  BY <1>4, <1>5, SideBStays DEF Sound
<1>8. SameControl(c, d)
  BY <1>1, <1>4, <1>5 DEF SameControl
<1> QED BY <1>1, <1>4, <1>5, <1>6, <1>7, <1>8 DEF Sound, d, tick

(* The loop over the alarms that are due.                                  *)
ServedTA(c, now, R, rclk) ==
  {s \in [chip : Shapes(now, R), last : 0..rclk] :
     /\ Sound(s.chip, now, R) /\ SameControl(c, s.chip)
     /\ "IR" \in c.irqflags => "IR" \in s.chip.irqflags
     /\ s.last <= s.chip.ta.clk}

LEMMA NextTAServes ==
  ASSUME NEW now \in 0..LastClk, NEW R, NEW c, NEW rclk \in 0..now,
         NEW s \in ServedTA(c, now, R, rclk)
  PROVE  LET r == NextTA(s, rclk) IN
         /\ r \in ServedTA(c, now, R, rclk)
         /\ s.chip.ta.alarmclk <= rclk => r.chip.ta.alarmclk > s.chip.ta.alarmclk
         /\ s.chip.ta.alarmclk > rclk => r = s
         /\ s.chip.ta.alarmclk \in Nat
<1> DEFINE b == s.chip
           tick == b.ta.alarmclk
           r == NextTA(s, rclk)
           d == IntTA(b, tick)
<1>1. Sound(b, now, R) /\ SameControl(c, b)
      /\ ("IR" \in c.irqflags => "IR" \in b.irqflags)
      /\ now \in Nat /\ rclk \in Nat /\ rclk <= now
  BY ClkInNat DEF ServedTA
<1>2. tick \in Nat
  BY <1>1, AlarmLies DEF Sound, SideA
<1>3. CASE tick > rclk
  <2>1. r = s
    BY <1>1, <1>2, <1>3 DEF NextTA
  <2> QED BY <1>1, <1>2, <1>3, <2>1
<1>4. CASE tick <= rclk
  <2>1. /\ Sound(d, now, R) /\ SameControl(b, d)
        /\ d.ta.clk = tick /\ d.ta.alarmclk > tick
        /\ "IR" \in b.irqflags => "IR" \in d.irqflags
    BY <1>1, <1>2, <1>4, IntTAIs
  <2>2. r = [chip |-> d, last |-> tick]
    BY <1>4 DEF NextTA
  <2> HIDE DEF d, b, r, tick
  <2>3. SameControl(c, d)
    BY <1>1, <2>1 DEF SameControl
  <2>4. d \in Shapes(now, R) /\ tick \in 0..rclk
    BY <1>1, <1>2, <1>4, <2>1 DEF Sound
  <2>5. r \in ServedTA(c, now, R, rclk)
    <3>1. r \in [chip : Shapes(now, R), last : 0..rclk] /\ r.chip = d /\ r.last = tick
      BY <2>2, <2>4
    <3>2. r.last <= r.chip.ta.clk
      BY <1>2, <2>1, <3>1
    <3> QED BY <1>1, <2>1, <2>3, <3>1, <3>2 DEF ServedTA
  <2>6. r.chip = d
    BY <2>2
  <2>7. ~(tick > rclk)
    BY <1>1, <1>2, <1>4
  <2> QED BY <1>2, <2>1, <2>5, <2>6, <2>7 DEF b, r, tick
<1> QED BY <1>1, <1>2, <1>3, <1>4

LEMMA ServeTAServes ==
  ASSUME NEW now \in 0..LastClk, NEW R, NEW c, Sound(c, now, R), NEW rclk \in 0..now,
         NEW k \in Nat
  PROVE  LET s == ServeTA(c, rclk)[k] IN
         /\ s \in ServedTA(c, now, R, rclk)
         /\ s.chip.ta.alarmclk \in Nat
         /\ s.chip.ta.alarmclk > rclk \/ s.chip.ta.alarmclk >= c.ta.alarmclk + k
<1> DEFINE S == ServedTA(c, now, R, rclk)
           x == Serving(c)
           F == [s \in S |-> NextTA(s, rclk)]
           Is(f) == f = [i \in Nat |-> IF i = 0 THEN Serving(c) ELSE NextTA(f[i - 1], rclk)]
           h == CHOOSE f : Is(f)
<1>1. now \in Nat /\ rclk \in Nat /\ c \in Shapes(now, R) /\ c.ta.alarmclk \in Nat
      /\ c.ta.clk \in Nat
  BY ClkInNat, AlarmLies, HeldIsNear DEF Sound, SideA
<1>2. x \in S
  <2>1. SameControl(c, c)
    BY DEF SameControl
  <2> QED BY <1>1, <2>1 DEF Serving, ServedTA
<1>3. ASSUME NEW s \in S
      PROVE  /\ NextTA(s, rclk) \in S
             /\ s.chip.ta.alarmclk <= rclk => NextTA(s, rclk).chip.ta.alarmclk > s.chip.ta.alarmclk
             /\ s.chip.ta.alarmclk > rclk => NextTA(s, rclk) = s
             /\ s.chip.ta.alarmclk \in Nat
  BY NextTAServes
<1> HIDE DEF S
<1>4. F \in [S -> S]
  BY <1>3
<1> DEFINE g == Orbit(S, x, F)
<1>5. g \in [Nat -> S] /\ g[0] = x /\ \A n \in Nat : g[n + 1] = F[g[n]]
  <2> HIDE DEF F, x
  <2> QED BY ONLY <1>2, <1>4, OrbitIs
<1> HIDE DEF g
<1>6. Is(g)
  <2>1. ASSUME NEW i \in Nat PROVE g[i] = IF i = 0 THEN x ELSE NextTA(g[i - 1], rclk)
    <3>1. CASE i = 0
      BY <1>5, <3>1
    <3>2. CASE i # 0
      <4>1. i - 1 \in Nat /\ i - 1 + 1 = i
        BY <3>2
      <4> QED BY <1>5, <3>2, <4>1
    <3> QED BY <3>1, <3>2
  <2> QED BY <1>5, <2>1
<1>7. ServeTA(c, rclk) = h
  BY DEF ServeTA
<1>8. Is(h)
  BY <1>6
<1> HIDE DEF h, x
<1>9. h[0] = x /\ \A i \in Nat : h[i + 1] = NextTA(h[i], rclk)
  BY <1>8 DEF x
<1> HIDE DEF Is, F
<1> DEFINE Far(s, i) == s.chip.ta.alarmclk > rclk \/ s.chip.ta.alarmclk >= c.ta.alarmclk + i
           A == {i \in Nat : h[i] \in S /\ Far(h[i], i)}
<1>10. 0 \in A
  <2>1. x.chip = c
    BY DEF x, Serving
  <2> QED BY <1>1, <1>2, <1>9, <2>1
<1>11. ASSUME NEW i \in A PROVE i + 1 \in A
  <2>1. PICK s : s = h[i]
    OBVIOUS
  <2>2. PICK r : r = h[i + 1]
    OBVIOUS
  <2>3. i \in Nat /\ s \in S /\ Far(s, i) /\ r = NextTA(s, rclk)
    BY <1>9, <2>1, <2>2
  <2>4. /\ r \in S
        /\ s.chip.ta.alarmclk <= rclk => r.chip.ta.alarmclk > s.chip.ta.alarmclk
        /\ s.chip.ta.alarmclk > rclk => r = s
        /\ s.chip.ta.alarmclk \in Nat
    BY <1>3, <2>3
  <2>5. r.chip.ta.alarmclk \in Nat
    BY <1>3, <2>4
  <2>6. Far(r, i + 1)
    <3> DEFINE p == s.chip.ta.alarmclk
               q == r.chip.ta.alarmclk
               o == c.ta.alarmclk
    <3>1. p \in Nat /\ q \in Nat /\ o \in Nat /\ (p > rclk \/ p >= o + i)
          /\ (p <= rclk => q > p) /\ (p > rclk => q = p)
      BY <1>1, <2>3, <2>4, <2>5
    <3> HIDE DEF p, q, o
    <3>2. q > rclk \/ q >= o + (i + 1)
      BY <1>1, <2>3, <3>1
    <3> QED BY <3>2 DEF q, o
  <2>7. h[i + 1] \in S /\ Far(h[i + 1], i + 1)
    <3> HIDE DEF Far
    <3> QED BY <2>2, <2>4, <2>6
  <2> QED BY <2>3, <2>7
<1>12. A = Nat
  <2>1. A \in SUBSET Nat
    OBVIOUS
  <2> HIDE DEF A
  <2> QED BY <1>10, <1>11, <2>1, Inductive
<1>13. k \in A
  BY <1>12
<1>14. h[k].chip.ta.alarmclk \in Nat
  BY <1>3, <1>13
<1> QED BY <1>7, <1>13, <1>14 DEF S

LEMMA UpdateTAIs ==
  ASSUME NEW now \in 0..LastClk, NEW R, NEW c, Sound(c, now, R), NEW rclk \in 0..now
  PROVE  LET d == UpdateTA(c, rclk) IN
         /\ Sound(d, now, R) /\ SameControl(c, d)
         /\ "IR" \in c.irqflags => "IR" \in d.irqflags
         /\ d.ta.clk >= rclk /\ d.ta.alarmclk > rclk
<1> DEFINE k == Passes(c.ta, rclk)
           s == ServeTA(c, rclk)[k]
           b == s.chip
           d == UpdateTA(c, rclk)
           u == DoUpdateTA(b, rclk)
<1>1. now \in Nat /\ rclk \in Nat /\ c.ta.alarmclk \in Nat
  BY ClkInNat, AlarmLies DEF Sound, SideA
<1>2. k \in Nat
  BY <1>1, PassesInNat
<1>3. /\ s \in ServedTA(c, now, R, rclk)
      /\ b.ta.alarmclk \in Nat
      /\ b.ta.alarmclk > rclk \/ b.ta.alarmclk >= c.ta.alarmclk + k
  BY <1>2, ServeTAServes
<1>4. d = IF s.last = rclk THEN b ELSE u
  BY DEF UpdateTA, ReplayedTA
<1> HIDE DEF s, d
<1>5. b.ta.alarmclk > rclk
  <2> HIDE DEF b
  <2> QED BY <1>1, <1>2, <1>3, PassesSuffice
<1>6. /\ Sound(b, now, R) /\ SameControl(c, b)
      /\ "IR" \in c.irqflags => "IR" \in b.irqflags
      /\ s.last <= b.ta.clk
  BY <1>3 DEF ServedTA
<1> HIDE DEF b
<1>7. /\ Sound(u, now, R) /\ SameControl(b, u)
      /\ u.ta.clk >= rclk /\ u.ta.alarmclk = b.ta.alarmclk
      /\ "IR" \in b.irqflags <=> "IR" \in u.irqflags
  BY <1>1, <1>3, <1>5, <1>6, UpdateTABefore
<1>8. CASE s.last = rclk
  <2>1. d = b
    BY <1>4, <1>8
  <2>2. b.ta.clk \in Nat
    BY <1>6, HeldIsNear DEF Sound, SideA
  <2>3. b.ta.clk >= rclk
    BY <1>1, <1>6, <1>8, <2>2
  <2> QED BY <1>5, <1>6, <2>1, <2>3 DEF d
<1>9. CASE s.last # rclk
  <2>1. d = u
    BY <1>4, <1>9
  <2>2. SameControl(c, u)
    BY <1>6, <1>7 DEF SameControl
  <2> QED BY <1>5, <1>6, <1>7, <2>1, <2>2 DEF d
<1> QED BY <1>8, <1>9

(* cia_update_tb, and both.                                                *)
LEMMA UpdateTBIs ==
  ASSUME NEW now \in 0..LastClk, NEW R, NEW c, Sound(c, now, R), NEW rclk \in 0..now
  PROVE  LET d == UpdateTB(c, rclk) IN
         /\ Sound(d, now, R) /\ SameControl(c, d)
         /\ "IR" \in c.irqflags => "IR" \in d.irqflags
         /\ d.tb.clk >= rclk /\ d.tb.alarmclk > rclk
         /\ c.ta.clk >= rclk /\ c.ta.alarmclk > rclk
              => d.ta.clk >= rclk /\ d.ta.alarmclk > rclk
<1> DEFINE e == IF CountsTA(c) THEN UpdateTA(c, rclk) ELSE c
           d == UpdateTB(c, rclk)
<1>1. /\ Sound(e, now, R) /\ SameControl(c, e)
      /\ "IR" \in c.irqflags => "IR" \in e.irqflags
      /\ c.ta.clk >= rclk /\ c.ta.alarmclk > rclk
           => e.ta.clk >= rclk /\ e.ta.alarmclk > rclk
  <2>1. CASE CountsTA(c)
    BY <2>1, UpdateTAIs
  <2>2. CASE ~CountsTA(c)
    BY <2>2 DEF SameControl
  <2> QED BY <2>1, <2>2
<1>2. d = AlarmsTB(e, rclk)
  BY DEF UpdateTB
<1> HIDE DEF e, d
<1>3. /\ Sound(d, now, R) /\ d.ta = e.ta /\ SameControl(e, d)
      /\ "IR" \in e.irqflags => "IR" \in d.irqflags
      /\ d.tb.clk >= rclk /\ d.tb.alarmclk > rclk
  BY <1>1, <1>2, AlarmsTBIs
<1>4. SameControl(c, d)
  BY <1>1, <1>3 DEF SameControl
<1> QED BY <1>1, <1>3, <1>4 DEF d

LEMMA UpdateBothIs ==
  ASSUME NEW now \in 0..LastClk, NEW R, NEW c, Sound(c, now, R), NEW rclk \in 0..now
  PROVE  LET d == UpdateBoth(c, rclk) IN
         /\ Sound(d, now, R) /\ SameControl(c, d)
         /\ "IR" \in c.irqflags => "IR" \in d.irqflags
         /\ d.ta.clk >= rclk /\ d.ta.alarmclk > rclk
         /\ d.tb.clk >= rclk /\ d.tb.alarmclk > rclk
<1> DEFINE e == UpdateTA(c, rclk)
           d == UpdateTB(e, rclk)
<1>1. /\ Sound(e, now, R) /\ SameControl(c, e)
      /\ "IR" \in c.irqflags => "IR" \in e.irqflags
      /\ e.ta.clk >= rclk /\ e.ta.alarmclk > rclk
  BY UpdateTAIs
<1>2. UpdateBoth(c, rclk) = d
  BY DEF UpdateBoth
<1> HIDE DEF e
<1>3. /\ Sound(d, now, R) /\ SameControl(e, d)
      /\ "IR" \in e.irqflags => "IR" \in d.irqflags
      /\ d.tb.clk >= rclk /\ d.tb.alarmclk > rclk
      /\ d.ta.clk >= rclk /\ d.ta.alarmclk > rclk
  BY <1>1, UpdateTBIs
<1> HIDE DEF d
<1>4. SameControl(c, d)
  BY <1>1, <1>3 DEF SameControl
<1> QED BY <1>1, <1>2, <1>3, <1>4

-----------------------------------------------------------------------------
(* The accesses of the CPU, each in a cycle of its own.                    *)
LEMMA SoundLater ==
  ASSUME NEW now \in 0..LastClk, NEW R, NEW c, Sound(c, now, R)
  PROVE  Sound(c, now + 1, R)
<1>1. now \in Nat /\ now + 1 \in Nat /\ now < now + 1
  BY ClkInNat
<1>2. c \in Shapes(now, R) /\ SideA(c, now) /\ SideB(c, now)
  BY DEF Sound
<1>3. c \in Shapes(now + 1, R)
  <2>1. 0..now \subseteq 0..now + 1 /\ 0..now + 3 \subseteq 0..now + 1 + 3
    BY <1>1
  <2> QED BY <1>2, <2>1 DEF Shapes
<1>4. SideA(c, now + 1) /\ SideB(c, now + 1)
  BY <1>1, <1>2, HeldUntil DEF SideA, SideB
<1> QED BY <1>3, <1>4 DEF Sound

LEMMA ReadLast ==
  ASSUME NEW now, NEW R, NEW c, Sound(c, now, R)
  PROVE  c.last_read \in R /\ \A Q : c.last_read \in Q => Sound(c, now, Q)
BY DEF Sound, Shapes

LEMMA WithRead ==
  ASSUME NEW now, NEW R, NEW c, Sound(c, now, R), NEW Q, NEW x \in Q
  PROVE  LET d == [c EXCEPT !.last_read = x] IN
         Sound(d, now, Q) /\ d.last_read = x
<1> DEFINE d == [c EXCEPT !.last_read = x]
<1>1. c \in Shapes(now, R) /\ SideA(c, now) /\ SideB(c, now)
  BY DEF Sound
<1>2. d \in Shapes(now, Q) /\ d.ta = c.ta /\ d.tb = c.tb /\ SameControl(c, d)
      /\ d.irqflags = c.irqflags /\ d.last_read = x
  BY <1>1 DEF Shapes, SameControl
<1> HIDE DEF d
<1>3. SideA(d, now) /\ SideB(d, now)
  BY <1>1, <1>2, SideAStays, SideBStays
<1> QED BY <1>2, <1>3 DEF Sound, d

(* Brought up to date at tick now.                                         *)
LEMMA UpToDate ==
  ASSUME NEW now \in 0..LastClk, NEW R, NEW c, Sound(c, now, R)
  PROVE  /\ c.ta.clk >= now => c.ta.clk = now
         /\ c.tb.clk >= now => c.tb.clk = now
         /\ now \in 0..now
<1>1. now \in Nat /\ c.ta.clk \in 0..now /\ c.tb.clk \in 0..now
  BY ClkInNat DEF Sound, SideA, SideB, Held
<1> QED BY <1>1

LEMMA ByteIs ==
  ASSUME NEW b \in SUBSET (Flags \cup ControlBits)
  PROVE  Byte(b) \in ByteStates /\ Byte(b).bits = b
BY CiaBusAssumption DEF Byte, ByteStates

LEMMA ValueIs ==
  ASSUME NEW t, NEW ctl, NEW now \in 0..LastClk, Held(t, ctl, now)
  PROVE  Value(t.cnt) \in ByteStates
<1>1. t.cnt \in 0..MaxLatch
  BY CiaBusAssumption DEF Held, Kept, Timer
<1> QED BY <1>1 DEF Value, ByteStates

LEMMA ControlIs ==
  ASSUME NEW reg \in SUBSET ControlBits, NEW t
  PROVE  Control(reg, t) \in ByteStates
BY ByteIs DEF Control, ControlBits

(* ciacore_read, all but the flags.                                        *)
LEMMA ReadAIs ==
  ASSUME NEW now \in 0..LastClk, NEW R, NEW c, Sound(c, now, R), NEW reg
  PROVE  Sound(ReadA(UpdateTA(c, now), reg), now, ByteStates)
<1> DEFINE e == UpdateTA(c, now)
           x == IF reg = "TAL" THEN Value(e.ta.cnt) ELSE Control(e.cra, e.ta)
<1>1. Sound(e, now, R)
  BY UpToDate, UpdateTAIs
<1> HIDE DEF e
<1>2. e.cra \in SUBSET ControlBits /\ Held(e.ta, e.cra, now)
  BY <1>1 DEF Sound, Shapes, SideA
<1>3. x \in ByteStates
  BY <1>2, ValueIs, ControlIs
<1>4. ReadA(e, reg) = [e EXCEPT !.last_read = x]
  BY DEF ReadA
<1> HIDE DEF x
<1> QED BY <1>1, <1>3, <1>4, WithRead DEF e

LEMMA ReadBIs ==
  ASSUME NEW now \in 0..LastClk, NEW R, NEW c, Sound(c, now, R), NEW reg
  PROVE  Sound(ReadB(UpdateTB(c, now), reg), now, ByteStates)
<1> DEFINE e == UpdateTB(c, now)
           x == IF reg = "TBL" THEN Value(e.tb.cnt) ELSE Control(e.crb, e.tb)
<1>1. Sound(e, now, R)
  BY UpToDate, UpdateTBIs
<1> HIDE DEF e
<1>2. e.crb \in SUBSET ControlBits /\ Held(e.tb, InputB(e.crb), now)
  BY <1>1 DEF Sound, Shapes, SideB
<1>3. x \in ByteStates
  BY <1>2, ValueIs, ControlIs
<1>4. ReadB(e, reg) = [e EXCEPT !.last_read = x]
  BY DEF ReadB
<1> HIDE DEF x
<1> QED BY <1>1, <1>3, <1>4, WithRead DEF e

(* Both alarms are set anew; then what they are needed for does not matter. *)
LEMMA BothSet ==
  ASSUME NEW now \in 0..LastClk, NEW R, NEW c, Sound(c, now, R)
  PROVE  LET d == [c EXCEPT !.ta = SetAlarm(@), !.tb = SetAlarm(@)] IN
         /\ Sound(d, now, R) /\ SameControl(c, d)
         /\ d.irqflags = c.irqflags
         /\ d.ta.alarmclk = Upcoming(d.ta) /\ d.tb.alarmclk = Upcoming(d.tb)
<1> DEFINE a == SetAlarm(c.ta)
           b == SetAlarm(c.tb)
           d == [c EXCEPT !.ta = SetAlarm(@), !.tb = SetAlarm(@)]
<1>1. c \in Shapes(now, R) /\ Held(c.ta, c.cra, now) /\ Held(c.tb, InputB(c.crb), now)
  BY DEF Sound, SideA, SideB
<1>2. Held(a, c.cra, now) /\ Agreed(a) /\ a.alarmclk = Upcoming(a)
  BY <1>1, SetAlarmHolds
<1>3. Held(b, InputB(c.crb), now) /\ Agreed(b) /\ b.alarmclk = Upcoming(b)
  BY <1>1, SetAlarmHolds
<1>4. a \in Timer /\ b \in Timer
  BY <1>2, <1>3, HeldIsNear
<1>5. d = [c EXCEPT !.ta = a, !.tb = b]
  BY <1>1 DEF Shapes
<1> HIDE DEF a, b, d
<1>6. d \in Shapes(now, R) /\ d.ta = a /\ d.tb = b /\ SameControl(c, d)
      /\ d.irqflags = c.irqflags
  BY <1>1, <1>4, <1>5 DEF Shapes, SameControl
<1>7. SideA(d, now) /\ SideB(d, now)
  BY <1>2, <1>3, <1>6 DEF SideA, SideB, SameControl
<1> QED BY <1>2, <1>3, <1>6, <1>7 DEF Sound, d

LEMMA ReadFlagsIs ==
  ASSUME NEW now \in 0..LastClk, NEW R, NEW c, Sound(c, now, R)
  PROVE  LET d == ReadFlags(c, now) IN
         Sound(d, now, ByteStates) /\ d.last_read.bits \subseteq Flags
<1> DEFINE b == [c EXCEPT !.rdi = now]
           e == UpdateBoth(b, now)
           f == AlarmsAfterRead(e)
           x == Byte(Visible(f.irqflags))
           g == ClearInt(f)
           h == [g EXCEPT !.irqflags = {}, !.last_read = x]
           d == ReadFlags(c, now)
<1>1. now \in Nat /\ now \in 0..now
  BY ClkInNat
<1>2. Sound(b, now, R)
  <2>1. c \in Shapes(now, R) /\ SideA(c, now) /\ SideB(c, now)
    BY DEF Sound
  <2>2. b \in Shapes(now, R) /\ b.ta = c.ta /\ b.tb = c.tb /\ SameControl(c, b)
        /\ b.irqflags = c.irqflags
    BY <1>1, <2>1 DEF Shapes, SameControl
  <2> HIDE DEF b
  <2> QED BY <2>1, <2>2, SideAStays, SideBStays DEF Sound
<1>3. d = FlagsRead(f)
  BY DEF ReadFlags, BeforeRead
<1> HIDE DEF b, d
<1>4. Sound(e, now, R)
  BY <1>1, <1>2, UpdateBothIs
<1> HIDE DEF e
<1>5. Sound(f, now, R) /\ f.ta.alarmclk = Upcoming(f.ta) /\ f.tb.alarmclk = Upcoming(f.tb)
  BY <1>4, BothSet DEF AlarmsAfterRead
<1> HIDE DEF f
<1>6. d = h
  BY <1>3 DEF FlagsRead
<1>7. f \in Shapes(now, R) /\ SideA(f, now) /\ SideB(f, now)
  BY <1>5 DEF Sound
<1>8. x \in ByteStates /\ x.bits \subseteq Flags
  <2>1. f.irqflags \in SUBSET (Flags \cup {"TBB"})
    BY <1>7 DEF Shapes
  <2>2. Visible(f.irqflags) \subseteq Flags
    BY <2>1 DEF Visible, Given
  <2> QED BY <2>2, ByteIs
<1> HIDE DEF x
<1>9. g \in Shapes(now, R) /\ g.ta = f.ta /\ g.tb = f.tb /\ SameControl(f, g)
  <2>1. 0 \in 0..now + 3
    BY <1>1
  <2> QED BY <1>7, <2>1 DEF ClearInt, Shapes, SameControl
<1> HIDE DEF g
<1>10. h \in Shapes(now, ByteStates) /\ h.ta = g.ta /\ h.tb = g.tb /\ SameControl(g, h)
       /\ h.last_read = x
  BY <1>8, <1>9 DEF Shapes, SameControl
<1> HIDE DEF h
<1>11. SideA(h, now) /\ SideB(h, now)
  BY <1>5, <1>7, <1>9, <1>10 DEF SideA, SideB, SameControl
<1> QED BY <1>6, <1>8, <1>10, <1>11 DEF Sound, d

(* ciacore_store_internal: the latches.                                    *)
LEMMA WriteTimerHolds ==
  ASSUME NEW now \in 0..LastClk, now + 1 \in 0..LastClk, NEW t, NEW ctl,
         Held(t, ctl, now), t.clk = now, NEW reg, NEW byte,
         reg \in {"TAL", "TBL"} => byte \in 0..MaxLatch
  PROVE  LET r == WriteTimer(t, reg, byte) IN
         Held(r, ctl, now + 1) /\ Agreed(r) /\ r.alarmclk = Upcoming(r)
<1> DEFINE s == IF reg \in {"TAL", "TBL"} THEN WithLatchLo(t, byte) ELSE WithLatchHi(t)
<1>1. Held(s, ctl, now + 1)
  BY LatchLoHolds, LatchHiHolds
<1>2. WriteTimer(t, reg, byte) = SetAlarm(s)
  BY DEF WriteTimer
<1> HIDE DEF s
<1> QED BY <1>1, <1>2, SetAlarmHolds

(* A timer is replaced by one that is right at the next tick.              *)
LEMMA NewTA ==
  ASSUME NEW now \in 0..LastClk, NEW R, NEW c, Sound(c, now, R),
         NEW t, Held(t, c.cra, now + 1), Agreed(t), t.alarmclk = Upcoming(t)
  PROVE  Sound([c EXCEPT !.ta = t], now + 1, R)
<1> DEFINE d == [c EXCEPT !.ta = t]
<1>1. c \in Shapes(now + 1, R) /\ SideB(c, now + 1)
  BY SoundLater DEF Sound
<1>2. t \in Timer
  BY DEF Held
<1>3. d \in Shapes(now + 1, R) /\ d.ta = t /\ d.tb = c.tb /\ SameControl(c, d)
  BY <1>1, <1>2, WithTA
<1> HIDE DEF d
<1>4. SideB(d, now + 1)
  BY <1>1, <1>3, SideBStays
<1>5. SideA(d, now + 1)
  BY <1>3 DEF SideA, SameControl
<1> QED BY <1>3, <1>4, <1>5 DEF Sound, d

LEMMA NewTB ==
  ASSUME NEW now \in 0..LastClk, NEW R, NEW c, Sound(c, now, R),
         NEW t, Held(t, InputB(c.crb), now + 1), Agreed(t), t.alarmclk = Upcoming(t)
  PROVE  Sound([c EXCEPT !.tb = t], now + 1, R)
<1> DEFINE d == [c EXCEPT !.tb = t]
<1>1. c \in Shapes(now + 1, R) /\ SideA(c, now + 1)
  BY SoundLater DEF Sound
<1>2. t \in Timer
  BY DEF Held
<1>3. d \in Shapes(now + 1, R) /\ d.tb = t /\ d.ta = c.ta /\ SameControl(c, d)
      /\ d.irqflags = c.irqflags
  BY <1>1, <1>2, WithTB
<1> HIDE DEF d
<1>4. SideA(d, now + 1)
  BY <1>1, <1>3, SideAStays
<1>5. SideB(d, now + 1)
  BY <1>3 DEF SideB, SameControl
<1> QED BY <1>3, <1>4, <1>5 DEF Sound, d

LEMMA WriteTAIs ==
  ASSUME NEW now \in 0..LastClk, now + 1 \in 0..LastClk, NEW R, NEW c, Sound(c, now, R),
         NEW reg, NEW byte, reg \in {"TAL", "TBL"} => byte \in 0..MaxLatch
  PROVE  Sound([UpdateTA(c, now) EXCEPT !.ta = WriteTimer(@, reg, byte)], now + 1, R)
<1> DEFINE e == UpdateTA(c, now)
           t == WriteTimer(e.ta, reg, byte)
<1>1. Sound(e, now, R) /\ e.ta.clk = now
  <2>1. Sound(e, now, R) /\ e.ta.clk >= now
    BY UpToDate, UpdateTAIs
  <2> HIDE DEF e
  <2> QED BY <2>1, UpToDate
<1> HIDE DEF e
<1>2. e \in Shapes(now, R) /\ Held(e.ta, e.cra, now)
  BY <1>1 DEF Sound, SideA
<1>3. Held(t, e.cra, now + 1) /\ Agreed(t) /\ t.alarmclk = Upcoming(t)
  BY <1>1, <1>2, WriteTimerHolds
<1>4. [e EXCEPT !.ta = WriteTimer(@, reg, byte)] = [e EXCEPT !.ta = t]
  BY <1>2 DEF Shapes
<1> HIDE DEF t
<1>5. Sound([e EXCEPT !.ta = t], now + 1, R)
  BY <1>1, <1>3, NewTA
<1> QED BY <1>4, <1>5 DEF e

LEMMA WriteTBIs ==
  ASSUME NEW now \in 0..LastClk, now + 1 \in 0..LastClk, NEW R, NEW c, Sound(c, now, R),
         NEW reg, NEW byte, reg \in {"TAL", "TBL"} => byte \in 0..MaxLatch
  PROVE  Sound([UpdateTB(c, now) EXCEPT !.tb = WriteTimer(@, reg, byte)], now + 1, R)
<1> DEFINE e == UpdateTB(c, now)
           t == WriteTimer(e.tb, reg, byte)
<1>1. Sound(e, now, R) /\ e.tb.clk = now
  <2>1. Sound(e, now, R) /\ e.tb.clk >= now
    BY UpToDate, UpdateTBIs
  <2> HIDE DEF e
  <2> QED BY <2>1, UpToDate
<1> HIDE DEF e
<1>2. e \in Shapes(now, R) /\ Held(e.tb, InputB(e.crb), now)
  BY <1>1 DEF Sound, SideB
<1>3. Held(t, InputB(e.crb), now + 1) /\ Agreed(t) /\ t.alarmclk = Upcoming(t)
  BY <1>1, <1>2, WriteTimerHolds
<1>4. [e EXCEPT !.tb = WriteTimer(@, reg, byte)] = [e EXCEPT !.tb = t]
  BY <1>2 DEF Shapes
<1> HIDE DEF t
<1>5. Sound([e EXCEPT !.tb = t], now + 1, R)
  BY <1>1, <1>3, NewTB
<1> QED BY <1>4, <1>5 DEF e

(* The mask.  An enabled source gets its alarm; a disabled one needs none. *)
LEMMA WriteMaskIs ==
  ASSUME NEW now \in 0..LastClk, NEW R, NEW c, Sound(c, now, R),
         NEW byte \in SUBSET Flags
  PROVE  Sound(WriteMask(c, byte, now), now, R)
<1> DEFINE e == UpdateBoth(c, now)
           m == MaskAfter(e.mask, byte)
           f == [e EXCEPT !.mask = MaskAfter(@, byte)]
           g == Unmasked(f, now + 1)
           a == IF "TA" \in g.mask THEN SetAlarm(g.ta) ELSE g.ta
           b == IF "TB" \in g.mask THEN SetAlarm(g.tb) ELSE g.tb
           d == WriteMask(c, byte, now)
<1>1. now \in Nat /\ now \in 0..now /\ now + 1 \in 0..now + 1
  BY ClkInNat
<1>2. Sound(e, now, R)
  BY <1>1, UpdateBothIs
<1>3. d = AlarmsOfSources(g)
  BY DEF WriteMask
<1> HIDE DEF e, d
<1>4. e \in Shapes(now, R) /\ SideA(e, now) /\ SideB(e, now)
  BY <1>2 DEF Sound
<1>5. m \in SUBSET Sources
  BY <1>4 DEF MaskAfter, Shapes, Flags
<1>6. f \in Shapes(now, R) /\ f.ta = e.ta /\ f.tb = e.tb /\ f.cra = e.cra
      /\ f.crb = e.crb /\ f.irqflags = e.irqflags /\ f.mask = m
  BY <1>4, <1>5 DEF Shapes
<1> HIDE DEF m, f
<1>7. /\ g \in Shapes(now, R) /\ g.ta = f.ta /\ g.tb = f.tb /\ SameControl(f, g)
  <2>1. SameControl(f, f)
    BY DEF SameControl
  <2> QED BY <1>1, <1>6, <2>1, DoSetIntIs DEF Unmasked
<1> HIDE DEF g
<1>8. Held(g.ta, g.cra, now) /\ Agreed(g.ta)
      /\ ("COUNTTA" \in g.crb \/ "START" \notin g.cra => g.ta.alarmclk = Upcoming(g.ta))
  BY <1>4, <1>6, <1>7 DEF SideA, WantedA, NeededA, SameControl
<1>9. Held(g.tb, InputB(g.crb), now) /\ Agreed(g.tb)
      /\ ("START" \notin g.crb => g.tb.alarmclk = Upcoming(g.tb))
  BY <1>4, <1>6, <1>7 DEF SideB, WantedB, SameControl
<1>10. /\ Held(a, g.cra, now) /\ Agreed(a)
       /\ "TA" \in g.mask \/ "COUNTTA" \in g.crb \/ "START" \notin g.cra
            => a.alarmclk = Upcoming(a)
  BY <1>8, SetAlarmHolds
<1>11. /\ Held(b, InputB(g.crb), now) /\ Agreed(b)
       /\ "TB" \in g.mask \/ "START" \notin g.crb => b.alarmclk = Upcoming(b)
  BY <1>9, SetAlarmHolds
<1>12. a \in Timer /\ b \in Timer
  BY <1>10, <1>11, HeldIsNear
<1>13. d = [g EXCEPT !.ta = a, !.tb = b]
  BY <1>3, <1>7 DEF AlarmsOfSources, Shapes
<1> HIDE DEF a, b
<1>14. d \in Shapes(now, R) /\ d.ta = a /\ d.tb = b /\ SameControl(g, d)
  BY <1>7, <1>12, <1>13 DEF Shapes, SameControl
<1>15. SideA(d, now) /\ SideB(d, now)
  BY <1>10, <1>11, <1>14 DEF SideA, SideB, WantedA, NeededA, WantedB, NeededB, SameControl
<1> QED BY <1>14, <1>15 DEF Sound, d

(* The control registers.                                                  *)
LEMMA WriteCRAIs ==
  ASSUME NEW now \in 0..LastClk, now + 1 \in 0..LastClk, NEW R, NEW c, Sound(c, now, R),
         NEW byte \in SUBSET ControlBits
  PROVE  Sound(WriteCRA(c, byte, now), now + 1, R)
<1> DEFINE b == [c EXCEPT !.tat = IF Starts(byte, c.cra) THEN 1 ELSE @]
           e == UpdateTA(b, now)
           ctl == byte \ {"FLOAD"}
           w == WithControl(e.ta, byte)
           t == SetAlarm(w)
           d == WriteCRA(c, byte, now)
<1>1. now \in 0..now
  BY UpToDate
<1>2. Sound(b, now, R)
  <2>1. c \in Shapes(now, R) /\ SideA(c, now) /\ SideB(c, now)
    BY DEF Sound
  <2>2. b \in Shapes(now, R) /\ b.ta = c.ta /\ b.tb = c.tb /\ SameControl(c, b)
        /\ b.irqflags = c.irqflags
    BY <2>1 DEF Shapes, SameControl
  <2> HIDE DEF b
  <2> QED BY <2>1, <2>2, SideAStays, SideBStays DEF Sound
<1>3. d = [e EXCEPT !.ta = SetAlarm(WithControl(@, byte)), !.cra = byte \ {"FLOAD"}]
  BY DEF WriteCRA
<1> HIDE DEF b, d
<1>4. Sound(e, now, R) /\ e.ta.clk = now
  <2>1. Sound(e, now, R) /\ e.ta.clk >= now
    BY <1>1, <1>2, UpdateTAIs
  <2> HIDE DEF e
  <2> QED BY <2>1, UpToDate
<1> HIDE DEF e
<1>5. e \in Shapes(now + 1, R) /\ SideB(e, now + 1)
  BY <1>4, SoundLater DEF Sound
<1>6. Held(w, ctl, now + 1)
  <2>1. Held(e.ta, e.cra, now)
    BY <1>4 DEF Sound, SideA
  <2> QED BY <1>4, <2>1, ControlHolds
<1> HIDE DEF w
<1>7. Held(t, ctl, now + 1) /\ Agreed(t) /\ t.alarmclk = Upcoming(t)
  BY <1>6, SetAlarmHolds
<1>8. d = [e EXCEPT !.ta = t, !.cra = ctl]
  BY <1>3, <1>5 DEF Shapes, w
<1>9. t \in Timer /\ ctl \in SUBSET ControlBits
  BY <1>7 DEF Held
<1> HIDE DEF t, ctl
<1>10. d \in Shapes(now + 1, R) /\ d.ta = t /\ d.tb = e.tb /\ d.cra = ctl
       /\ d.crb = e.crb /\ d.mask = e.mask
  BY <1>5, <1>8, <1>9 DEF Shapes
<1>11. SideA(d, now + 1)
  BY <1>7, <1>10 DEF SideA
<1>12. SideB(d, now + 1)
  BY <1>5, <1>10 DEF SideB, WantedB, NeededB
<1> QED BY <1>10, <1>11, <1>12 DEF Sound, d

LEMMA WriteCRBIs ==
  ASSUME NEW now \in 0..LastClk, now + 1 \in 0..LastClk, NEW R, NEW c, Sound(c, now, R),
         NEW byte \in SUBSET ControlBits
  PROVE  Sound(WriteCRB(c, byte, now), now + 1, R)
<1> DEFINE b == [c EXCEPT !.tbt = IF Starts(byte, c.crb) THEN 1 ELSE @]
           e == UpdateBoth(b, now)
           crb == byte \ {"FLOAD"}
           ctl == InputB(crb)
           w == WithControl(e.tb, InputB(byte))
           t == SetAlarm(w)
           s == IF "COUNTTA" \in byte THEN SetAlarm(e.ta) ELSE e.ta
           d == WriteCRB(c, byte, now)
<1>1. now \in 0..now
  BY UpToDate
<1>2. Sound(b, now, R)
  <2>1. c \in Shapes(now, R) /\ SideA(c, now) /\ SideB(c, now)
    BY DEF Sound
  <2>2. b \in Shapes(now, R) /\ b.ta = c.ta /\ b.tb = c.tb /\ SameControl(c, b)
        /\ b.irqflags = c.irqflags
    BY <2>1 DEF Shapes, SameControl
  <2> HIDE DEF b
  <2> QED BY <2>1, <2>2, SideAStays, SideBStays DEF Sound
<1>3. d = [e EXCEPT !.ta = IF "COUNTTA" \in byte THEN SetAlarm(@) ELSE @,
                    !.tb = SetAlarm(WithControl(@, InputB(byte))),
                    !.crb = byte \ {"FLOAD"}]
  BY DEF WriteCRB
<1> HIDE DEF b, d
<1>4. Sound(e, now, R) /\ e.tb.clk = now
  <2>1. Sound(e, now, R) /\ e.tb.clk >= now
    BY <1>1, <1>2, UpdateBothIs
  <2> HIDE DEF e
  <2> QED BY <2>1, UpToDate
<1> HIDE DEF e
<1>5. e \in Shapes(now + 1, R) /\ SideA(e, now + 1)
  BY <1>4, SoundLater DEF Sound
<1>6. Held(w, ctl, now + 1)
  <2>1. Held(e.tb, InputB(e.crb), now)
    BY <1>4 DEF Sound, SideB
  <2>2. /\ "START" \in InputB(byte) => "START" \in ctl
        /\ "CNT" \notin InputB(byte) => "CNT" \notin ctl
        /\ "CR_ONESHOT" \in ctl => "CR_ONESHOT" \in InputB(byte)
    BY DEF InputB
  <2> HIDE DEF ctl
  <2> QED BY <1>4, <2>1, <2>2, ControlHolds
<1> HIDE DEF w
<1>7. Held(t, ctl, now + 1) /\ Agreed(t) /\ t.alarmclk = Upcoming(t)
  BY <1>6, SetAlarmHolds
<1>8. /\ Held(s, e.cra, now + 1) /\ Agreed(s)
      /\ "COUNTTA" \in byte \/ ("TA" \in e.mask /\ "IR" \notin e.irqflags)
            \/ "START" \notin e.cra
           => s.alarmclk = Upcoming(s)
  <2>1. Held(e.ta, e.cra, now + 1) /\ Agreed(e.ta)
        /\ (WantedA(e) => e.ta.alarmclk = Upcoming(e.ta))
    BY <1>5 DEF SideA
  <2> QED BY <2>1, SetAlarmHolds DEF WantedA, NeededA
<1>9. d = [e EXCEPT !.ta = s, !.tb = t, !.crb = crb]
  BY <1>3, <1>5 DEF Shapes, w
<1>10. t \in Timer /\ s \in Timer /\ crb \in SUBSET ControlBits
  BY <1>7, <1>8 DEF Held
<1>11. "COUNTTA" \in crb => "COUNTTA" \in byte
  OBVIOUS
<1> HIDE DEF t, s, crb
<1>12. d \in Shapes(now + 1, R) /\ d.ta = s /\ d.tb = t /\ d.cra = e.cra
       /\ d.crb = crb /\ d.mask = e.mask /\ d.irqflags = e.irqflags
  BY <1>5, <1>9, <1>10 DEF Shapes
<1>13. SideA(d, now + 1)
  BY <1>8, <1>11, <1>12 DEF SideA, WantedA, NeededA
<1>14. SideB(d, now + 1)
  BY <1>7, <1>12 DEF SideB
<1> QED BY <1>12, <1>13, <1>14 DEF Sound, d

LEMMA WriteIs ==
  ASSUME NEW now \in 0..LastClk, now + 1 \in 0..LastClk, NEW R, NEW c, Sound(c, now, R),
         NEW reg, NEW byte,
         \/ reg \in {"TAL", "TBL"} /\ byte \in 0..MaxLatch
         \/ reg \in {"TAH", "TBH"}
         \/ reg = "ICR" /\ byte \in SUBSET Flags
         \/ reg \in {"CRA", "CRB"} /\ byte \in SUBSET ControlBits
  PROVE  Sound(Write(c, reg, byte, now), now + 1, R)
<1>1. ASSUME reg \in {"TAL", "TAH"} PROVE Sound(Write(c, reg, byte, now), now + 1, R)
  <2>1. Write(c, reg, byte, now)
          = [UpdateTA(c, now) EXCEPT !.ta = WriteTimer(@, reg, byte)]
    BY <1>1 DEF Write
  <2>2. reg \in {"TAL", "TBL"} => byte \in 0..MaxLatch
    BY <1>1
  <2>3. Sound([UpdateTA(c, now) EXCEPT !.ta = WriteTimer(@, reg, byte)], now + 1, R)
    BY <2>2, WriteTAIs
  <2> QED BY <2>1, <2>3
<1>2. ASSUME reg \in {"TBL", "TBH"} PROVE Sound(Write(c, reg, byte, now), now + 1, R)
  <2>1. Write(c, reg, byte, now)
          = [UpdateTB(c, now) EXCEPT !.tb = WriteTimer(@, reg, byte)]
    BY <1>2 DEF Write
  <2>2. reg \in {"TAL", "TBL"} => byte \in 0..MaxLatch
    BY <1>2
  <2>3. Sound([UpdateTB(c, now) EXCEPT !.tb = WriteTimer(@, reg, byte)], now + 1, R)
    BY <2>2, WriteTBIs
  <2> QED BY <2>1, <2>3
<1>3. ASSUME reg = "ICR" PROVE Sound(Write(c, reg, byte, now), now + 1, R)
  <2>1. Write(c, reg, byte, now) = WriteMask(c, byte, now)
    BY <1>3 DEF Write
  <2> QED BY <1>3, <2>1, WriteMaskIs, SoundLater
<1>4. ASSUME reg = "CRA" PROVE Sound(Write(c, reg, byte, now), now + 1, R)
  <2>1. Write(c, reg, byte, now) = WriteCRA(c, byte, now)
    BY <1>4 DEF Write
  <2> QED BY <1>4, <2>1, WriteCRAIs
<1>5. ASSUME reg = "CRB" PROVE Sound(Write(c, reg, byte, now), now + 1, R)
  <2>1. Write(c, reg, byte, now) = WriteCRB(c, byte, now)
    BY <1>5 DEF Write
  <2> QED BY <1>5, <2>1, WriteCRBIs
<1> QED BY <1>1, <1>2, <1>3, <1>4, <1>5

LEMMA ReadIs ==
  ASSUME NEW now \in 0..LastClk, NEW R, NEW c, Sound(c, now, R),
         NEW reg \in {"TAL", "TBL", "CRA", "CRB", "ICR"}
  PROVE  LET d == Read(c, reg, now) IN
         Sound(d, now, ByteStates) /\ (reg = "ICR" => d.last_read.bits \subseteq Flags)
<1>1. CASE reg \in {"TAL", "CRA"}
  <2>1. Read(c, reg, now) = ReadA(UpdateTA(c, now), reg)
    BY <1>1 DEF Read
  <2> QED BY <1>1, <2>1, ReadAIs
<1>2. CASE reg \in {"TBL", "CRB"}
  <2>1. Read(c, reg, now) = ReadB(UpdateTB(c, now), reg)
    BY <1>2 DEF Read
  <2> QED BY <1>2, <2>1, ReadBIs
<1>3. CASE reg = "ICR"
  <2>1. Read(c, reg, now) = ReadFlags(c, now)
    BY <1>3 DEF Read
  <2> QED BY <1>3, <2>1, ReadFlagsIs
<1> QED BY <1>1, <1>2, <1>3

(* What an instruction may do in one of its cycles.                        *)
LEMMA AccessesAre ==
  ASSUME NEW a \in Accesses
  PROVE  \/ a = NoAccess \/ a = WriteOld \/ a = WriteNew
         \/ \E reg \in {"TAL", "TBL", "CRA", "CRB", "ICR"} : a = ReadReg(reg)
         \/ \E reg, byte : /\ a = WriteReg(reg, byte)
                           /\ \/ reg \in {"TAL", "TBL"} /\ byte \in 0..MaxLatch
                              \/ reg \in {"TAH", "TBH"}
                              \/ reg = "ICR" /\ byte \in SUBSET Flags
                              \/ reg \in {"CRA", "CRB"} /\ byte \in SUBSET ControlBits
<1>1. CASE a \in Reads
  BY <1>1, CiaBusAssumption DEF Reads
<1>2. CASE a \in Writes
  <2>1. \/ a \in {WriteReg(reg, n) : reg \in {"TAL", "TBL"}, n \in Latches}
        \/ a \in {WriteReg(reg, 0) : reg \in {"TAH", "TBH"}}
        \/ a \in {WriteReg("ICR", b) : b \in WrittenMasks}
        \/ a \in {WriteReg("CRA", b) : b \in ControlA}
        \/ a \in {WriteReg("CRB", b) : b \in ControlB}
    BY <1>2 DEF Writes
  <2>2. CASE a \in {WriteReg(reg, n) : reg \in {"TAL", "TBL"}, n \in Latches}
    BY <2>2, CiaBusAssumption
  <2>3. CASE a \in {WriteReg(reg, 0) : reg \in {"TAH", "TBH"}}
    BY <2>3
  <2>4. CASE a \in {WriteReg("ICR", b) : b \in WrittenMasks}
    BY <2>4, CiaBusAssumption
  <2>5. CASE a \in {WriteReg("CRA", b) : b \in ControlA}
    BY <2>5, CiaBusAssumption
  <2>6. CASE a \in {WriteReg("CRB", b) : b \in ControlB}
    BY <2>6, CiaBusAssumption
  <2> QED BY <2>1, <2>2, <2>3, <2>4, <2>5, <2>6
<1> QED BY <1>1, <1>2 DEF Accesses

LEMMA AccessIs ==
  ASSUME NEW now \in 0..LastClk, now + 1 \in 0..LastClk,
         NEW c, Sound(c, now, ByteStates),
         NEW a \in Accesses, a = WriteOld => c.last_read.bits \subseteq Flags
  PROVE  LET d == Access(c, a, now) IN
         /\ Sound(d, now + 1, ByteStates)
         /\ a = ReadReg("ICR") => d.last_read.bits \subseteq Flags
<1>1. CASE a = NoAccess
  <2>1. Access(c, a, now) = [c EXCEPT !.last_read = Byte({})]
    BY <1>1 DEF Access, NoAccess
  <2>2. Byte({}) \in ByteStates
    BY ByteIs
  <2>3. Sound([c EXCEPT !.last_read = Byte({})], now, ByteStates)
    BY <2>2, WithRead
  <2>4. a # ReadReg("ICR")
    BY <1>1 DEF NoAccess, ReadReg
  <2> QED BY <2>1, <2>3, <2>4, SoundLater
<1>2. ASSUME NEW reg \in {"TAL", "TBL", "CRA", "CRB", "ICR"}, a = ReadReg(reg)
      PROVE  LET d == Access(c, a, now) IN
             /\ Sound(d, now + 1, ByteStates)
             /\ a = ReadReg("ICR") => d.last_read.bits \subseteq Flags
  <2> DEFINE d == Read(c, reg, now)
  <2>1. Access(c, a, now) = d
    BY <1>2 DEF Access, ReadReg
  <2>2. a = ReadReg("ICR") => reg = "ICR"
    BY <1>2 DEF ReadReg
  <2>3. Sound(d, now, ByteStates) /\ (reg = "ICR" => d.last_read.bits \subseteq Flags)
    BY ReadIs
  <2> HIDE DEF d
  <2> QED BY <2>1, <2>2, <2>3, SoundLater
<1>3. ASSUME NEW reg, NEW byte,
             \/ reg \in {"TAL", "TBL"} /\ byte \in 0..MaxLatch
             \/ reg \in {"TAH", "TBH"}
             \/ reg = "ICR" /\ byte \in SUBSET Flags
             \/ reg \in {"CRA", "CRB"} /\ byte \in SUBSET ControlBits,
             a.kind \in {"write", "old", "new"}, a.reg = reg, Written(c, a) = byte
      PROVE  LET d == Access(c, a, now) IN
             /\ Sound(d, now + 1, ByteStates)
             /\ a = ReadReg("ICR") => d.last_read.bits \subseteq Flags
  <2>1. Access(c, a, now) = Write(c, reg, byte, now)
    BY <1>3 DEF Access
  <2>2. a # ReadReg("ICR")
    BY <1>3 DEF ReadReg
  <2>3. Sound(Write(c, reg, byte, now), now + 1, ByteStates)
    BY <1>3, WriteIs
  <2> QED BY <2>1, <2>2, <2>3
<1>4. ASSUME NEW reg, NEW byte, a = WriteReg(reg, byte),
             \/ reg \in {"TAL", "TBL"} /\ byte \in 0..MaxLatch
             \/ reg \in {"TAH", "TBH"}
             \/ reg = "ICR" /\ byte \in SUBSET Flags
             \/ reg \in {"CRA", "CRB"} /\ byte \in SUBSET ControlBits
      PROVE  LET d == Access(c, a, now) IN
             /\ Sound(d, now + 1, ByteStates)
             /\ a = ReadReg("ICR") => d.last_read.bits \subseteq Flags
  <2>1. a.kind = "write" /\ a.reg = reg /\ a.byte = byte
    BY <1>4 DEF WriteReg
  <2>2. Written(c, a) = byte
    BY <2>1 DEF Written
  <2> QED BY <1>3, <1>4, <2>1, <2>2
<1>5. CASE a = WriteOld
  <2>1. a.kind = "old" /\ a.reg = "ICR"
    BY <1>5 DEF WriteOld
  <2>2. Written(c, a) = c.last_read.bits
    BY <2>1 DEF Written
  <2> QED BY <1>3, <1>5, <2>1, <2>2
<1>6. CASE a = WriteNew
  <2>1. a.kind = "new" /\ a.reg = "ICR"
    BY <1>6 DEF WriteNew
  <2>2. Written(c, a) = Incremented(c.last_read.bits)
    BY <2>1 DEF Written
  <2>3. Incremented(c.last_read.bits) \in SUBSET Flags
    BY DEF Incremented, Flags, Sources
  <2> QED BY <1>3, <1>6, <2>1, <2>2, <2>3
<1> QED BY <1>1, <1>2, <1>4, <1>5, <1>6, AccessesAre

-----------------------------------------------------------------------------
(* What the emulator does between two instructions: the clock is moved     *)
(* back, and a snapshot is read.                                           *)
LEMMA BackIs ==
  ASSUME NEW tick \in Nat, NEW top \in Nat, tick <= top, OverflowSub <= top
  PROVE  Back(tick) \in 0..top - OverflowSub
BY CiaAssumption DEF Back

LEMMA CallbacksIs ==
  ASSUME NEW now \in 0..LastClk, NEW R, NEW c, Sound(c, now, R), OverflowSub < now
  PROVE  Sound(Callbacks(c, now), now - OverflowSub, R)
<1> DEFINE e == UpdateBoth(c, now)
           p == PreventClockOverflow(e.ta, OverflowSub)
           q == PreventClockOverflow(e.tb, OverflowSub)
           f == ChipMoved(c, now)
           a == Moved(e.ta)
           b == Moved(e.tb)
           d == Callbacks(c, now)
           then == now - OverflowSub
<1>1. now \in Nat /\ OverflowSub \in Nat /\ then \in Nat /\ now \in 0..now
      /\ then + 3 = (now + 3) - OverflowSub
  BY ClkInNat, CiaAssumption
<1>2. Sound(e, now, R) /\ e.ta.clk = now /\ e.tb.clk = now
  <2>1. Sound(e, now, R) /\ e.ta.clk >= now /\ e.tb.clk >= now
    BY <1>1, UpdateBothIs
  <2> HIDE DEF e
  <2> QED BY <2>1, UpToDate
<1>3. f = [e EXCEPT !.ta = PreventClockOverflow(@, OverflowSub),
                    !.tb = PreventClockOverflow(@, OverflowSub), !.rdi = Back(@)]
  BY DEF ChipMoved
<1>4. d = MachineMoved(f)
  BY DEF Callbacks
<1> HIDE DEF e, f, d
<1>5. e \in Shapes(now, R) /\ SideA(e, now) /\ SideB(e, now)
  BY <1>2 DEF Sound
<1>6. /\ Held(a, e.cra, then) /\ Agreed(a)
      /\ WantedA(e) => a.alarmclk = Upcoming(a)
  BY <1>2, <1>5, MovedHolds DEF SideA
<1>7. /\ Held(b, InputB(e.crb), then) /\ Agreed(b)
      /\ WantedB(e) => b.alarmclk = Upcoming(b)
  BY <1>2, <1>5, MovedHolds DEF SideB
<1>8. a \in Timer /\ b \in Timer /\ a = WarpAlarm(p) /\ b = WarpAlarm(q)
  BY <1>6, <1>7 DEF Held, Moved
<1>9. f.ta = p /\ f.tb = q /\ f = [e EXCEPT !.ta = p, !.tb = q, !.rdi = Back(e.rdi)]
  BY <1>3, <1>5 DEF Shapes
<1> HIDE DEF a, b, p, q
<1>10. d = [e EXCEPT !.ta = a, !.tb = b, !.rdi = Back(e.rdi), !.int_clk = Back(e.int_clk)]
  <2>1. d = [f EXCEPT !.ta = WarpAlarm(@), !.tb = WarpAlarm(@), !.int_clk = Back(@)]
    BY <1>4 DEF MachineMoved
  <2> QED BY <1>5, <1>8, <1>9, <2>1 DEF Shapes
<1>11. Back(e.rdi) \in 0..then /\ Back(e.int_clk) \in 0..then + 3
  <2>1. e.rdi \in 0..now /\ e.int_clk \in 0..now + 3
    BY <1>5 DEF Shapes
  <2>2. Back(e.rdi) \in 0..now - OverflowSub
    BY <1>1, <2>1, BackIs
  <2>3. Back(e.int_clk) \in 0..(now + 3) - OverflowSub
    <3> DEFINE top == now + 3
    <3>1. e.int_clk \in Nat /\ top \in Nat /\ e.int_clk <= top /\ OverflowSub <= top
      BY <1>1, <2>1
    <3> HIDE DEF top
    <3>2. Back(e.int_clk) \in 0..top - OverflowSub
      BY <3>1, BackIs
    <3> QED BY <3>2 DEF top
  <2> QED BY <1>1, <2>2, <2>3
<1> DEFINE x == Back(e.rdi)
           y == Back(e.int_clk)
<1> HIDE DEF x, y, then
<1>12. d \in Shapes(then, R) /\ d.ta = a /\ d.tb = b /\ SameControl(e, d)
       /\ d.irqflags = e.irqflags
  <2>1. d = [e EXCEPT !.ta = a, !.tb = b, !.rdi = x, !.int_clk = y]
    BY <1>10 DEF x, y
  <2>2. x \in 0..then /\ y \in 0..then + 3
    BY <1>11 DEF x, y
  <2> QED BY <1>5, <1>8, <2>1, <2>2 DEF Shapes, SameControl
<1>13. SideA(d, then) /\ SideB(d, then)
  BY <1>6, <1>7, <1>12 DEF SideA, SideB, WantedA, NeededA, WantedB, NeededB, SameControl
<1> QED BY <1>12, <1>13 DEF Sound, d, then

(* The chip as it is read from a snapshot that has been written at once.   *)
Restored(u, now) ==
  [u EXCEPT !.ta = LoadSnapshot(@, now), !.tb = LoadSnapshot(@, now),
            !.rdi = IF now - @ > 120 THEN 0 ELSE @]

LEMMA RestoredIs ==
  ASSUME NEW now \in 0..LastClk, NEW R, NEW c, Sound(c, now, R)
  PROVE  Sound(Restored(UpdateBoth(c, now), now), now, R)
<1> DEFINE e == UpdateBoth(c, now)
           a == LoadSnapshot(e.ta, now)
           b == LoadSnapshot(e.tb, now)
           x == IF now - e.rdi > 120 THEN 0 ELSE e.rdi
           d == Restored(e, now)
<1>1. now \in Nat /\ now \in 0..now
  BY ClkInNat
<1>2. Sound(e, now, R) /\ e.ta.clk = now /\ e.tb.clk = now
  <2>1. Sound(e, now, R) /\ e.ta.clk >= now /\ e.tb.clk >= now
    BY <1>1, UpdateBothIs
  <2> HIDE DEF e
  <2> QED BY <2>1, UpToDate
<1> HIDE DEF e
<1>3. e \in Shapes(now, R) /\ Held(e.ta, e.cra, now) /\ Held(e.tb, InputB(e.crb), now)
  BY <1>2 DEF Sound, SideA, SideB
<1>4. Held(a, e.cra, now) /\ Agreed(a) /\ a.alarmclk = Upcoming(a)
  BY <1>2, <1>3, LoadHolds
<1>5. Held(b, InputB(e.crb), now) /\ Agreed(b) /\ b.alarmclk = Upcoming(b)
  BY <1>2, <1>3, LoadHolds
<1>6. a \in Timer /\ b \in Timer
  BY <1>4, <1>5 DEF Held
<1>7. d = [e EXCEPT !.ta = a, !.tb = b, !.rdi = x]
  BY <1>3 DEF Restored, Shapes
<1>8. x \in 0..now
  BY <1>1, <1>3 DEF Shapes
<1> HIDE DEF a, b, x, d
<1>9. d \in Shapes(now, R) /\ d.ta = a /\ d.tb = b /\ SameControl(e, d)
  BY <1>3, <1>6, <1>7, <1>8 DEF Shapes, SameControl
<1>10. SideA(d, now) /\ SideB(d, now)
  BY <1>4, <1>5, <1>9 DEF SideA, SideB, SameControl
<1> QED BY <1>9, <1>10 DEF Sound, d, e

-----------------------------------------------------------------------------
(* The chip as the program has set it up.                                  *)
LEMMA IdleIs ==
  ASSUME NEW latch \in 0..MaxLatch
  PROVE  LET t == Idle(latch) IN
         /\ Held(t, {}, 1) /\ Agreed(t) /\ t.alarmclk = Upcoming(t)
<1> DEFINE t == Idle(latch)
<1>1. latch \in Nat /\ latch <= MaxLatch /\ ClockMax \in Int
  BY CiaBusAssumption, TimerAssumption
<1>2. t \in Timer /\ t.state = {} /\ t.cnt = latch /\ t.latch = latch /\ t.clk = 1
      /\ t.alarmclk = ClockMax /\ t.pending = ClockMax
  BY <1>1 DEF Idle, Timer
<1> HIDE DEF t
<1>3. Settled(t) /\ Regular(t) /\ Kept(t, {}) /\ Idling(t)
  BY <1>1, <1>2 DEF Settled, Regular, Kept, Idling
<1>4. Silent(t)
  <2>1. Course(t) \in Courses /\ Course(t)[0] = t
    BY <1>2, CourseIs
  <2>2. ASSUME NEW k \in Nat PROVE ~Zero(t, k)
    <3>1. 0 + k = k
      OBVIOUS
    <3> QED BY <1>3, <2>1, <3>1, IdleStays DEF Zero
  <2> QED BY <2>2 DEF Silent
<1>5. Upcoming(t) = ClockMax
  BY <1>2, <1>3, <1>4, SilentIsUpcoming
<1>6. Held(t, {}, 1)
  BY <1>2, <1>3 DEF Held
<1> QED BY <1>2, <1>5, <1>6 DEF Agreed, t

LEMMA FreshIs ==
  ASSUME NEW model \in Models, NEW setup \in Setups
  PROVE  Sound(Fresh(model, setup), 1, ByteStates)
<1> DEFINE c == Fresh(model, setup)
           a == Idle(setup.la)
           b == Idle(setup.lb)
<1>1. setup.la \in 0..MaxLatch /\ setup.lb \in 0..MaxLatch /\ setup.mask \in SUBSET Sources
  BY CiaBusAssumption
<1>2. Held(a, {}, 1) /\ Agreed(a) /\ a.alarmclk = Upcoming(a)
  BY <1>1, IdleIs
<1>3. Held(b, {}, 1) /\ Agreed(b) /\ b.alarmclk = Upcoming(b)
  BY <1>1, IdleIs
<1>4. a \in Timer /\ b \in Timer /\ Byte({}) \in ByteStates
  BY <1>2, <1>3, ByteIs DEF Held
<1>5. c = [model |-> model, ta |-> a, tb |-> b,
           mask |-> setup.mask,
           irqflags |-> {}, cra |-> {}, crb |-> {}, tat |-> 0, tbt |-> 0, rdi |-> 0,
           line |-> FALSE, int_clk |-> 0, last_read |-> Byte({})]
  BY DEF Fresh
<1> HIDE DEF a, b, c
<1>6. c \in Shapes(1, ByteStates) /\ c.ta = a /\ c.tb = b /\ c.cra = {} /\ c.crb = {}
  BY <1>1, <1>4, <1>5 DEF Shapes
<1>7. InputB({}) = {}
  BY DEF InputB
<1>8. SideA(c, 1) /\ SideB(c, 1)
  BY <1>2, <1>3, <1>6, <1>7 DEF SideA, SideB
<1> QED BY <1>6, <1>8 DEF Sound, c

LEMMA SetUpIs ==
  ASSUME NEW model \in Models, NEW setup \in Setups
  PROVE  Sound(Write(Write(Fresh(model, setup), "CRB", setup.crb, 1),
                     "CRA", setup.cra, 5), 6, ByteStates)
<1> DEFINE c == Fresh(model, setup)
           d == Write(c, "CRB", setup.crb, 1)
<1>1. setup.cra \in SUBSET ControlBits /\ setup.crb \in SUBSET ControlBits
  BY CiaBusAssumption
<1>2. LastClk \in Nat /\ 6 <= LastClk
  BY CiaAssumption, CiaBusAssumption DEF LastClk, LastTick
<1>3. Sound(c, 1, ByteStates)
  BY FreshIs
<1> HIDE DEF c
<1>4. Sound(d, 2, ByteStates)
  <2>1. 1 \in 0..LastClk /\ 1 + 1 \in 0..LastClk /\ 1 + 1 = 2
    BY <1>2
  <2>2. Sound(d, 1 + 1, ByteStates)
    BY <1>1, <1>3, <2>1, WriteIs
  <2> QED BY <2>1, <2>2
<1> HIDE DEF d
<1>5. Sound(d, 5, ByteStates)
  <2>1. 2 \in 0..LastClk /\ 3 \in 0..LastClk /\ 4 \in 0..LastClk
        /\ 2 + 1 = 3 /\ 3 + 1 = 4 /\ 4 + 1 = 5
    BY <1>2
  <2>2. Sound(d, 2 + 1, ByteStates)
    BY <1>4, <2>1, SoundLater
  <2>3. Sound(d, 3 + 1, ByteStates)
    BY <2>1, <2>2, SoundLater
  <2>4. Sound(d, 4 + 1, ByteStates)
    BY <2>1, <2>3, SoundLater
  <2> QED BY <2>1, <2>4
<1>6. Sound(Write(d, "CRA", setup.cra, 5), 6, ByteStates)
  <2>1. 5 \in 0..LastClk /\ 5 + 1 \in 0..LastClk /\ 5 + 1 = 6
    BY <1>2
  <2>2. Sound(Write(d, "CRA", setup.cra, 5), 5 + 1, ByteStates)
    BY <1>1, <1>5, <2>1, WriteIs
  <2> QED BY <2>1, <2>2
<1> QED BY <1>6 DEF d, c

-----------------------------------------------------------------------------
(* The invariant.  The chip is right at every tick: each timer has been    *)
(* brought to a tick at or before the clock, in a state from which         *)
(* ciat_set_alarm and ciat_update agree about what follows, and its alarm  *)
(* stands at its next underflow where somebody needs it.  The cycles of    *)
(* the bus, which an instruction takes from the bounds, bound the clock,   *)
(* and what INC writes back are the flags that it has read.                *)
Bounds == left \in [accesses : 0..MaxAccesses, idle : 0..MaxIdle, host : 0..MaxHost]

ClockIsBounded ==
  clk \in 1..LastClk /\ clk + Len(cycles) + 6 * left.accesses + 3 * left.idle <= LastClk

WritesBackFlags(c, q) ==
  \A i \in 1..Len(q) : q[i] = WriteOld =>
    IF i = 1 THEN c.last_read.bits \subseteq Flags ELSE q[i - 1] = ReadReg("ICR")

CiaInv == /\ Sound(cia, clk, ByteStates)
          /\ cycles \in Seq(Accesses)
          /\ Bounds
          /\ ClockIsBounded
          /\ WritesBackFlags(cia, cycles)

LEMMA InstructionsAre ==
  /\ IdleInstruction \in Seq(Accesses) /\ Len(IdleInstruction) = 3
     /\ \A c : WritesBackFlags(c, IdleInstruction)
  /\ \A q \in Instructions : q \in Seq(Accesses) /\ Len(q) \in 0..6
                             /\ \A c : WritesBackFlags(c, q)
<1> DEFINE f == Fetches(3)
<1>1. f \in Seq(Accesses) /\ Len(f) = 3 /\ \A i \in 1..3 : f[i] = NoAccess
  <2>1. f = [i \in 1..3 |-> NoAccess] /\ NoAccess \in Accesses
    BY DEF Fetches, Accesses
  <2> HIDE DEF f
  <2> QED BY <2>1
<1>2. NoAccess # WriteOld /\ WriteOld # WriteNew /\ ReadReg("ICR") # WriteOld
      /\ WriteOld \in Accesses /\ WriteNew \in Accesses /\ ReadReg("ICR") \in Accesses
  BY DEF NoAccess, WriteOld, WriteNew, ReadReg, Accesses
<1>3. \A c : WritesBackFlags(c, f)
  <2> HIDE DEF f
  <2> QED BY <1>1, <1>2 DEF WritesBackFlags
<1> HIDE DEF f
<1>4. ASSUME NEW a \in Reads \cup Writes
      PROVE  LET q == f \o <<a>> IN
             q \in Seq(Accesses) /\ Len(q) \in 0..6 /\ \A c : WritesBackFlags(c, q)
  <2> DEFINE q == f \o <<a>>
  <2>1. a \in Accesses /\ a # WriteOld
    <3>1. a.kind \in {"read", "write"}
      BY DEF Reads, Writes, ReadReg, WriteReg
    <3>2. WriteOld.kind = "old"
      BY DEF WriteOld
    <3> QED BY <3>1, <3>2 DEF Accesses
  <2>2. q \in Seq(Accesses) /\ Len(q) = 4 /\ \A i \in 1..4 : q[i] = IF i <= 3 THEN f[i] ELSE a
    <3> DEFINE r == <<a>>
    <3>1. r \in Seq(Accesses) /\ Len(r) = 1 /\ r[1] = a
      BY <2>1
    <3> HIDE DEF r
    <3>2. q = f \o r
      BY DEF q, r
    <3> HIDE DEF q
    <3>3. f \in Seq(Accesses) /\ r \in Seq(Accesses)
      BY <1>1, <3>1
    <3>4. /\ f \o r \in Seq(Accesses) /\ Len(f \o r) = Len(f) + Len(r)
          /\ \A i \in 1..Len(f) + Len(r) :
               (f \o r)[i] = IF i <= Len(f) THEN f[i] ELSE r[i - Len(f)]
      BY ONLY <3>3, ConcatProperties
    <3>5. Len(q) = 4 /\ \A i \in 1..4 : q[i] = IF i <= 3 THEN f[i] ELSE r[i - 3]
      BY ONLY <1>1, <3>1, <3>2, <3>4
    <3> QED BY <3>1, <3>2, <3>4, <3>5
  <2> HIDE DEF q
  <2>3. \A i \in 1..4 : q[i] # WriteOld
    BY <1>1, <1>2, <2>1, <2>2
  <2>4. \A c : WritesBackFlags(c, q)
    BY <2>2, <2>3 DEF WritesBackFlags
  <2> QED BY <2>2, <2>4 DEF q
<1>5. LET q == Increment IN
      q \in Seq(Accesses) /\ Len(q) \in 0..6 /\ \A c : WritesBackFlags(c, q)
  <2> DEFINE r == <<ReadReg("ICR"), WriteOld, WriteNew>>
             q == f \o r
  <2>1. r \in Seq(Accesses) /\ Len(r) = 3 /\ r[1] = ReadReg("ICR") /\ r[2] = WriteOld
        /\ r[3] = WriteNew
    BY <1>2
  <2> HIDE DEF r
  <2>2. q \in Seq(Accesses) /\ Len(q) = 6
        /\ \A i \in 1..6 : q[i] = IF i <= 3 THEN f[i] ELSE r[i - 3]
    <3>1. q = f \o r
      OBVIOUS
    <3> HIDE DEF q
    <3>2. f \in Seq(Accesses) /\ r \in Seq(Accesses)
      BY <1>1, <2>1
    <3>3. /\ f \o r \in Seq(Accesses) /\ Len(f \o r) = Len(f) + Len(r)
          /\ \A i \in 1..Len(f) + Len(r) :
               (f \o r)[i] = IF i <= Len(f) THEN f[i] ELSE r[i - Len(f)]
      BY ONLY <3>2, ConcatProperties
    <3>4. Len(q) = 6 /\ \A i \in 1..6 : q[i] = IF i <= 3 THEN f[i] ELSE r[i - 3]
      BY ONLY <1>1, <2>1, <3>1, <3>3
    <3> QED BY <3>1, <3>3, <3>4
  <2>3. Increment = q
    BY DEF Increment, q, r, f
  <2> HIDE DEF q
  <2>4. \A i \in 1..6 : q[i] = WriteOld => i = 5 /\ q[i - 1] = ReadReg("ICR")
    <3>1. q[1] = NoAccess /\ q[2] = NoAccess /\ q[3] = NoAccess
          /\ q[4] = ReadReg("ICR") /\ q[5] = WriteOld /\ q[6] = WriteNew
      BY <1>1, <2>1, <2>2
    <3> QED BY <1>2, <3>1
  <2>5. \A c : WritesBackFlags(c, q)
    BY <2>2, <2>4 DEF WritesBackFlags
  <2> QED BY <2>2, <2>3, <2>5
<1>6. IdleInstruction = f
  BY DEF IdleInstruction, f
<1> QED BY <1>1, <1>3, <1>4, <1>5, <1>6 DEF Instructions, f

LEMMA InitHolds == Init => CiaInv
<1> SUFFICES ASSUME Init PROVE CiaInv
  OBVIOUS
<1>1. PICK model \in Models, setup \in Setups :
        cia = Write(Write(Fresh(model, setup), "CRB", setup.crb, 1), "CRA", setup.cra, 5)
  BY DEF Init
<1>2. clk = 6 /\ cycles = <<>>
      /\ left = [accesses |-> MaxAccesses, idle |-> MaxIdle, host |-> MaxHost]
  BY DEF Init
<1>3. Sound(cia, clk, ByteStates)
  BY <1>1, <1>2, SetUpIs
<1>4. cycles \in Seq(Accesses) /\ WritesBackFlags(cia, cycles) /\ Len(cycles) = 0
  BY <1>2 DEF WritesBackFlags
<1>5. Bounds
  BY <1>2, CiaAssumption DEF Bounds
<1>6. ClockIsBounded
  BY <1>2, <1>4, CiaAssumption, CiaBusAssumption DEF ClockIsBounded, LastClk, LastTick
<1> QED BY <1>3, <1>4, <1>5, <1>6 DEF CiaInv

(* Between two instructions there is no cycle left.                        *)
LEMMA AtBoundary ==
  ASSUME Boundary, cycles' = cycles
  PROVE  cycles' \in Seq(Accesses) /\ WritesBackFlags(cia', cycles') /\ Len(cycles') = 0
         /\ Len(cycles) = 0
BY DEF Boundary, WritesBackFlags

LEMMA HostSpends ==
  ASSUME Bounds, Spend("host")
  PROVE  Bounds' /\ left'.accesses = left.accesses /\ left'.idle = left.idle
<1>1. left' = [left EXCEPT !.host = left.host - 1] /\ left.host > 0
  BY DEF Spend, Bounds
<1>2. left.host - 1 \in 0..MaxHost
  BY <1>1, CiaAssumption DEF Bounds
<1> QED BY <1>1, <1>2 DEF Bounds

(* A step of the emulator between two instructions that does not move the  *)
(* clock on leaves the invariant to the chip.                              *)
LEMMA BetweenInstructions ==
  ASSUME CiaInv, Boundary, cycles' = cycles, Bounds',
         left'.accesses = left.accesses, left'.idle = left.idle,
         clk' \in 1..clk, Sound(cia', clk', ByteStates)
  PROVE  CiaInv'
<1>1. cycles' \in Seq(Accesses) /\ WritesBackFlags(cia', cycles') /\ Len(cycles') = 0
      /\ Len(cycles) = 0
  BY AtBoundary
<1>2. clk \in 1..LastClk /\ clk + Len(cycles) + 6 * left.accesses + 3 * left.idle <= LastClk
      /\ left.accesses \in Nat /\ left.idle \in Nat /\ LastClk \in Nat
  BY CiaAssumption, CiaBusAssumption DEF CiaInv, ClockIsBounded, Bounds, LastClk, LastTick
<1>3. ClockIsBounded'
  BY <1>1, <1>2 DEF ClockIsBounded
<1> QED BY <1>1, <1>3 DEF CiaInv

LEMMA BusCycleKeeps == ASSUME CiaInv, BusCycle PROVE CiaInv'
<1> DEFINE a == Head(cycles)
           d == Access(cia, a, clk)
<1>1. cia' = d /\ clk' = clk + 1 /\ cycles' = Tail(cycles) /\ left' = left
      /\ cycles # <<>> /\ cycles \in Seq(Accesses)
  BY DEF BusCycle, Boundary, CiaInv
<1>2. /\ a \in Accesses /\ a = cycles[1] /\ Len(cycles) \in Nat /\ Len(cycles) >= 1
      /\ cycles' \in Seq(Accesses) /\ Len(cycles') = Len(cycles) - 1
      /\ \A i \in 1..Len(cycles) - 1 : cycles'[i] = cycles[i + 1]
  BY <1>1
<1>3. /\ Sound(cia, clk, ByteStates) /\ WritesBackFlags(cia, cycles)
      /\ clk \in 1..LastClk
      /\ clk + Len(cycles) + 6 * left.accesses + 3 * left.idle <= LastClk
      /\ left.accesses \in Nat /\ left.idle \in Nat /\ LastClk \in Nat
  BY CiaAssumption, CiaBusAssumption DEF CiaInv, ClockIsBounded, Bounds, LastClk, LastTick
<1>4. clk \in 0..LastClk /\ clk + 1 \in 0..LastClk /\ clk + 1 \in 1..LastClk
  BY <1>2, <1>3
<1>5. a = WriteOld => cia.last_read.bits \subseteq Flags
  BY <1>2, <1>3 DEF WritesBackFlags
<1>6. /\ Sound(d, clk + 1, ByteStates)
      /\ a = ReadReg("ICR") => d.last_read.bits \subseteq Flags
  BY <1>2, <1>3, <1>4, <1>5, AccessIs
<1> HIDE DEF a, d
<1>7. ASSUME NEW i \in 1..Len(cycles'), cycles'[i] = WriteOld
      PROVE  IF i = 1 THEN cia'.last_read.bits \subseteq Flags
             ELSE cycles'[i - 1] = ReadReg("ICR")
  <2>1. i + 1 \in 1..Len(cycles) /\ i + 1 # 1 /\ i + 1 - 1 = i /\ cycles[i + 1] = WriteOld
    BY <1>2, <1>7
  <2>2. cycles[i] = ReadReg("ICR")
    BY <1>3, <2>1 DEF WritesBackFlags
  <2>3. CASE i = 1
    BY <1>1, <1>2, <1>6, <2>2, <2>3
  <2>4. CASE i # 1
    <3>1. i - 1 \in 1..Len(cycles) - 1 /\ i - 1 + 1 = i
      BY <1>2, <2>4
    <3> QED BY <1>2, <2>2, <2>4, <3>1
  <2> QED BY <2>3, <2>4
<1>8. WritesBackFlags(cia', cycles')
  BY <1>7 DEF WritesBackFlags
<1>9. ClockIsBounded'
  BY <1>1, <1>2, <1>3, <1>4 DEF ClockIsBounded
<1> QED BY <1>1, <1>2, <1>6, <1>8, <1>9 DEF CiaInv, Bounds

LEMMA DispatchKeeps == ASSUME CiaInv, Dispatch PROVE CiaInv'
<1>1. /\ Sound(cia, clk, ByteStates) /\ clk \in 1..LastClk /\ LastClk \in Nat
      /\ SideA(cia, clk) /\ SideB(cia, clk)
  BY CiaAssumption, CiaBusAssumption
     DEF CiaInv, ClockIsBounded, Sound, LastClk, LastTick
<1>2. clk \in 0..LastClk /\ clk \in 1..clk
  BY <1>1
<1>3. cia.ta.pending = cia.ta.alarmclk /\ cia.tb.pending = cia.tb.alarmclk
      /\ cia.ta.pending \in Nat /\ cia.tb.pending \in Nat
  BY <1>1, <1>2, AlarmLies DEF SideA, SideB, Agreed
<1>4. Earliest \in Due
  <2>1. Due # {} /\ \A p \in Due : p \in {cia.ta.pending, cia.tb.pending}
    BY DEF Dispatch, Due
  <2>2. \A p \in Due : p \in Nat
    BY <1>3, <2>1
  <2>3. \E p \in Due : \A q \in Due : p <= q
    <3>1. PICK p \in Due : TRUE
      BY <2>1
    <3>2. CASE \A q \in Due : p <= q
      BY <3>2
    <3>3. ASSUME NEW q \in Due, ~(p <= q) PROVE \A r \in Due : q <= r
      <4>1. p \in Nat /\ q \in Nat /\ q <= p /\ p # q
        BY <2>2, <3>3
      <4>2. \A r \in Due : r = p \/ r = q
        BY <2>1, <4>1
      <4> QED BY <4>1, <4>2
    <3> QED BY <3>2, <3>3
  <2> QED BY <2>3 DEF Earliest
<1>5. Earliest <= clk
  BY <1>4 DEF Due
<1>6. Boundary /\ clk' = clk /\ cycles' = cycles /\ left' = left
      /\ \/ cia.ta.pending = Earliest /\ cia' = IntTA(cia, Earliest)
         \/ cia.tb.pending = Earliest /\ cia' = IntTB(cia, Earliest)
  BY DEF Dispatch
<1>7. Sound(cia', clk, ByteStates)
  <2>1. ASSUME cia.ta.pending = Earliest, cia' = IntTA(cia, Earliest)
        PROVE  Sound(cia', clk, ByteStates)
    <3>1. Earliest = cia.ta.alarmclk /\ cia.ta.alarmclk <= clk
      BY <1>3, <1>5, <2>1
    <3>2. Sound(IntTA(cia, cia.ta.alarmclk), clk, ByteStates)
      BY <1>1, <1>2, <3>1, IntTAIs
    <3> QED BY <2>1, <3>1, <3>2
  <2>2. ASSUME cia.tb.pending = Earliest, cia' = IntTB(cia, Earliest)
        PROVE  Sound(cia', clk, ByteStates)
    <3>1. Earliest = cia.tb.alarmclk /\ cia.tb.alarmclk <= clk
      BY <1>3, <1>5, <2>2
    <3>2. Sound(IntTB(cia, cia.tb.alarmclk), clk, ByteStates)
      BY <1>1, <1>2, <3>1, IntTBIs
    <3> QED BY <2>2, <3>1, <3>2
  <2> QED BY <1>6, <2>1, <2>2
<1>8. Bounds'
  BY <1>6 DEF CiaInv, Bounds
<1> QED BY <1>2, <1>6, <1>7, <1>8, BetweenInstructions

LEMMA FetchKeeps == ASSUME CiaInv, Fetch PROVE CiaInv'
<1>1. /\ cia' = cia /\ clk' = clk /\ cycles = <<>> /\ Len(cycles) = 0
      /\ \/ Spend("idle") /\ cycles' = IdleInstruction
         \/ Spend("accesses") /\ cycles' \in Instructions
  BY DEF Fetch, Boundary
<1>2. /\ clk \in 1..LastClk /\ LastClk \in Nat
      /\ clk + 6 * left.accesses + 3 * left.idle <= LastClk
      /\ left \in [accesses : 0..MaxAccesses, idle : 0..MaxIdle, host : 0..MaxHost]
      /\ MaxAccesses \in Nat /\ MaxIdle \in Nat
  BY <1>1, CiaAssumption, CiaBusAssumption
     DEF CiaInv, ClockIsBounded, Bounds, LastClk, LastTick
<1>3. /\ cycles' \in Seq(Accesses) /\ WritesBackFlags(cia', cycles')
      /\ Bounds' /\ ClockIsBounded'
  <2>1. ASSUME Spend("idle"), cycles' = IdleInstruction
        PROVE  /\ cycles' \in Seq(Accesses) /\ WritesBackFlags(cia', cycles')
               /\ Bounds' /\ ClockIsBounded'
    <3>1. cycles' \in Seq(Accesses) /\ WritesBackFlags(cia', cycles') /\ Len(cycles') = 3
      BY <2>1, InstructionsAre
    <3>2. left' = [left EXCEPT !.idle = left.idle - 1] /\ left.idle > 0
      BY <2>1 DEF Spend
    <3>3. Bounds' /\ left'.accesses = left.accesses /\ left'.idle = left.idle - 1
      BY <1>2, <3>2 DEF Bounds
    <3>4. left.accesses \in Nat /\ left.idle \in Nat
      BY <1>2
    <3>5. ClockIsBounded'
      BY <1>1, <1>2, <3>1, <3>3, <3>4 DEF ClockIsBounded
    <3> QED BY <3>1, <3>3, <3>5
  <2>2. ASSUME Spend("accesses"), cycles' \in Instructions
        PROVE  /\ cycles' \in Seq(Accesses) /\ WritesBackFlags(cia', cycles')
               /\ Bounds' /\ ClockIsBounded'
    <3>1. cycles' \in Seq(Accesses) /\ WritesBackFlags(cia', cycles') /\ Len(cycles') \in 0..6
      BY <2>2, InstructionsAre
    <3>2. left' = [left EXCEPT !.accesses = left.accesses - 1] /\ left.accesses > 0
      BY <2>2 DEF Spend
    <3>3. Bounds' /\ left'.accesses = left.accesses - 1 /\ left'.idle = left.idle
      BY <1>2, <3>2 DEF Bounds
    <3>4. left.accesses \in Nat /\ left.idle \in Nat
      BY <1>2
    <3>5. clk + Len(cycles') + 6 * (left.accesses - 1) + 3 * left.idle <= LastClk
      <4>1. PICK n \in 0..6 : Len(cycles') = n
        BY <3>1
      <4> DEFINE x == left.accesses
                 y == left.idle
      <4>2. clk \in Nat /\ LastClk \in Nat
        BY <1>2
      <4>3. clk + 6 * x + 3 * y <= LastClk /\ x \in Nat /\ y \in Nat
        BY <1>2, <3>4
      <4> HIDE DEF x, y
      <4>4. clk + n + 6 * (x - 1) + 3 * y <= LastClk
        BY <4>2, <4>3
      <4> QED BY <4>1, <4>4 DEF x, y
    <3>6. ClockIsBounded'
      BY <1>1, <1>2, <3>3, <3>5 DEF ClockIsBounded
    <3> QED BY <3>1, <3>3, <3>6
  <2> QED BY <1>1, <2>1, <2>2
<1>4. Sound(cia', clk', ByteStates)
  BY <1>1 DEF CiaInv
<1> QED BY <1>3, <1>4 DEF CiaInv

LEMMA IdleUpdateKeeps == ASSUME CiaInv, IdleUpdate PROVE CiaInv'
<1>1. Sound(cia, clk, ByteStates) /\ clk \in 1..LastClk /\ LastClk \in Nat /\ Bounds
  BY CiaAssumption, CiaBusAssumption DEF CiaInv, ClockIsBounded, LastClk, LastTick
<1>2. clk \in 0..LastClk /\ clk \in 1..clk /\ clk - 1 \in 0..clk /\ clk \in 0..clk
  BY <1>1
<1>3. PICK rclk \in {clk - 1, clk} : cia' = UpdateBoth(cia, rclk)
  BY DEF IdleUpdate
<1>4. Boundary /\ clk' = clk /\ cycles' = cycles /\ Spend("host")
  BY DEF IdleUpdate
<1>5. Sound(UpdateBoth(cia, rclk), clk, ByteStates)
  BY <1>1, <1>2, <1>3, UpdateBothIs
<1>6. Bounds' /\ left'.accesses = left.accesses /\ left'.idle = left.idle
  BY <1>1, <1>4, HostSpends
<1> QED BY <1>2, <1>3, <1>4, <1>5, <1>6, BetweenInstructions

LEMMA ClkOverflowKeeps == ASSUME CiaInv, ClkOverflow PROVE CiaInv'
<1>1. Sound(cia, clk, ByteStates) /\ clk \in 1..LastClk /\ LastClk \in Nat /\ Bounds
      /\ OverflowSub \in Nat /\ OverflowAt \in Nat /\ OverflowSub < OverflowAt
  BY CiaAssumption, CiaBusAssumption DEF CiaInv, ClockIsBounded, LastClk, LastTick
<1>2. Boundary /\ cycles' = cycles /\ Spend("host") /\ clk >= OverflowAt
      /\ clk' = clk - OverflowSub /\ cia' = Callbacks(cia, clk)
  BY DEF ClkOverflow
<1>3. clk \in 0..LastClk /\ clk' \in 1..clk /\ OverflowSub < clk
  BY <1>1, <1>2
<1>4. Sound(Callbacks(cia, clk), clk - OverflowSub, ByteStates)
  BY <1>1, <1>3, CallbacksIs
<1>5. Bounds' /\ left'.accesses = left.accesses /\ left'.idle = left.idle
  BY <1>1, <1>2, HostSpends
<1> QED BY <1>2, <1>3, <1>4, <1>5, BetweenInstructions

LEMMA SnapshotKeeps == ASSUME CiaInv, Snapshot PROVE CiaInv'
<1>1. Sound(cia, clk, ByteStates) /\ clk \in 1..LastClk /\ LastClk \in Nat /\ Bounds
  BY CiaAssumption, CiaBusAssumption DEF CiaInv, ClockIsBounded, LastClk, LastTick
<1>2. clk \in 0..LastClk /\ clk \in 1..clk
  BY <1>1
<1>3. Boundary /\ clk' = clk /\ cycles' = cycles /\ Spend("host")
      /\ cia' = Restored(UpdateBoth(cia, clk), clk)
  BY DEF Snapshot, LoadTimer, Restored
<1>4. Sound(Restored(UpdateBoth(cia, clk), clk), clk, ByteStates)
  BY <1>1, <1>2, RestoredIs
<1>5. Bounds' /\ left'.accesses = left.accesses /\ left'.idle = left.idle
  BY <1>1, <1>3, HostSpends
<1> QED BY <1>2, <1>3, <1>4, <1>5, BetweenInstructions

LEMMA NextKeeps == CiaInv /\ [Next]_vars => CiaInv'
<1> SUFFICES ASSUME CiaInv, [Next]_vars PROVE CiaInv'
  OBVIOUS
<1>1. CASE BusCycle
  BY <1>1, BusCycleKeeps
<1>2. CASE Dispatch
  BY <1>2, DispatchKeeps
<1>3. CASE Fetch
  BY <1>3, FetchKeeps
<1>4. CASE IdleUpdate
  BY <1>4, IdleUpdateKeeps
<1>5. CASE ClkOverflow
  BY <1>5, ClkOverflowKeeps
<1>6. CASE Snapshot
  BY <1>6, SnapshotKeeps
<1>7. CASE UNCHANGED vars
  BY <1>7 DEF vars, CiaInv, Bounds, ClockIsBounded
<1> QED BY <1>1, <1>2, <1>3, <1>4, <1>5, <1>6, <1>7 DEF Next, Done

LEMMA CiaIsSound == Spec => []CiaInv
BY InitHolds, NextKeeps, PTL DEF Spec

-----------------------------------------------------------------------------
(* Every field of the chip stays in its range, the ticks of the alarms     *)
(* below CLOCK_MAX with them, although the clock guard moves some of them  *)
(* in the callback of the chip and others in the one of the machine.       *)
LEMMA TimerIsTyped ==
  ASSUME NEW t, NEW ctl, NEW now \in 0..LastClk, Held(t, ctl, now), Agreed(t)
  PROVE  t \in TimerStates
<1>1. LastTick \in Nat /\ MaxLatch \in Nat /\ LastClk = LastTick - 9 - MaxLatch
      /\ now \in Nat /\ now <= LastClk
  BY CiaAssumption, CiaBusAssumption DEF LastClk, LastTick
<1>2. t \in Timer /\ t.clk \in 0..now /\ t.cnt <= MaxLatch /\ t.latch <= MaxLatch
  BY DEF Held, Kept
<1>3. t.clk \in Ticks /\ t.cnt \in 0..MaxLatch /\ t.latch \in 0..MaxLatch
  BY <1>1, <1>2 DEF Ticks, Timer
<1>4. t.alarmclk \in Ticks \cup {ClockMax}
  <2>1. t.alarmclk \in Nat
        /\ (t.alarmclk = ClockMax \/ t.alarmclk \in 1..now + (5 + MaxLatch))
    BY AlarmLies
  <2> QED BY <1>1, <2>1 DEF Ticks
<1> QED BY <1>2, <1>3, <1>4 DEF Agreed, Timer, TimerStates

THEOREM CiaIsTyped == Spec => []TypeOK
<1>1. CiaInv => TypeOK
  <2> SUFFICES ASSUME CiaInv PROVE TypeOK
    OBVIOUS
  <2>1. /\ cia \in Shapes(clk, ByteStates) /\ SideA(cia, clk) /\ SideB(cia, clk)
        /\ clk \in 1..LastClk /\ LastClk \in Nat
        /\ cycles \in Seq(Accesses) /\ Bounds
    BY CiaAssumption, CiaBusAssumption
       DEF CiaInv, Sound, ClockIsBounded, LastClk, LastTick
  <2>2. clk \in 0..LastClk /\ clk \in Ticks /\ 0..clk \subseteq Ticks
        /\ 0..clk + 3 \subseteq Ticks
    BY <2>1, CiaAssumption, CiaBusAssumption DEF LastClk, LastTick, Ticks
  <2>3. cia.ta \in TimerStates /\ cia.tb \in TimerStates
    BY <2>1, <2>2, TimerIsTyped DEF SideA, SideB
  <2>4. cia \in Chips
    BY <2>1, <2>2, <2>3 DEF Shapes, Chips
  <2> QED BY <2>1, <2>2, <2>4 DEF TypeOK, Bounds
<1> QED BY <1>1, CiaIsSound, PTL

(* In every state the context calls a timer at the tick the timer believes *)
(* in, and that tick is the one at which the timer, left alone, underflows *)
(* next; no alarm is missing that an interrupt or timer B waits for.       *)
THEOREM AlarmsAreRight == Spec => []AlarmsStand
<1>1. CiaInv => AlarmsStand
  <2> SUFFICES ASSUME CiaInv PROVE AlarmsStand
    OBVIOUS
  <2>1. SideA(cia, clk) /\ SideB(cia, clk)
    BY DEF CiaInv, Sound
  <2>2. ContextAgrees
    BY <2>1 DEF SideA, SideB, Agreed, ContextAgrees
  <2>3. Stands(cia.ta, NeededA(cia))
    BY <2>1 DEF SideA, WantedA, Agreed, Stands, Given, Upcoming
  <2>4. Stands(cia.tb, NeededB(cia))
    BY <2>1 DEF SideB, WantedB, Agreed, Stands, Given, Upcoming
  <2> QED BY <2>2, <2>3, <2>4 DEF AlarmsStand
<1> QED BY <1>1, CiaIsSound, PTL

(* Beside the chip that counts every cycle, the chip of the emulator does  *)
(* what it does by itself: what is proved of it holds where they are       *)
(* compared.                                                               *)
THEOREM ComparedIsCia == ComparisonSpec => Spec
<1>1. ComparisonInit => Init
  BY DEF ComparisonInit
<1>2. [ComparisonNext]_<<vars, chip, overtaken, stepKept>> => [Next]_vars
  <2>1. ASSUME ComparisonNext PROVE Next
    BY <2>1 DEF ComparisonNext, ComparedCycle, Next
  <2> QED BY <2>1
<1> QED BY <1>1, <1>2, PTL DEF ComparisonSpec, Spec

-----------------------------------------------------------------------------
(* Where a timer is at tick now, wherever it has been replayed to, and how *)
(* often it has underflowed on the way: W are the ticks it is stepped at.  *)
CoreNow(t, W, now) == Core(Ride(t, W)[now - t.clk])
CountNow(t, W, now) == Underflown(Ride(t, W), now - t.clk)

LEMMA CountInNat ==
  ASSUME NEW t, NEW W, NEW now \in Int, t.clk \in Int, t.clk <= now
  PROVE  CountNow(t, W, now) \in Nat
<1>1. now - t.clk \in Nat
  OBVIOUS
<1> QED BY <1>1, UnderflownGrows DEF CountNow

LEMMA RidesAgree ==
  ASSUME NEW now \in Int, NEW t \in Timer, NEW u \in Timer, t.clk <= now, u.clk = t.clk,
         NEW W, NEW V, Core(Told(V, t.clk, u)) = Core(Told(W, t.clk, t)),
         \A j \in Int : t.clk < j /\ j <= now => (j \in V <=> j \in W)
  PROVE  /\ CoreNow(u, V, now) = CoreNow(t, W, now)
         /\ CountNow(u, V, now) = CountNow(t, W, now)
<1> DEFINE n == now - t.clk
<1>1. n \in Nat /\ t.clk \in Int /\ n \in 0..n /\ 0 + n = n
  BY DEF Timer
<1>2. Core(Ride(u, V)[0]) = Core(Ride(t, W)[0])
  BY RideIs
<1>3. SteppedAlike(t, W, 0, u, V, n)
  BY <1>1 DEF SteppedAlike
<1>4. /\ Core(Ride(u, V)[n]) = Core(Ride(t, W)[0 + n])
      /\ Underflown(Ride(t, W), 0 + n) = Underflown(Ride(t, W), 0) + Underflown(Ride(u, V), n)
  <2> HIDE DEF n
  <2>1. t \in Timer /\ u \in Timer /\ 0 \in Nat
    OBVIOUS
  <2> QED BY ONLY <1>1, <1>2, <1>3, <2>1, RidesByCore
<1>5. Underflown(Ride(t, W), 0) = 0 /\ Underflown(Ride(u, V), n) \in Nat
  BY <1>1, UnderflownGrows
<1> QED BY <1>1, <1>4, <1>5 DEF CoreNow, CountNow

LEMMA SameRide ==
  ASSUME NEW now \in Int, NEW t \in Timer, NEW u \in Timer, t.clk <= now, u.clk = t.clk,
         Core(u) = Core(t), NEW W
  PROVE  /\ CoreNow(u, W, now) = CoreNow(t, W, now)
         /\ CountNow(u, W, now) = CountNow(t, W, now)
<1>1. Core(Told(W, t.clk, u)) = Core(Told(W, t.clk, t))
  BY ToldAlike
<1> QED BY <1>1, RidesAgree

(* What is told before the timer is replayed or after is the same.         *)
LEMMA UpdateRides ==
  ASSUME NEW now \in 0..LastClk, NEW t, NEW ctl, Held(t, ctl, now), NEW rclk \in 0..now,
         NEW W, \A j \in W : j >= rclk
  PROVE  LET u == Update(t, rclk) IN
         /\ CoreNow(u.timer, W, now) = CoreNow(t, W, now)
         /\ CountNow(t, W, now) = u.n + CountNow(u.timer, W, now)
         /\ CountNow(u.timer, W, now) \in Nat
<1> DEFINE u == Update(t, rclk)
           d == rclk - t.clk
           n == now - rclk
<1>1. /\ t \in Timer /\ Regular(t) /\ t.clk \in Nat /\ t.clk <= now /\ now \in Nat
      /\ rclk \in Nat /\ rclk <= now
  BY HeldIsNear
<1>2. CASE ~(t.clk < rclk)
  <2>1. u = [timer |-> t, n |-> 0]
    BY <1>2, NothingToReplay
  <2>2. CountNow(t, W, now) \in Nat
    BY <1>1, CountInNat
  <2> HIDE DEF u
  <2> QED BY <2>1, <2>2 DEF u
<1>3. CASE t.clk < rclk
  <2>1. d \in Nat /\ n \in Nat /\ n \in 0..n /\ d + n = now - t.clk /\ t.clk + d = rclk
    BY <1>1, <1>3
  <2>2. u.timer \in Timer /\ u.timer.clk = rclk /\ Core(u.timer) = Core(Course(t)[d])
        /\ u.n = Underflown(Course(t), d)
    BY <1>1, <1>3, UpdateIsReplay
  <2> HIDE DEF u, d, n
  <2>3. \A j \in 0..d - 1 : t.clk + j \notin W
    BY <1>1, <2>1
  <2>4. /\ Ride(t, W)[d] = Told(W, rclk, Course(t)[d])
        /\ Underflown(Ride(t, W), d) = u.n
    BY <1>1, <2>1, <2>2, <2>3, RideIsCourse
  <2>5. Course(t)[d] \in Timer
    BY <1>1, <2>1, CourseIs DEF Courses
  <2>6. Core(Ride(u.timer, W)[0]) = Core(Ride(t, W)[d])
    <3>1. Ride(u.timer, W)[0] = Told(W, rclk, u.timer)
      BY <2>2, RideIs
    <3>2. Core(Told(W, rclk, u.timer)) = Core(Told(W, rclk, Course(t)[d]))
      BY ONLY <2>2, <2>5, ToldAlike
    <3> QED BY <2>4, <3>1, <3>2
  <2>7. SteppedAlike(t, W, d, u.timer, W, n)
    BY <1>1, <2>1, <2>2 DEF SteppedAlike
  <2>8. /\ Core(Ride(u.timer, W)[n]) = Core(Ride(t, W)[d + n])
        /\ Underflown(Ride(t, W), d + n) = Underflown(Ride(t, W), d) + Underflown(Ride(u.timer, W), n)
    BY ONLY <1>1, <2>1, <2>2, <2>6, <2>7, RidesByCore
  <2>9. now - u.timer.clk = n
    BY <2>2 DEF n
  <2>10. CountNow(u.timer, W, now) \in Nat
    BY <1>1, <2>2, CountInNat
  <2> QED BY <2>1, <2>4, <2>8, <2>9, <2>10 DEF CoreNow, CountNow, u
<1> QED BY <1>1, <1>2, <1>3

(* At the tick the timer has been replayed to, and a tick later.           *)
LEMMA RideNow ==
  ASSUME NEW t \in Timer, NEW W, t.clk \notin W
  PROVE  CoreNow(t, W, t.clk) = Core(t) /\ CountNow(t, W, t.clk) = 0
<1>1. t.clk - t.clk = 0
  BY DEF Timer
<1>2. Ride(t, W)[0] = t
  BY RideIs DEF Told
<1> QED BY <1>1, <1>2, UnderflownGrows DEF CoreNow, CountNow

LEMMA RideNext ==
  ASSUME NEW now \in Int, NEW t \in Timer, t.clk <= now, NEW W
  PROVE  LET r == Ride(t, W)[now - t.clk] IN
         /\ r \in Timer /\ Core(r) = CoreNow(t, W, now)
         /\ CoreNow(t, W, now + 1) = Core(Told(W, now + 1, Cycle(r)))
         /\ CountNow(t, W, now + 1) = CountNow(t, W, now) + Underflows(r)
<1> DEFINE k == now - t.clk
<1>1. k \in Nat /\ t.clk \in Int /\ now + 1 - t.clk = k + 1 /\ t.clk + (k + 1) = now + 1
  BY DEF Timer
<1>2. Ride(t, W)[k] \in Timer /\ Ride(t, W)[k + 1] = Told(W, t.clk + (k + 1), Cycle(Ride(t, W)[k]))
  BY <1>1, RideIs
<1>3. Underflown(Ride(t, W), k + 1) = Underflown(Ride(t, W), k) + Underflows(Ride(t, W)[k])
  BY <1>1, UnderflownGrows
<1> QED BY <1>1, <1>2, <1>3 DEF CoreNow, CountNow

(* A timer that is not stepped underflows first when ciat_set_alarm says.  *)
LEMMA FirstCounts ==
  ASSUME NEW now \in 0..LastClk, NEW t, NEW ctl, Held(t, ctl, now),
         NEW W, \A j \in W : j >= now
  PROVE  CountNow(t, W, now) = 0 <=> (Upcoming(t) > now \/ Upcoming(t) = ClockMax)
<1> DEFINE n == now - t.clk
<1>1. t \in Timer /\ Regular(t) /\ t.clk \in Nat /\ t.clk <= now /\ now \in Nat /\ n \in Nat
      /\ Kept(t, ctl) /\ now < ClockMax /\ t.clk + n = now
  BY HeldIsNear
<1>2. CountNow(t, W, now) = Underflown(Course(t), n)
  <2>1. \A j \in 0..n - 1 : t.clk + j \notin W
    BY <1>1
  <2> HIDE DEF n
  <2> QED BY <1>1, <2>1, RideIsCourse DEF CountNow, n
<1>3. CountNow(t, W, now) = 0 <=> \A i \in 0..n - 1 : ~Zero(t, i)
  BY <1>1, <1>2, UnderflownIsZero DEF Zero
<1>4. CASE Silent(t) /\ Upcoming(t) = ClockMax
  BY <1>1, <1>3, <1>4 DEF Silent
<1>5. CASE \E m \in 0..4 + MaxLatch : FirstZero(t, m) /\ Upcoming(t) = t.clk + (m + 1)
  <2>1. PICK m \in 0..4 + MaxLatch : FirstZero(t, m) /\ Upcoming(t) = t.clk + (m + 1)
    BY <1>5
  <2>2. m \in Nat /\ Near(t)
    BY HeldIsNear DEF Near
  <2>3. Upcoming(t) # ClockMax
    <3>1. m <= 4 + MaxLatch /\ MaxLatch \in Nat
      BY CiaBusAssumption
    <3> QED BY <1>1, <2>1, <2>2, <3>1, TimerAssumption DEF Near
  <2>4. Upcoming(t) > now <=> m >= n
    BY <1>1, <2>1, <2>2
  <2>5. m >= n <=> \A i \in 0..n - 1 : ~Zero(t, i)
    <3>1. Zero(t, m) /\ \A i \in 0..m - 1 : ~Zero(t, i)
      BY <2>1 DEF FirstZero
    <3> HIDE DEF n
    <3> QED BY <1>1, <2>2, <3>1
  <2> QED BY <1>3, <2>3, <2>4, <2>5
<1> QED BY <1>1, <1>4, <1>5, UpcomingIs

(* An update that moves a timer on leaves no step behind.                  *)
LEMMA UpdateLeavesNoStep ==
  ASSUME NEW now \in 0..LastClk, NEW t, NEW ctl, Held(t, ctl, now), NEW rclk \in 0..now,
         StepIsLive(t), t.clk < rclk
  PROVE  LET u == Update(t, rclk).timer IN
         /\ "STEP" \notin u.state
         /\ "COUNT2" \in u.state => "PHI2IN" \in u.state
<1> DEFINE k == rclk - t.clk
           u == Update(t, rclk).timer
           c == Course(t)
<1>1. /\ t \in Timer /\ Regular(t) /\ t.clk \in Nat /\ rclk \in Nat /\ k \in Nat
      /\ k > 0 /\ k - 1 \in Nat /\ k - 1 + 1 = k
  BY HeldIsNear
<1>2. u \in Timer /\ Core(u) = Core(c[k]) /\ "STEP" \notin u.state
  BY <1>1, UpdateIsReplay
<1>3. c[k - 1] \in Timer /\ c[k - 1 + 1] = Cycle(c[k - 1])
  BY <1>1, CourseIs DEF Courses
<1> HIDE DEF u, c
<1>4. "COUNT2" \in c[k].state => "PHI2IN" \in c[k].state
  <2> DEFINE r == c[k - 1]
             i == Inc(r)
  <2>1. r \in Timer /\ c[k] = Reload(i) /\ i \in Timer /\ i.state = Pipeline(r.state)
    BY <1>1, <1>3, IncIs DEF Cycle
  <2>2. "COUNT2" \in i.state => "PHI2IN" \in i.state
    BY <2>1 DEF Pipeline, Given
  <2> HIDE DEF i
  <2> QED BY <2>1, <2>2, Reloaded
<1>5. c[k] \in Timer
  BY <1>1, <1>3, IncIsTimer
<1>6. /\ "COUNT2" \in u.state <=> "COUNT2" \in c[k].state
      /\ "PHI2IN" \in u.state <=> "PHI2IN" \in c[k].state
  BY <1>2, <1>5, CoreIs
<1> QED BY <1>2, <1>4, <1>6 DEF u

-----------------------------------------------------------------------------
(* What the chip amounts to at tick now, wherever its timers have been     *)
(* replayed to; W are the ticks timer B is stepped at.                     *)
FlagA(c, now) == "TA" \in c.irqflags \/ CountNow(c.ta, {}, now) > 0

Asserted(c, W, now) ==
  \/ c.line
  \/ c.irqflags \cap c.mask # {}
  \/ "TA" \in c.mask /\ CountNow(c.ta, {}, now) > 0
  \/ "TB" \in c.mask /\ CountNow(c.tb, W, now) > 0

(* The underflow whose flag the old chip loses, and none after it.         *)
Lone(c, W, now) ==
  /\ c.model = "6526" /\ c.tb.clk = c.rdi
  /\ CountNow(c.tb, W, now) = 1 /\ CountNow(c.tb, W, c.rdi + 1) = 1

FlagsB(c, W, now) ==
  IF CountNow(c.tb, W, now) = 0 THEN c.irqflags \cap {"TB", "TBB"}
  ELSE {"TB"} \cup Given(Lone(c, W, now), {"TBB"})

ShownB(c, W, now) ==
  IF Asserted(c, W, now) /\ "TBB" \in FlagsB(c, W, now) THEN {} ELSE FlagsB(c, W, now)

SameRest(c, d) == /\ SameControl(c, d) /\ d.model = c.model /\ d.rdi = c.rdi
                  /\ d.last_read = c.last_read

SameA(c, d, now) ==
  /\ CoreNow(d.ta, {}, now) = CoreNow(c.ta, {}, now)
  /\ (d.tat + CountNow(d.ta, {}, now)) % 2 = (c.tat + CountNow(c.ta, {}, now)) % 2
  /\ FlagA(d, now) <=> FlagA(c, now)

SameB(c, W, d, V, now) ==
  /\ CoreNow(d.tb, V, now) = CoreNow(c.tb, W, now)
  /\ (d.tbt + CountNow(d.tb, V, now)) % 2 = (c.tbt + CountNow(c.tb, W, now)) % 2
  /\ ShownB(d, V, now) = ShownB(c, W, now)

Same(c, W, d, V, now) ==
  /\ SameRest(c, d) /\ SameA(c, d, now) /\ SameB(c, W, d, V, now)
  /\ Asserted(d, V, now) <=> Asserted(c, W, now)

LEMMA SameTrans ==
  ASSUME NEW now, NEW c, NEW W, NEW d, NEW V, NEW e, NEW X,
         Same(c, W, d, V, now), Same(d, V, e, X, now)
  PROVE  Same(c, W, e, X, now)
BY DEF Same, SameRest, SameControl, SameA, SameB

LEMMA SameSelf == ASSUME NEW now, NEW c, NEW W PROVE Same(c, W, c, W, now)
BY DEF Same, SameRest, SameControl, SameA, SameB

-----------------------------------------------------------------------------
(* Field by field, what the parts of an update change.                     *)
LEMMA UpdatedTAFields ==
  ASSUME NEW now, NEW R, NEW c \in Shapes(now, R), NEW u, u.timer \in Timer, u.n \in Nat
  PROVE  LET d == UpdatedTA(c, u) IN
         /\ d.ta = u.timer /\ d.tb = c.tb /\ SameRest(c, d)
         /\ d.tbt = c.tbt /\ d.line = c.line /\ d.int_clk = c.int_clk
         /\ d.tat = (c.tat + u.n) % 2
         /\ d.irqflags = c.irqflags \cup Given(u.n > 0, {"TA"})
<1> DEFINE d == UpdatedTA(c, u)
<1>1. CASE u.n = 0
  <2>1. d = [c EXCEPT !.ta = u.timer] /\ (c.tat + u.n) % 2 = c.tat
    BY <1>1 DEF UpdatedTA, Shapes
  <2>2. c.irqflags \cup Given(u.n > 0, {"TA"}) = c.irqflags
    BY <1>1 DEF Given
  <2> HIDE DEF d
  <2> QED BY <2>1, <2>2 DEF Shapes, SameRest, SameControl, d
<1>2. CASE u.n # 0
  <2>1. d = [c EXCEPT !.ta = u.timer, !.irqflags = @ \cup {"TA"}, !.tat = (@ + u.n) % 2]
    BY <1>2 DEF UpdatedTA
  <2>2. Given(u.n > 0, {"TA"}) = {"TA"}
    BY <1>2 DEF Given
  <2> HIDE DEF d
  <2> QED BY <2>1, <2>2 DEF Shapes, SameRest, SameControl, d
<1> QED BY <1>1, <1>2

LEMMA UpdatedTBFields ==
  ASSUME NEW now, NEW R, NEW c \in Shapes(now, R), NEW u, u.timer \in Timer, u.n \in Nat,
         NEW bug
  PROVE  LET d == UpdatedTB(c, u, bug) IN
         /\ d.tb = u.timer /\ d.ta = c.ta /\ SameRest(c, d)
         /\ d.tat = c.tat /\ d.line = c.line /\ d.int_clk = c.int_clk
         /\ d.tbt = (c.tbt + u.n) % 2
         /\ u.n = 0 => d.irqflags = c.irqflags
         /\ u.n > 0 => d.irqflags = (c.irqflags \ {"TBB"}) \cup {"TB"} \cup Given(bug, {"TBB"})
<1> DEFINE d == UpdatedTB(c, u, bug)
<1>1. CASE u.n = 0
  <2>1. d = [c EXCEPT !.tb = u.timer] /\ (c.tbt + u.n) % 2 = c.tbt
    BY <1>1 DEF UpdatedTB, Shapes
  <2> HIDE DEF d
  <2> QED BY <1>1, <2>1 DEF Shapes, SameRest, SameControl, d
<1>2. CASE u.n # 0
  <2>1. d = [c EXCEPT !.tb = u.timer, !.irqflags = (@ \ {"TBB"}) \cup {"TB"} \cup Given(bug, {"TBB"}),
                      !.tbt = (@ + u.n) % 2]
    BY <1>2 DEF UpdatedTB
  <2> HIDE DEF d
  <2> QED BY <1>2, <2>1 DEF Shapes, SameRest, SameControl, d
<1> QED BY <1>1, <1>2

LEMMA DoSetIntFields ==
  ASSUME NEW now, NEW R, NEW c \in Shapes(now, R), NEW rclk
  PROVE  LET d == DoSetInt(c, rclk) IN
         /\ d.ta = c.ta /\ d.tb = c.tb /\ d.tat = c.tat /\ d.tbt = c.tbt /\ SameRest(c, d)
         /\ \/ d = c /\ (c.irqflags \cap c.mask = {} \/ c.rdi = rclk)
            \/ /\ c.irqflags \cap c.mask # {} /\ d.line
               /\ d.irqflags = (c.irqflags \ Given("TBB" \in c.irqflags, {"TBB", "TB"}))
                               \cup {"IR"}
<1> DEFINE new == c.model = "6526A"
           tick == IF new /\ c.rdi = rclk - 1 THEN rclk + 1 ELSE rclk
           in == IF c.line THEN c.int_clk ELSE LineClk(c, tick)
           f == (c.irqflags \ Given("TBB" \in c.irqflags, {"TBB", "TB"})) \cup {"IR"}
           d == DoSetInt(c, rclk)
<1>1. CASE c.irqflags \cap c.mask = {} \/ (~new /\ c.rdi = tick)
  <2>1. d = c
    BY <1>1 DEF DoSetInt
  <2> QED BY <1>1, <2>1 DEF SameRest, SameControl
<1>2. CASE ~(c.irqflags \cap c.mask = {} \/ (~new /\ c.rdi = tick))
  <2>1. d = [[c EXCEPT !.line = TRUE, !.int_clk = in] EXCEPT !.irqflags = f]
    BY <1>2 DEF DoSetInt, SetInt
  <2> HIDE DEF d, in, f
  <2>2. /\ d.ta = c.ta /\ d.tb = c.tb /\ d.tat = c.tat /\ d.tbt = c.tbt /\ SameRest(c, d)
        /\ d.line /\ d.irqflags = f
    BY <2>1 DEF Shapes, SameRest, SameControl
  <2> QED BY <1>2, <2>2 DEF d, f
<1> QED BY <1>1, <1>2

(* Counts of underflows.                                                   *)
LEMMA UnderflownRises ==
  ASSUME NEW r, NEW i \in Nat, NEW k \in Nat
  PROVE  Underflown(r, i) <= Underflown(r, i + k) /\ Underflown(r, i + k) <= Underflown(r, i) + k
<1> DEFINE A == {n \in Nat : /\ Underflown(r, i) <= Underflown(r, i + n)
                             /\ Underflown(r, i + n) <= Underflown(r, i) + n}
<1>1. Underflown(r, i) \in Nat
  BY UnderflownGrows
<1>2. 0 \in A
  BY <1>1
<1>3. ASSUME NEW n \in A PROVE n + 1 \in A
  <2>1. i + n \in Nat /\ i + (n + 1) = i + n + 1
    OBVIOUS
  <2>2. /\ Underflown(r, i + n + 1) = Underflown(r, i + n) + Underflows(r[i + n])
        /\ Underflown(r, i + n) \in Nat
    BY <2>1, UnderflownGrows
  <2>3. Underflows(r[i + n]) \in {0, 1}
    BY DEF Underflows
  <2> QED BY <1>1, <2>1, <2>2, <2>3
<1>4. A = Nat
  <2>1. A \in SUBSET Nat
    OBVIOUS
  <2> HIDE DEF A
  <2> QED BY <1>2, <1>3, <2>1, Inductive
<1> QED BY <1>4

LEMMA CountRises ==
  ASSUME NEW t, NEW W, t.clk \in Int, NEW x \in Int, NEW now \in Int, t.clk <= x, x <= now
  PROVE  /\ CountNow(t, W, x) \in Nat /\ CountNow(t, W, now) \in Nat
         /\ CountNow(t, W, x) <= CountNow(t, W, now)
         /\ CountNow(t, W, now) <= CountNow(t, W, x) + (now - x)
<1> DEFINE i == x - t.clk
           k == now - x
<1>1. i \in Nat /\ k \in Nat /\ now - t.clk = i + k
  OBVIOUS
<1>2. CountNow(t, W, x) = Underflown(Ride(t, W), i)
  BY DEF CountNow
<1>3. CountNow(t, W, now) = Underflown(Ride(t, W), i + k)
  BY <1>1 DEF CountNow
<1>4. CountNow(t, W, x) \in Nat /\ CountNow(t, W, now) \in Nat
  BY CountInNat
<1> HIDE DEF i
<1>5. /\ Underflown(Ride(t, W), i) <= Underflown(Ride(t, W), i + k)
      /\ Underflown(Ride(t, W), i + k) <= Underflown(Ride(t, W), i) + k
  BY <1>1, UnderflownRises
<1> QED BY <1>2, <1>3, <1>4, <1>5

LEMMA CountStarts ==
  ASSUME NEW t, NEW W, t.clk \in Int PROVE CountNow(t, W, t.clk) = 0
<1>1. t.clk - t.clk = 0
  OBVIOUS
<1> QED BY <1>1, UnderflownGrows DEF CountNow

LEMMA Parity ==
  ASSUME NEW x \in {0, 1}, NEW n \in Nat, NEW k \in Nat
  PROVE  (((x + n) % 2) + k) % 2 = (x + (n + k)) % 2
OBVIOUS

LEMMA HeldBefore ==
  ASSUME NEW t, NEW ctl, NEW now \in 0..LastClk, Held(t, ctl, now), NEW x \in Int,
         t.clk < x, x <= now
  PROVE  x \in 0..LastClk /\ Held(t, ctl, x)
<1>1. t.clk \in Nat /\ now \in Nat /\ now <= LastClk /\ LastClk \in Int
  BY HeldIsNear
<1>2. t.clk \in 0..x /\ t.clk # x
  BY <1>1
<1> QED BY <1>1, <1>2 DEF Held

-----------------------------------------------------------------------------
(* Replaying a timer shows what was there, and so do its alarm and the     *)
(* interrupt.                                                              *)
LEMMA ShownAlike ==
  ASSUME NEW now, NEW c, NEW W, NEW d, NEW V,
         FlagsB(d, V, now) = FlagsB(c, W, now), Asserted(d, V, now) <=> Asserted(c, W, now)
  PROVE  ShownB(d, V, now) = ShownB(c, W, now)
BY DEF ShownB

LEMMA ReplayA ==
  ASSUME NEW now \in 0..LastClk, NEW R, NEW c \in Shapes(now, R),
         Held(c.ta, c.cra, now), NEW rclk \in 0..now, NEW W
  PROVE  LET d == DoUpdateTA(c, rclk) IN
         Same(c, W, d, W, now) /\ d.tb = c.tb /\ d.ta = Update(c.ta, rclk).timer
         /\ d.irqflags = c.irqflags \cup Given(Update(c.ta, rclk).n > 0, {"TA"})
         /\ d.line = c.line
<1> DEFINE u == Update(c.ta, rclk)
           d == DoUpdateTA(c, rclk)
           rest == CountNow(u.timer, {}, now)
<1>1. /\ CoreNow(u.timer, {}, now) = CoreNow(c.ta, {}, now)
      /\ CountNow(c.ta, {}, now) = u.n + rest
      /\ rest \in Nat
  <2>1. \A j \in {} : j >= rclk
    OBVIOUS
  <2> QED BY <2>1, UpdateRides
<1>2. u.n \in Nat /\ u.timer \in Timer
  <2>1. Near(c.ta) /\ c.ta \in Timer /\ Regular(c.ta) /\ Kept(c.ta, c.cra) /\ rclk \in Int
    BY HeldIsNear
  <2> QED BY <2>1, UpdateIs
<1>3. d = UpdatedTA(c, u)
  BY DEF DoUpdateTA
<1> HIDE DEF u, d
<1>4. /\ d.ta = u.timer /\ d.tb = c.tb /\ SameRest(c, d)
      /\ d.tbt = c.tbt /\ d.line = c.line
      /\ d.tat = (c.tat + u.n) % 2
      /\ d.irqflags = c.irqflags \cup Given(u.n > 0, {"TA"})
  BY <1>2, <1>3, UpdatedTAFields
<1>5. FlagA(d, now) <=> FlagA(c, now)
  BY <1>1, <1>2, <1>4 DEF FlagA, Given
<1>6. (d.tat + rest) % 2 = (c.tat + CountNow(c.ta, {}, now)) % 2
  <2>1. c.tat \in {0, 1}
    BY DEF Shapes
  <2> HIDE DEF rest
  <2> QED BY <1>1, <1>2, <1>4, <2>1, Parity
<1>7. d.mask = c.mask
  BY <1>4 DEF SameRest, SameControl
<1>8. Asserted(d, W, now) <=> Asserted(c, W, now)
  BY <1>1, <1>2, <1>4, <1>7 DEF Asserted, Given
<1>9. FlagsB(d, W, now) = FlagsB(c, W, now)
  <2>1. d.irqflags \cap {"TB", "TBB"} = c.irqflags \cap {"TB", "TBB"}
    BY <1>4 DEF Given
  <2>2. Lone(d, W, now) <=> Lone(c, W, now)
    BY <1>4 DEF Lone, SameRest
  <2> QED BY <1>4, <2>1, <2>2 DEF FlagsB, Given
<1>10. SameA(c, d, now)
  BY <1>1, <1>4, <1>5, <1>6 DEF SameA
<1>11. SameB(c, W, d, W, now)
  BY <1>4, <1>8, <1>9, ShownAlike DEF SameB
<1> QED BY <1>4, <1>8, <1>10, <1>11 DEF Same, d, u

(* Timer B.  An update that lies after a read must not come too late for   *)
(* the flag that the old chip loses.                                       *)
InTime(c, now, rclk) ==
  c.rdi = now \/ (c.rdi <= c.tb.clk /\ (c.tb.clk = c.rdi => rclk <= Upcoming(c.tb)))

LEMMA ReplayB ==
  ASSUME NEW now \in 0..LastClk, NEW R, NEW c \in Shapes(now, R), NEW ctl,
         Held(c.tb, ctl, now), NEW rclk \in 0..now,
         NEW W \in SUBSET Int, \A j \in W : j >= rclk, InTime(c, now, rclk)
  PROVE  LET d == DoUpdateTB(c, rclk) IN
         /\ Same(c, W, d, W, now) /\ d.ta = c.ta /\ d.tb = Update(c.tb, rclk).timer
         /\ d.irqflags \cap {"IR", "TA"} = c.irqflags \cap {"IR", "TA"}
         /\ Update(c.tb, rclk).n = 0 => d.irqflags = c.irqflags
         /\ d.line = c.line
<1> DEFINE u == Update(c.tb, rclk)
           d == DoUpdateTB(c, rclk)
           bug == c.model = "6526" /\ c.rdi = rclk - 1
           all == CountNow(c.tb, W, now)
           rest == CountNow(u.timer, W, now)
           b == c.tb.clk
           r == c.rdi
<1>0. /\ c.tb \in Timer /\ Near(c.tb) /\ Regular(c.tb) /\ Kept(c.tb, ctl) /\ b \in Nat
      /\ b <= now /\ now \in Nat /\ rclk \in Nat /\ rclk <= now /\ r \in Nat
  <2>1. r \in Nat
    BY DEF Shapes
  <2> QED BY <2>1, HeldIsNear
<1>1. /\ CoreNow(u.timer, W, now) = CoreNow(c.tb, W, now)
      /\ all = u.n + rest /\ rest \in Nat
  BY UpdateRides
<1>2. u.n \in Nat /\ u.timer \in Timer /\ (~(b < rclk) => u = [timer |-> c.tb, n |-> 0])
      /\ (b < rclk => u.timer.clk = rclk)
  BY <1>0, UpdateIs
<1>3. d = UpdatedTB(c, u, bug)
  BY DEF DoUpdateTB
<1> HIDE DEF u, d
<1>4. /\ d.tb = u.timer /\ d.ta = c.ta /\ SameRest(c, d)
      /\ d.tat = c.tat /\ d.line = c.line
      /\ d.tbt = (c.tbt + u.n) % 2
      /\ u.n = 0 => d.irqflags = c.irqflags
      /\ u.n > 0 => d.irqflags = (c.irqflags \ {"TBB"}) \cup {"TB"} \cup Given(bug, {"TBB"})
  <2> HIDE DEF bug
  <2> QED BY <1>2, <1>3, UpdatedTBFields
<1>5. (d.tbt + rest) % 2 = (c.tbt + all) % 2
  <2>1. c.tbt \in {0, 1}
    BY DEF Shapes
  <2> HIDE DEF rest, all
  <2> QED BY <1>1, <1>2, <1>4, <2>1, Parity
<1>6. d.mask = c.mask /\ d.model = c.model /\ d.rdi = r /\ c.mask \subseteq {"TA", "TB"}
  BY <1>4 DEF SameRest, SameControl, Shapes, Sources
<1>7. d.irqflags \cap {"IR", "TA"} = c.irqflags \cap {"IR", "TA"}
  BY <1>2, <1>4 DEF Given
<1>8. "TB" \in d.irqflags <=> "TB" \in c.irqflags \/ u.n > 0
  BY <1>2, <1>4
<1>9. Asserted(d, W, now) <=> Asserted(c, W, now)
  <2>1. d.irqflags \cap d.mask # {} <=>
           (c.irqflags \cap c.mask # {} \/ ("TB" \in c.mask /\ u.n > 0))
    BY <1>6, <1>7, <1>8
  <2> HIDE DEF rest, all
  <2> QED BY <1>1, <1>2, <1>4, <1>6, <2>1 DEF Asserted, rest, all
<1>10. FlagsB(d, W, now) = FlagsB(c, W, now)
  <2>1. CASE ~(b < rclk)
    <3>1. u.timer = c.tb /\ u.n = 0
      BY <1>2, <2>1
    <3>2. d.irqflags = c.irqflags /\ d.tb = c.tb
      BY <1>4, <3>1
    <3>3. Lone(d, W, now) <=> Lone(c, W, now)
      BY <1>6, <3>2 DEF Lone
    <3> QED BY <3>2, <3>3 DEF FlagsB, Given
  <2>2. CASE b < rclk
    <3>1. u.timer.clk = rclk
      BY <1>2, <2>2
    <3>2. ~Lone(d, W, now)
      <4>1. CASE r = now
        <5>1. CountNow(d.tb, W, now) = 1 => d.tb.clk # now
          BY <1>0, CountStarts
        <5> QED BY <1>6, <4>1, <5>1 DEF Lone
      <4>2. CASE r # now
        <5>1. r <= b
          BY <4>2 DEF InTime
        <5> QED BY <1>0, <1>4, <1>6, <2>2, <3>1, <5>1 DEF Lone
      <4> QED BY <4>1, <4>2
    <3>3. CountNow(c.tb, W, rclk) = u.n
      <4>1. rclk \in 0..LastClk /\ Held(c.tb, ctl, rclk) /\ rclk \in 0..rclk
        BY <1>0, <2>2, HeldBefore
      <4>2. CountNow(c.tb, W, rclk) = u.n + CountNow(u.timer, W, rclk)
        BY <4>1, UpdateRides DEF u
      <4>3. CountNow(u.timer, W, rclk) = 0
        BY <1>0, <3>1, CountStarts
      <4> QED BY <1>2, <4>2, <4>3
    <3>4. Lone(c, W, now) => u.n = 1 /\ rclk = r + 1 /\ c.model = "6526"
      <4>1. SUFFICES ASSUME Lone(c, W, now) PROVE u.n = 1 /\ rclk = r + 1
        BY DEF Lone
      <4>2. b = r /\ all = 1 /\ CountNow(c.tb, W, r + 1) = 1
        BY <4>1 DEF Lone
      <4>3. r # now
        <5>1. CountNow(c.tb, W, b) = 0
          BY <1>0, CountStarts
        <5> QED BY <4>2, <5>1
      <4>4. rclk <= Upcoming(c.tb)
        BY <4>2, <4>3 DEF InTime
      <4>5. r + 1 \in 0..LastClk /\ Held(c.tb, ctl, r + 1) /\ \A j \in W : j >= r + 1
        <5>1. r + 1 \in Int /\ b < r + 1 /\ r + 1 <= now
          BY <1>0, <2>2, <4>2
        <5>2. r + 1 \in 0..LastClk /\ Held(c.tb, ctl, r + 1)
          BY <5>1, HeldBefore
        <5>3. ASSUME NEW j \in W PROVE j >= r + 1
          <6>1. j >= rclk /\ rclk >= r + 1 /\ j \in Int
            BY <1>0, <2>2, <4>2
          <6> QED BY <1>0, <6>1
        <5> QED BY <5>2, <5>3
      <4>6. ~(Upcoming(c.tb) > r + 1 \/ Upcoming(c.tb) = ClockMax)
        BY <4>2, <4>5, FirstCounts
      <4>7. Upcoming(c.tb) \in Int
        BY <1>0, UpcomingLies
      <4>8. rclk = r + 1
        BY <1>0, <2>2, <4>2, <4>4, <4>6, <4>7
      <4> QED BY <3>3, <4>2, <4>8
    <3>5. bug /\ u.n > 0 /\ rest = 0 => Lone(c, W, now)
      <4>1. SUFFICES ASSUME bug, u.n > 0, rest = 0 PROVE Lone(c, W, now)
        OBVIOUS
      <4>2. r = rclk - 1
        BY <4>1
      <4>3. r # now
        BY <1>0, <4>2
      <4>4. r <= b
        BY <4>3 DEF InTime
      <4>5. b = r /\ rclk = r + 1
        BY <1>0, <2>2, <4>2, <4>4
      <4>6. CountNow(c.tb, W, rclk) <= CountNow(c.tb, W, b) + (rclk - b) /\ CountNow(c.tb, W, b) = 0
        <5>1. b <= b /\ b <= rclk /\ rclk \in Int /\ b \in Int
          BY <1>0, <2>2
        <5> QED BY <5>1, CountRises, CountStarts
      <4>7. u.n = 1
        BY <1>2, <3>3, <4>1, <4>5, <4>6
      <4>8. all = 1
        BY <1>1, <4>1, <4>7
      <4> QED BY <3>3, <4>1, <4>5, <4>7, <4>8 DEF Lone
    <3>6. CASE all = 0
      <4>1. rest = 0 /\ u.n = 0
        BY <1>1, <1>2, <3>6
      <4> QED BY <1>4, <3>6, <4>1 DEF FlagsB
    <3>7. CASE all # 0 /\ rest # 0
      <4>1. ~Lone(c, W, now)
        <5>1. SUFFICES ASSUME Lone(c, W, now) PROVE FALSE
          OBVIOUS
        <5>2. all = 1 /\ u.n = 1
          BY <3>4, <5>1 DEF Lone
        <5>3. all = u.n + rest /\ rest \in Nat /\ rest # 0
          BY <1>1, <3>7
        <5> HIDE DEF all, rest
        <5> QED BY <5>2, <5>3
      <4> QED BY <1>4, <3>2, <3>7, <4>1 DEF FlagsB, Given
    <3>8. CASE all # 0 /\ rest = 0
      <4>1. u.n > 0
        BY <1>1, <1>2, <3>8
      <4>2. Lone(c, W, now) <=> bug
        BY <1>0, <3>4, <3>5, <3>8, <4>1
      <4>3. d.irqflags \cap {"TB", "TBB"} = {"TB"} \cup Given(bug, {"TBB"})
        BY <1>4, <4>1 DEF Given
      <4>4. Given(Lone(c, W, now), {"TBB"}) = Given(bug, {"TBB"})
        BY <4>2 DEF Given
      <4>5. FlagsB(d, W, now) = d.irqflags \cap {"TB", "TBB"}
        BY <1>4, <3>8 DEF FlagsB
      <4>6. FlagsB(c, W, now) = {"TB"} \cup Given(Lone(c, W, now), {"TBB"})
        BY <3>8 DEF FlagsB
      <4> QED BY <4>3, <4>4, <4>5, <4>6
    <3> QED BY <3>6, <3>7, <3>8
  <2> QED BY <2>1, <2>2
<1>11. SameA(c, d, now)
  <2>1. FlagA(d, now) <=> FlagA(c, now)
    BY <1>4, <1>7 DEF FlagA
  <2> QED BY <1>4, <2>1 DEF SameA
<1>12. SameB(c, W, d, W, now)
  BY <1>1, <1>4, <1>5, <1>9, <1>10, ShownAlike DEF SameB
<1> QED BY <1>4, <1>7, <1>9, <1>11, <1>12 DEF Same, d, u

(* The alarm of a timer is none of the program's business.                 *)
LEMMA OtherAlarmA ==
  ASSUME NEW now \in Int, NEW R, NEW c \in Shapes(now, R), NEW t \in Timer,
         c.ta.clk <= now, t.clk = c.ta.clk, Core(t) = Core(c.ta), NEW W
  PROVE  LET d == [c EXCEPT !.ta = t] IN Same(c, W, d, W, now)
<1> DEFINE d == [c EXCEPT !.ta = t]
<1>1. c.ta \in Timer
  BY DEF Shapes
<1>2. /\ d.ta = t /\ d.tb = c.tb /\ d.tat = c.tat /\ d.tbt = c.tbt /\ d.line = c.line
      /\ d.irqflags = c.irqflags /\ SameRest(c, d) /\ d.mask = c.mask /\ d.model = c.model
      /\ d.rdi = c.rdi
  BY DEF Shapes, SameRest, SameControl
<1> HIDE DEF d
<1>3. /\ CoreNow(t, {}, now) = CoreNow(c.ta, {}, now)
      /\ CountNow(t, {}, now) = CountNow(c.ta, {}, now)
  BY <1>1, SameRide
<1>4. Asserted(d, W, now) <=> Asserted(c, W, now)
  BY <1>2, <1>3 DEF Asserted
<1>5. FlagsB(d, W, now) = FlagsB(c, W, now)
  <2>1. Lone(d, W, now) <=> Lone(c, W, now)
    BY <1>2 DEF Lone
  <2> QED BY <1>2, <2>1 DEF FlagsB, Given
<1>6. SameA(c, d, now)
  BY <1>2, <1>3 DEF SameA, FlagA
<1>7. SameB(c, W, d, W, now)
  BY <1>2, <1>4, <1>5, ShownAlike DEF SameB
<1> QED BY <1>2, <1>4, <1>6, <1>7 DEF Same, d

(* The same for timer B, which may have been told of the steps meanwhile.  *)
SameSteps(t, W, u, V, now) ==
  /\ Core(Told(V, t.clk, u)) = Core(Told(W, t.clk, t))
  /\ \A j \in Int : t.clk < j /\ j <= now => (j \in V <=> j \in W)

LEMMA OtherAlarmB ==
  ASSUME NEW now \in Int, NEW R, NEW c \in Shapes(now, R), NEW t \in Timer,
         c.tb.clk <= now, t.clk = c.tb.clk, NEW W, NEW V,
         SameSteps(c.tb, W, t, V, now)
  PROVE  LET d == [c EXCEPT !.tb = t] IN Same(c, W, d, V, now)
<1> DEFINE d == [c EXCEPT !.tb = t]
<1>1. c.tb \in Timer /\ c.rdi \in Int /\ c.tb.clk \in Int
  BY DEF Shapes, Timer
<1>2. /\ d.tb = t /\ d.ta = c.ta /\ d.tat = c.tat /\ d.tbt = c.tbt /\ d.line = c.line
      /\ d.irqflags = c.irqflags /\ SameRest(c, d) /\ d.mask = c.mask /\ d.model = c.model
      /\ d.rdi = c.rdi
  BY DEF Shapes, SameRest, SameControl
<1> HIDE DEF d
<1>3. ASSUME NEW x \in Int, c.tb.clk <= x, x <= now
      PROVE  CoreNow(t, V, x) = CoreNow(c.tb, W, x) /\ CountNow(t, V, x) = CountNow(c.tb, W, x)
  <2>1. \A j \in Int : c.tb.clk < j /\ j <= x => (j \in V <=> j \in W)
    BY <1>1, <1>3 DEF SameSteps
  <2>2. Core(Told(V, c.tb.clk, t)) = Core(Told(W, c.tb.clk, c.tb))
    BY DEF SameSteps
  <2> QED BY <1>1, <1>3, <2>1, <2>2, RidesAgree
<1>4. /\ CoreNow(t, V, now) = CoreNow(c.tb, W, now)
      /\ CountNow(t, V, now) = CountNow(c.tb, W, now)
  BY <1>3
<1>5. Asserted(d, V, now) <=> Asserted(c, W, now)
  BY <1>2, <1>4 DEF Asserted
<1>6. FlagsB(d, V, now) = FlagsB(c, W, now)
  <2>1. Lone(d, V, now) <=> Lone(c, W, now)
    <3>1. CASE c.tb.clk = c.rdi /\ CountNow(c.tb, W, now) = 1
      <4>1. c.tb.clk # now
        BY <1>1, <3>1, CountStarts
      <4>2. c.rdi + 1 \in Int /\ c.tb.clk <= c.rdi + 1 /\ c.rdi + 1 <= now
        BY <1>1, <3>1, <4>1
      <4> QED BY <1>2, <1>3, <1>4, <4>2 DEF Lone
    <3>2. CASE ~(c.tb.clk = c.rdi /\ CountNow(c.tb, W, now) = 1)
      BY <1>2, <1>4, <3>2 DEF Lone
    <3> QED BY <3>1, <3>2
  <2> QED BY <1>2, <1>4, <2>1 DEF FlagsB, Given
<1>7. SameA(c, d, now)
  BY <1>2 DEF SameA, FlagA
<1>8. SameB(c, W, d, V, now)
  BY <1>2, <1>4, <1>5, <1>6, ShownAlike DEF SameB
<1> QED BY <1>2, <1>5, <1>7, <1>8 DEF Same, d

(* The interrupt.                                                          *)
LEMMA SetIntSame ==
  ASSUME NEW now, NEW R, NEW c \in Shapes(now, R), NEW rclk, NEW W
  PROVE  Same(c, W, DoSetInt(c, rclk), W, now)
<1> DEFINE d == DoSetInt(c, rclk)
           lost == Given("TBB" \in c.irqflags, {"TBB", "TB"})
<1>1. /\ d.ta = c.ta /\ d.tb = c.tb /\ d.tat = c.tat /\ d.tbt = c.tbt /\ SameRest(c, d)
      /\ \/ d = c
         \/ /\ c.irqflags \cap c.mask # {} /\ d.line
            /\ d.irqflags = (c.irqflags \ lost) \cup {"IR"}
  BY DoSetIntFields
<1> HIDE DEF d
<1>2. CASE d = c
  BY <1>2, SameSelf DEF d
<1>3. CASE /\ c.irqflags \cap c.mask # {} /\ d.line
           /\ d.irqflags = (c.irqflags \ lost) \cup {"IR"}
  <2>1. Asserted(d, W, now) /\ Asserted(c, W, now)
    BY <1>3 DEF Asserted
  <2>2. Lone(d, W, now) <=> Lone(c, W, now)
    BY <1>1 DEF Lone, SameRest
  <2>3. ShownB(d, W, now) = ShownB(c, W, now)
    <3>1. CASE CountNow(c.tb, W, now) = 0
      <4>1. /\ FlagsB(d, W, now) = d.irqflags \cap {"TB", "TBB"}
            /\ FlagsB(c, W, now) = c.irqflags \cap {"TB", "TBB"}
        BY <1>1, <3>1 DEF FlagsB
      <4>2. CASE "TBB" \in c.irqflags
        <5>1. d.irqflags \cap {"TB", "TBB"} = {}
          BY <1>3, <4>2 DEF Given
        <5> QED BY <2>1, <4>1, <4>2, <5>1 DEF ShownB
      <4>3. CASE "TBB" \notin c.irqflags
        <5>1. d.irqflags \cap {"TB", "TBB"} = c.irqflags \cap {"TB", "TBB"}
          BY <1>3, <4>3 DEF Given
        <5> QED BY <2>1, <4>1, <5>1 DEF ShownB
      <4> QED BY <4>2, <4>3
    <3>2. CASE CountNow(c.tb, W, now) # 0
      <4>1. FlagsB(d, W, now) = FlagsB(c, W, now)
        BY <1>1, <2>2, <3>2 DEF FlagsB, Given
      <4> QED BY <2>1, <4>1 DEF ShownB
    <3> QED BY <3>1, <3>2
  <2>4. "TA" \in d.irqflags <=> "TA" \in c.irqflags
    BY <1>3 DEF Given
  <2>5. SameA(c, d, now)
    BY <1>1, <2>4 DEF SameA, FlagA
  <2>6. SameB(c, W, d, W, now)
    BY <1>1, <2>3 DEF SameB
  <2> QED BY <1>1, <2>1, <2>5, <2>6 DEF Same, d
<1> QED BY <1>1, <1>2, <1>3

-----------------------------------------------------------------------------
(* What else an update leaves behind.  Since the last read of the flags    *)
(* both timers have been replayed, and an underflow of timer B right after *)
(* it has an alarm.                                                        *)
Aged(c) == c.rdi <= c.ta.clk /\ c.rdi <= c.tb.clk
           /\ (c.tb.clk = c.rdi => c.tb.alarmclk = Upcoming(c.tb))

Lit(c) == c.irqflags \cap c.mask # {} => c.line

Fit(c, now) == /\ "STEP" \notin c.ta.state /\ StepIsLive(c.tb)
               /\ "IR" \in c.irqflags => c.line
               /\ c.rdi = now \/ Aged(c)

(* Timer B has not gone on from x counting the clock it does not get.      *)
PausedBy(t, x) == "COUNT2" \in t.state /\ "PHI2IN" \notin t.state => t.clk <= x

(* A timer that is to be stopped gets no other alarm.                      *)
Stops(ctl, t, u) == "START" \notin ctl => u.alarmclk \in {t.alarmclk, ClockMax}

GoesB(c, d, W, now) ==
  /\ Same(c, W, d, W, now) /\ Fit(d, now)
  /\ Lit(c) /\ c.rdi # now => Lit(d)
  /\ \A x \in Int : PausedBy(c.tb, x) => PausedBy(d.tb, x)
  /\ Stops(c.crb, c.tb, d.tb)

LEMMA GoesBTrans ==
  ASSUME NEW now, NEW W, NEW c, NEW d, NEW e, GoesB(c, d, W, now), GoesB(d, e, W, now)
  PROVE  GoesB(c, e, W, now)
<1>1. Same(c, W, e, W, now) /\ d.crb = c.crb /\ d.rdi = c.rdi
  BY SameTrans DEF GoesB, Same, SameRest, SameControl
<1> QED BY <1>1 DEF GoesB, Stops

LEMMA GoesBSelf ==
  ASSUME NEW now, NEW W, NEW c, Fit(c, now) PROVE GoesB(c, c, W, now)
BY SameSelf DEF GoesB, Stops

LEMMA IntTBGoes ==
  ASSUME NEW now \in 0..LastClk, NEW R, NEW c, Sound(c, now, R), c.tb.alarmclk <= now,
         Fit(c, now), NEW W \in SUBSET Int, \A j \in W : j >= c.tb.alarmclk
  PROVE  GoesB(c, IntTB(c, c.tb.alarmclk), W, now)
<1> DEFINE tick == c.tb.alarmclk
           ctl == InputB(c.crb)
           u == Update(c.tb, tick)
           v == u.timer
           e == DoUpdateTB(c, tick)
           a == AckAlarm(v)
           f == [e EXCEPT !.tb = AckAlarm(@)]
           t == IF NeedsAlarmB(f) THEN SetAlarm(a) ELSE a
           g == AlarmB(f)
           d == IntTB(c, tick)
<1>1. c \in Shapes(now, R) /\ now \in Nat /\ now < ClockMax
      /\ Held(c.tb, ctl, now) /\ Agreed(c.tb) /\ c.tb \in Timer
      /\ c.tb.clk \in Nat /\ c.ta.clk \in Nat /\ c.rdi \in Nat
  BY ClkInNat, HeldIsNear DEF Sound, SideA, SideB, Shapes
<1>2. tick \in 0..now /\ tick \in Nat /\ tick > c.tb.clk /\ tick = Upcoming(c.tb)
  BY <1>1, AlarmLies
<1>3. u.n \in Nat /\ v \in Timer /\ v.clk = tick
  <2>1. Near(c.tb) /\ Regular(c.tb) /\ Kept(c.tb, ctl) /\ tick \in Int /\ c.tb.clk < tick
    BY <1>1, <1>2, HeldIsNear
  <2> QED BY <1>1, <2>1, UpdateIs
<1>4. Same(c, W, e, W, now) /\ e.ta = c.ta /\ e.tb = v
      /\ e.irqflags \cap {"IR", "TA"} = c.irqflags \cap {"IR", "TA"} /\ e.line = c.line
  <2>1. InTime(c, now, tick)
    BY <1>1, <1>2 DEF InTime, Fit, Aged
  <2>2. \A j \in W : j >= tick
    OBVIOUS
  <2> HIDE DEF tick
  <2> QED BY <1>1, <1>2, <2>1, <2>2, ReplayB
<1>5. e \in Shapes(now, R)
  <2> HIDE DEF tick
  <2> QED BY <1>1, <1>3, UpdatedTBIs DEF DoUpdateTB
<1>6. "STEP" \notin v.state /\ ("COUNT2" \in v.state => "PHI2IN" \in v.state)
  <2>1. StepIsLive(c.tb) /\ c.tb.clk < tick
    BY <1>1, <1>2 DEF Fit
  <2> HIDE DEF tick
  <2> QED BY <1>1, <1>2, <2>1, UpdateLeavesNoStep
<1> HIDE DEF u, v, e, tick
<1>7. f = [e EXCEPT !.tb = a]
  BY <1>4
<1>8. /\ a \in Timer /\ a.clk = tick /\ a.state = v.state /\ a.cnt = v.cnt
      /\ a.latch = v.latch /\ a.alarmclk = ClockMax
  <2>1. ClockMax \in Int
    BY TimerAssumption
  <2> QED BY <1>3, <2>1, AlarmAtIs DEF AckAlarm
<1> HIDE DEF a
<1>9. /\ t \in Timer /\ t.clk = tick /\ t.state = v.state /\ t.cnt = v.cnt
      /\ t.latch = v.latch
      /\ "START" \notin c.crb => t.alarmclk = ClockMax
  <2>1. NextUnderflow(a, a.clk) \in Int
    <3>1. Held(a, ctl, now)
      BY <1>1, <1>2, AlarmServed DEF a, v, u, tick
    <3>2. Near(a) /\ Regular(a) /\ Kept(a, ctl)
      BY <3>1, HeldIsNear
    <3> QED BY <1>8, <3>2, UpcomingLies DEF Upcoming
  <2>2. LET s == SetAlarm(a) IN
        /\ s \in Timer /\ s.clk = tick /\ s.state = v.state /\ s.cnt = v.cnt
        /\ s.latch = v.latch
    BY <1>8, <2>1, AlarmAtIs DEF SetAlarm
  <2>3. f.crb = c.crb
    BY <1>4, <1>5, <1>7 DEF Shapes, Same, SameRest, SameControl
  <2>4. "START" \notin c.crb => ~NeedsAlarmB(f)
    BY <2>3 DEF NeedsAlarmB
  <2> QED BY <1>8, <2>2, <2>4
<1>10. g = [e EXCEPT !.tb = t]
  <2>1. f.tb = a
    BY <1>5, <1>7 DEF Shapes
  <2>2. CASE NeedsAlarmB(f)
    <3>1. g = [f EXCEPT !.tb = SetAlarm(a)]
      BY <2>1, <2>2 DEF AlarmB
    <3> QED BY <1>5, <1>7, <2>2, <3>1 DEF Shapes
  <2>3. CASE ~NeedsAlarmB(f)
    BY <1>7, <2>3 DEF AlarmB
  <2> QED BY <2>2, <2>3
<1>11. d = DoSetInt(g, tick)
  BY DEF IntTB, d, g, f, e, tick
<1> HIDE DEF t, g, d, f
<1>12. Same(e, W, g, W, now)
  <2>1. Core(t) = Core(v)
    BY <1>9 DEF Core
  <2>2. e.tb \in Timer /\ e.tb.clk <= now /\ e.tb.clk = tick /\ now \in Int
    BY <1>1, <1>2, <1>3, <1>4
  <2>3. SameSteps(e.tb, W, t, W, now)
    BY <1>4, <1>9, <2>1, <2>2, ToldAlike DEF SameSteps
  <2> QED BY <1>5, <1>9, <1>10, <2>2, <2>3, OtherAlarmB
<1>13. /\ g \in Shapes(now, R) /\ g.tb = t /\ g.ta = c.ta /\ g.line = c.line /\ g.irqflags = e.irqflags
  BY <1>4, <1>5, <1>9, <1>10 DEF Shapes
<1>14. Same(g, W, d, W, now)
  BY <1>11, <1>13, SetIntSame
<1>15. Same(c, W, g, W, now)
  BY <1>4, <1>12, SameTrans
<1>16. Same(c, W, d, W, now)
  BY <1>14, <1>15, SameTrans
<1>17. /\ d.ta = c.ta /\ d.tb = t
       /\ \/ d = g /\ (g.irqflags \cap g.mask = {} \/ g.rdi = tick)
          \/ d.line
  BY <1>11, <1>13, DoSetIntFields
<1>18. "IR" \in d.irqflags => d.line
  <2>1. "IR" \in c.irqflags => c.line
    BY DEF Fit
  <2> QED BY <1>4, <1>13, <1>17, <2>1
<1>19. d.rdi = c.rdi /\ g.rdi = c.rdi
  BY <1>15, <1>16 DEF Same, SameRest
<1>20. c.rdi = now \/ (Aged(d) /\ c.rdi < tick)
  BY <1>1, <1>2, <1>9, <1>17, <1>19 DEF Fit, Aged
<1>21. Fit(d, now)
  BY <1>6, <1>9, <1>17, <1>18, <1>19, <1>20 DEF Fit, StepIsLive
<1>22. c.rdi # now => Lit(d)
  BY <1>2, <1>17, <1>19, <1>20 DEF Lit
<1>23. /\ \A x \in Int : PausedBy(d.tb, x)
       /\ Stops(c.crb, c.tb, d.tb)
  BY <1>6, <1>9, <1>17 DEF PausedBy, Stops
<1> QED BY <1>16, <1>21, <1>22, <1>23 DEF GoesB, d, tick

(* The loop.                                                               *)
LEMMA ServeTBStays ==
  ASSUME NEW c, NEW rclk, NEW S, Serving(c) \in S,
         \A s \in S : NextTB(s, rclk) \in S, NEW k \in Nat
  PROVE  ServeTB(c, rclk)[k] \in S
<1> DEFINE x == Serving(c)
           F == [s \in S |-> NextTB(s, rclk)]
           Is(f) == f = [i \in Nat |-> IF i = 0 THEN Serving(c) ELSE NextTB(f[i - 1], rclk)]
           h == CHOOSE f : Is(f)
<1>1. x \in S /\ F \in [S -> S]
  OBVIOUS
<1> DEFINE g == Orbit(S, x, F)
<1>2. g \in [Nat -> S] /\ g[0] = x /\ \A n \in Nat : g[n + 1] = F[g[n]]
  <2> HIDE DEF F, x
  <2> QED BY ONLY <1>1, OrbitIs
<1> HIDE DEF g
<1>3. Is(g)
  <2>1. ASSUME NEW i \in Nat PROVE g[i] = IF i = 0 THEN x ELSE NextTB(g[i - 1], rclk)
    <3>1. CASE i = 0
      BY <1>2, <3>1
    <3>2. CASE i # 0
      <4>1. i - 1 \in Nat /\ i - 1 + 1 = i
        BY <3>2
      <4> QED BY <1>2, <3>2, <4>1
    <3> QED BY <3>1, <3>2
  <2> QED BY <1>2, <2>1
<1>4. ServeTB(c, rclk) = h
  BY DEF ServeTB
<1>5. Is(h)
  BY <1>3
<1> HIDE DEF h, x, F
<1>6. h[0] = x /\ \A i \in Nat : h[i + 1] = NextTB(h[i], rclk)
  BY <1>5 DEF x
<1> HIDE DEF Is
<1> DEFINE A == {i \in Nat : h[i] \in S}
<1>7. 0 \in A /\ \A i \in A : i + 1 \in A
  BY <1>1, <1>6
<1>8. A = Nat
  <2>1. A \in SUBSET Nat
    OBVIOUS
  <2> HIDE DEF A
  <2> QED BY <1>7, <2>1, Inductive
<1> QED BY <1>4, <1>8

LEMMA AlarmsTBGoes ==
  ASSUME NEW now \in 0..LastClk, NEW R, NEW c, Sound(c, now, R), Fit(c, now),
         NEW rclk \in 0..now, NEW W \in SUBSET Int, \A j \in W : j >= rclk
  PROVE  LET d == AlarmsTB(c, rclk) IN
         GoesB(c, d, W, now) /\ (d.tb.clk <= rclk \/ d.tb.clk = c.tb.clk)
<1> DEFINE Ends(d) == d.tb.clk <= rclk \/ d.tb.clk = c.tb.clk
           S == {s \in ServedTB(c, now, R, rclk) : GoesB(c, s.chip, W, now) /\ Ends(s.chip)}
           k == Passes(c.tb, rclk)
           s == ServeTB(c, rclk)[k]
           b == s.chip
           d == AlarmsTB(c, rclk)
           u == DoUpdateTB(b, rclk)
<1>1. now \in Nat /\ rclk \in Nat /\ rclk <= now /\ c.tb.alarmclk \in Nat
  BY ClkInNat, AlarmLies DEF Sound, SideB
<1>2. k \in Nat
  BY <1>1, PassesInNat
<1>3. Serving(c) \in S
  <2>1. ServeTB(c, rclk)[0] \in ServedTB(c, now, R, rclk)
    BY ServeTBServes
  <2>2. Serving(c) \in ServedTB(c, now, R, rclk)
    <3>1. SameControl(c, c) /\ c \in Shapes(now, R) /\ c.tb.clk \in Nat
      BY HeldIsNear DEF SameControl, Sound, SideB
    <3> QED BY <1>1, <3>1 DEF Serving, ServedTB
  <2>3. Serving(c).chip = c
    BY DEF Serving
  <2> QED BY <2>2, <2>3, GoesBSelf
<1>4. ASSUME NEW r \in S PROVE NextTB(r, rclk) \in S
  <2> DEFINE q == NextTB(r, rclk)
             o == r.chip
  <2>1. r \in ServedTB(c, now, R, rclk) /\ GoesB(c, o, W, now) /\ Sound(o, now, R) /\ Ends(o)
    BY DEF ServedTB
  <2>2. q \in ServedTB(c, now, R, rclk) /\ o.tb.alarmclk \in Nat
    BY <2>1, NextTBServes
  <2>3. CASE o.tb.alarmclk > rclk
    <3>1. q = r
      BY <2>1, <2>3, NextTBServes
    <3> QED BY <3>1
  <2>4. CASE o.tb.alarmclk <= rclk
    <3>1. q.chip = IntTB(o, o.tb.alarmclk)
      BY <2>4 DEF NextTB
    <3>2. \A j \in W : j >= o.tb.alarmclk
      BY <1>1, <2>2, <2>4
    <3>3. o.tb.alarmclk <= now /\ Fit(o, now)
      BY <1>1, <2>1, <2>2, <2>4 DEF GoesB
    <3> HIDE DEF o, q
    <3>4. GoesB(o, q.chip, W, now)
      BY <2>1, <3>1, <3>2, <3>3, IntTBGoes
    <3>5. q.chip.tb.clk = o.tb.alarmclk
      BY <2>1, <3>1, <3>3, IntTBIs
    <3>6. GoesB(c, q.chip, W, now) /\ Ends(q.chip)
      BY <2>1, <2>4, <3>4, <3>5, GoesBTrans
    <3> QED BY <2>2, <3>6 DEF q
  <2> QED BY <1>1, <2>2, <2>3, <2>4
<1>5. s \in S
  <2> HIDE DEF S, k
  <2> QED BY <1>2, <1>3, <1>4, ServeTBStays
<1>6. b.tb.alarmclk > rclk
  <2>1. /\ b.tb.alarmclk \in Nat
        /\ b.tb.alarmclk > rclk \/ b.tb.alarmclk >= c.tb.alarmclk + k
    BY <1>2, ServeTBServes
  <2> HIDE DEF b
  <2> QED BY <1>1, <1>2, <2>1, PassesSuffice
<1>7. d = IF s.last = rclk THEN b ELSE u
  BY DEF AlarmsTB, ReplayedTB
<1> HIDE DEF s, d
<1>8. GoesB(c, b, W, now) /\ Sound(b, now, R) /\ Ends(b)
  BY <1>5 DEF ServedTB
<1> HIDE DEF b
<1>9. GoesB(b, u, W, now) /\ Ends(u)
  <2> DEFINE ctl == InputB(b.crb)
             v == Update(b.tb, rclk).timer
             n == Update(b.tb, rclk).n
  <2>1. b \in Shapes(now, R) /\ Held(b.tb, ctl, now) /\ Agreed(b.tb) /\ b.tb \in Timer
        /\ b.tb.clk \in Nat /\ b.ta.clk \in Nat /\ b.rdi \in Nat /\ Near(b.tb)
        /\ Regular(b.tb) /\ Kept(b.tb, ctl) /\ b.tb.alarmclk \in Nat /\ b.tb.alarmclk > rclk
        /\ (NeededB(b) => b.tb.alarmclk = Upcoming(b.tb))
    BY <1>6, <1>8, HeldIsNear, AlarmLies DEF Sound, SideA, SideB, WantedB, Shapes
  <2>2. Fit(b, now)
    BY <1>8 DEF GoesB
  <2>3. InTime(b, now, rclk)
    BY <1>1, <2>1, <2>2 DEF InTime, Fit, Aged
  <2>4. /\ Same(b, W, u, W, now) /\ u.ta = b.ta /\ u.tb = v
        /\ u.irqflags \cap {"IR", "TA"} = b.irqflags \cap {"IR", "TA"}
        /\ n = 0 => u.irqflags = b.irqflags
        /\ u.line = b.line
    BY <2>1, <2>3, ReplayB
  <2>5. /\ v \in Timer /\ n \in Nat
        /\ ~(b.tb.clk < rclk) => v = b.tb /\ n = 0
        /\ b.tb.clk < rclk => v.clk = rclk
    BY <1>1, <2>1, UpdateIs
  <2>6. v.alarmclk = b.tb.alarmclk
    BY <2>1, UpdateHolds
  <2>7. b.tb.clk < rclk => "STEP" \notin v.state /\ ("COUNT2" \in v.state => "PHI2IN" \in v.state)
    BY <2>1, <2>2, UpdateLeavesNoStep DEF Fit
  <2>8. "TB" \in b.mask => n = 0
    <3>1. SUFFICES ASSUME "TB" \in b.mask, b.tb.clk < rclk PROVE n = 0
      BY <2>5
    <3>2. Upcoming(b.tb) > rclk
      BY <2>1, <3>1 DEF NeededB
    <3>3. rclk \in 0..LastClk /\ Held(b.tb, ctl, rclk) /\ rclk \in 0..rclk
      BY <1>1, <2>1, <3>1, HeldBefore
    <3>4. CountNow(b.tb, {}, rclk) = 0
      BY <3>2, <3>3, FirstCounts
    <3>5. CountNow(b.tb, {}, rclk) = n + CountNow(v, {}, rclk) /\ CountNow(v, {}, rclk) \in Nat
      <4>1. \A j \in {} : j >= rclk
        OBVIOUS
      <4> QED BY ONLY <3>3, <4>1, UpdateRides
    <3> HIDE DEF n
    <3> QED BY <2>5, <3>4, <3>5
  <2> HIDE DEF n, v, u
  <2>9. b.rdi # now => Aged(u)
    <3>1. SUFFICES ASSUME b.rdi # now PROVE Aged(u)
      OBVIOUS
    <3>2. u.rdi = b.rdi /\ Aged(b)
      BY <2>2, <2>4, <3>1 DEF Fit, Same, SameRest
    <3> QED BY <1>1, <2>1, <2>4, <2>5, <3>2 DEF Aged
  <2>10. Fit(u, now)
    <3>1. u.rdi = b.rdi
      BY <2>4 DEF Same, SameRest
    <3>2. StepIsLive(u.tb)
      BY <2>2, <2>4, <2>5, <2>7 DEF Fit, StepIsLive
    <3>3. "IR" \in u.irqflags => u.line
      BY <2>2, <2>4 DEF Fit
    <3> QED BY <2>2, <2>4, <2>9, <3>1, <3>2, <3>3 DEF Fit
  <2>11. Lit(b) => Lit(u)
    <3>1. u.mask = b.mask /\ b.mask \subseteq {"TA", "TB"}
      BY <2>1, <2>4 DEF Same, SameRest, SameControl, Shapes, Sources
    <3>2. "TB" \in b.mask => u.irqflags = b.irqflags
      BY <2>4, <2>8
    <3> QED BY <2>4, <3>1, <3>2 DEF Lit
  <2>12. /\ \A x \in Int : PausedBy(b.tb, x) => PausedBy(u.tb, x)
         /\ Stops(b.crb, b.tb, u.tb)
    BY <2>4, <2>5, <2>6, <2>7 DEF PausedBy, Stops
  <2>13. Ends(u)
    BY <1>1, <1>8, <2>1, <2>4, <2>5
  <2> QED BY <2>4, <2>10, <2>11, <2>12, <2>13 DEF GoesB
<1>10. GoesB(c, u, W, now)
  BY <1>8, <1>9, GoesBTrans
<1> QED BY <1>7, <1>8, <1>9, <1>10 DEF d

-----------------------------------------------------------------------------
(* The ticks timer B is going to be stepped at: the underflows of timer A  *)
(* that lie ahead of it.                                                   *)
StepsB(c) == {j \in Int : /\ CountsTA(c) /\ j > c.ta.clk
                          /\ Zero(c.ta, j - c.ta.clk - 1)}

Follows(c) == CountsTA(c) => c.tb.clk <= Upcoming(c.ta)

Trim(c, now) == Fit(c, now) /\ Follows(c) /\ PausedBy(c.tb, c.ta.clk)

GoesA(c, d, now) ==
  /\ Same(c, StepsB(c), d, StepsB(d), now) /\ Trim(d, now)
  /\ Lit(c) /\ c.rdi # now => Lit(d)
  /\ Stops(c.cra, c.ta, d.ta) /\ Stops(c.crb, c.tb, d.tb)

LEMMA GoesATrans ==
  ASSUME NEW now, NEW c, NEW d, NEW e, GoesA(c, d, now), GoesA(d, e, now)
  PROVE  GoesA(c, e, now)
<1>1. Same(c, StepsB(c), e, StepsB(e), now) /\ d.crb = c.crb /\ d.cra = c.cra /\ d.rdi = c.rdi
  BY SameTrans DEF GoesA, Same, SameRest, SameControl
<1> QED BY <1>1 DEF GoesA, Stops

LEMMA GoesASelf ==
  ASSUME NEW now, NEW c, Trim(c, now) PROVE GoesA(c, c, now)
BY SameSelf DEF GoesA, Stops

LEMMA StepsLie ==
  ASSUME NEW now \in 0..LastClk, NEW R, NEW c, Sound(c, now, R)
  PROVE  /\ StepsB(c) \subseteq Int
         /\ ~CountsTA(c) => StepsB(c) = {}
         /\ CountsTA(c) => c.ta.alarmclk = Upcoming(c.ta)
         /\ \A j \in StepsB(c) : j >= Upcoming(c.ta) /\ j > c.ta.clk
         /\ Upcoming(c.ta) > c.ta.clk
         /\ CountsTA(c) /\ Upcoming(c.ta) <= now => Upcoming(c.ta) \in StepsB(c)
<1> DEFINE t == c.ta
<1>1. /\ t \in Timer /\ Regular(t) /\ Kept(t, c.cra) /\ t.clk \in Nat /\ now \in Nat
      /\ now < ClockMax /\ ClockMax \in Nat
      /\ (CountsTA(c) => t.alarmclk = Upcoming(t))
  BY HeldIsNear, TimerAssumption DEF Sound, SideA, WantedA, NeededA, CountsTA
<1>2. CASE Silent(t) /\ Upcoming(t) = ClockMax
  <2>1. ASSUME NEW j \in StepsB(c) PROVE FALSE
    <3>1. j - t.clk - 1 \in Nat /\ Zero(t, j - t.clk - 1)
      BY <1>1 DEF StepsB
    <3> QED BY <1>2, <3>1 DEF Silent
  <2>2. Upcoming(c.ta) > c.ta.clk
    BY <1>1, <1>2, HeldIsNear DEF Sound, SideA
  <2> QED BY <1>1, <1>2, <2>1, <2>2 DEF StepsB
<1>3. CASE \E m \in 0..4 + MaxLatch : FirstZero(t, m) /\ Upcoming(t) = t.clk + (m + 1)
  <2>1. PICK m \in 0..4 + MaxLatch : FirstZero(t, m) /\ Upcoming(t) = t.clk + (m + 1)
    BY <1>3
  <2>2. m \in Nat
    BY <2>1, CiaBusAssumption
  <2>3. ASSUME NEW j \in StepsB(c) PROVE j >= Upcoming(t) /\ j > t.clk
    <3>1. j \in Int /\ j > t.clk /\ j - t.clk - 1 \in Nat /\ Zero(t, j - t.clk - 1)
      BY <1>1 DEF StepsB
    <3>2. j - t.clk - 1 < m => j - t.clk - 1 \in 0..m - 1
      BY <2>2, <3>1
    <3>3. ~(j - t.clk - 1 < m)
      BY <2>1, <3>1, <3>2 DEF FirstZero
    <3> QED BY <1>1, <2>1, <2>2, <3>1, <3>3
  <2>4. CountsTA(c) => Upcoming(t) \in StepsB(c)
    <3>1. Upcoming(t) \in Int /\ Upcoming(t) > t.clk /\ Upcoming(t) - t.clk - 1 = m
      BY <1>1, <2>1, <2>2
    <3> QED BY <2>1, <3>1 DEF StepsB, FirstZero
  <2>5. Upcoming(t) > t.clk
    BY <1>1, <2>1, <2>2
  <2> QED BY <1>1, <2>3, <2>4, <2>5 DEF StepsB
<1> QED BY <1>1, <1>2, <1>3, UpcomingIs

(* They do not depend on how far timer A has been replayed.                *)
LEMMA StepsMove ==
  ASSUME NEW c, NEW d, c.ta \in Timer, d.ta \in Timer, d.crb = c.crb, NEW k \in Nat,
         d.ta.clk = c.ta.clk + k, Core(d.ta) = Core(Course(c.ta)[k])
  PROVE  StepsB(d) = {j \in StepsB(c) : j > d.ta.clk}
<1>1. c.ta.clk \in Int /\ d.ta.clk \in Int
  BY DEF Timer
<1>2. CountsTA(d) <=> CountsTA(c)
  BY DEF CountsTA
<1>3. ASSUME NEW j \in Int, j > d.ta.clk
      PROVE  Zero(d.ta, j - d.ta.clk - 1) = Zero(c.ta, j - c.ta.clk - 1)
  <2>1. j - d.ta.clk - 1 \in Nat /\ k + (j - d.ta.clk - 1) = j - c.ta.clk - 1
    BY <1>1, <1>3
  <2> QED BY <2>1, CoursesByCore DEF Zero
<1>4. ASSUME NEW j \in Int
      PROVE  j \in StepsB(d) <=> (j \in StepsB(c) /\ j > d.ta.clk)
  BY <1>1, <1>2, <1>3 DEF StepsB
<1> QED BY <1>4 DEF StepsB

LEMMA StepsStay ==
  ASSUME NEW c, NEW d, c.ta \in Timer, d.ta \in Timer, d.crb = c.crb,
         d.ta.clk = c.ta.clk, Core(d.ta) = Core(c.ta)
  PROVE  StepsB(d) = StepsB(c)
<1>1. Core(d.ta) = Core(Course(c.ta)[0]) /\ d.ta.clk = c.ta.clk + 0
  BY CourseIs DEF Timer
<1>2. StepsB(d) = {j \in StepsB(c) : j > d.ta.clk}
  BY <1>1, StepsMove
<1> QED BY <1>2 DEF StepsB

(* After an update timer B is stepped at the ticks that are left.          *)
LEMMA StepsOfUpdate ==
  ASSUME NEW now \in 0..LastClk, NEW R, NEW c, Sound(c, now, R), NEW rclk \in 0..now,
         NEW d, d.crb = c.crb, d.ta \in Timer, Core(d.ta) = Core(Update(c.ta, rclk).timer),
         d.ta.clk = Update(c.ta, rclk).timer.clk
  PROVE  StepsB(d) = {j \in StepsB(c) : j > d.ta.clk}
<1> DEFINE t == c.ta
           u == Update(t, rclk)
<1>1. t \in Timer /\ Regular(t) /\ t.clk \in Nat /\ rclk \in Nat /\ Held(t, c.cra, now)
  BY HeldIsNear DEF Sound, SideA
<1>2. CASE t.clk < rclk
  <2>1. u.timer.clk = rclk /\ Core(u.timer) = Core(Course(t)[rclk - t.clk])
    BY <1>1, <1>2, UpdateIsReplay
  <2>2. rclk - t.clk \in Nat /\ d.ta.clk = t.clk + (rclk - t.clk)
    BY <1>1, <1>2, <2>1
  <2>3. c.ta \in Timer /\ Core(d.ta) = Core(Course(c.ta)[rclk - t.clk])
    BY <1>1, <2>1
  <2> HIDE DEF t, u
  <2> QED BY <2>2, <2>3, StepsMove DEF t
<1>3. CASE ~(t.clk < rclk)
  <2>1. u.timer = t
    BY <1>1, <1>3, NothingToReplay
  <2>2. StepsB(d) = StepsB(c)
    BY <1>1, <2>1, StepsStay
  <2>3. StepsB(c) = {j \in StepsB(c) : j > d.ta.clk}
    BY <2>1 DEF StepsB
  <2> QED BY <2>2, <2>3
<1> QED BY <1>2, <1>3

-----------------------------------------------------------------------------
(* Timer B counts the underflow of timer A.                                *)
LEMMA SingleStepIs ==
  ASSUME NEW now \in 0..LastClk, NEW ctl, NEW t, Held(t, ctl, now)
  PROVE  LET s == SingleStep(t) IN
         /\ s \in Timer /\ s.clk = t.clk /\ Core(s) = Core(WithStep(t))
         /\ s.state = t.state \cup (IF "START" \in t.state THEN {"STEP"} ELSE {})
<1> DEFINE s == SingleStep(t)
           w == WithStep(t)
<1>1. t \in Timer
  BY HeldIsNear
<1>2. /\ w \in Timer /\ w.cnt = t.cnt /\ w.latch = t.latch /\ w.clk = t.clk
      /\ w.state = t.state \cup (IF "START" \in t.state THEN {"STEP"} ELSE {})
  BY <1>1, WithStepIs
<1>3. CASE "START" \in t.state
  <2>1. s = SetAlarm(w)
    BY <1>3 DEF SingleStep
  <2>2. Held(w, ctl, now)
    BY StepHolds
  <2>3. Near(w) /\ Regular(w) /\ Kept(w, ctl)
    BY <2>2, HeldIsNear
  <2> HIDE DEF w, s
  <2>4. NextUnderflow(w, w.clk) \in Int
    BY <1>2, <2>3, UpcomingLies DEF Upcoming
  <2>5. /\ s \in Timer /\ s.clk = w.clk /\ s.state = w.state /\ s.cnt = w.cnt
        /\ s.latch = w.latch
    BY <1>2, <2>1, <2>4, AlarmAtIs DEF SetAlarm
  <2>6. Core(s) = Core(w)
    BY <2>5 DEF Core
  <2> QED BY <1>2, <2>5, <2>6 DEF s, w
<1>4. CASE "START" \notin t.state
  <2>1. s = t
    BY <1>4 DEF SingleStep
  <2>2. w.state = t.state
    BY <1>2, <1>4
  <2> HIDE DEF w, s
  <2>3. Core(w) = Core(t)
    BY <1>2, <2>2 DEF Core
  <2> QED BY <1>1, <1>4, <2>1, <2>3 DEF s, w
<1> QED BY <1>3, <1>4

LEMMA CountedByTBGoes ==
  ASSUME NEW now \in 0..LastClk, NEW R, NEW c, Sound(c, now, R), Fit(c, now),
         NEW x \in Int, x < c.ta.clk, PausedBy(c.tb, x),
         CountsTA(c) => c.tb.clk <= c.ta.clk,
         c.rdi = now \/ c.rdi < c.ta.clk,
         NEW W, W = StepsB(c) \cup Given(CountsTA(c), {c.ta.clk})
  PROVE  LET d == CountedByTB(c, c.ta.clk) IN
         /\ Same(c, W, d, StepsB(d), now) /\ Fit(d, now) /\ d.ta = c.ta
         /\ PausedBy(d.tb, d.ta.clk) /\ Stops(c.crb, c.tb, d.tb)
         /\ CountsTA(d) => d.tb.clk = d.ta.clk
<1> DEFINE tick == c.ta.clk
           d == CountedByTB(c, tick)
           V == StepsB(c)
<1>1. c \in Shapes(now, R) /\ Held(c.ta, c.cra, now) /\ tick \in 0..now /\ now \in Nat
      /\ c.ta \in Timer
  BY ClkInNat, HeldIsNear DEF Sound, SideA, Held
<1>2. CASE ~CountsTA(c)
  <2>1. d = c
    BY <1>2 DEF CountedByTB
  <2>2. W = V /\ V = StepsB(d)
    BY <1>2, <2>1 DEF Given
  <2>3. PausedBy(c.tb, c.ta.clk)
    <3>1. c.tb.clk \in Int
      BY HeldIsNear DEF Sound, SideB
    <3> QED BY <1>1, <3>1 DEF PausedBy
  <2> QED BY <1>2, <2>1, <2>2, <2>3, SameSelf DEF Stops
<1>3. CASE CountsTA(c)
  <2> DEFINE e == AlarmsTB(c, tick)
             s == SingleStep(e.tb)
  <2>1. DoUpdateTA(c, tick) = c
    <3>1. Update(c.ta, tick) = [timer |-> c.ta, n |-> 0]
      BY <1>1, NothingToReplay
    <3>2. DoUpdateTA(c, tick) = [c EXCEPT !.ta = c.ta]
      BY <3>1 DEF DoUpdateTA, UpdatedTA
    <3> QED BY <1>1, <3>2 DEF Shapes
  <2>2. d = [e EXCEPT !.tb = s]
    BY <1>3, <2>1 DEF CountedByTB
  <2>3. V \subseteq Int /\ \A j \in V : j > tick
    BY StepsLie
  <2>4. W = V \cup {tick}
    BY <1>3 DEF Given
  <2>5. W \subseteq Int /\ \A j \in W : j >= tick
    BY <1>1, <2>3, <2>4
  <2>6. GoesB(c, e, W, now) /\ (e.tb.clk <= tick \/ e.tb.clk = c.tb.clk)
    BY <1>1, <2>5, AlarmsTBGoes
  <2>7. Sound(e, now, R) /\ e.ta = c.ta /\ SameControl(c, e) /\ e.tb.clk >= tick
    BY <1>1, AlarmsTBIs
  <2>8. e \in Shapes(now, R) /\ Held(e.tb, InputB(e.crb), now) /\ e.tb \in Timer
        /\ e.tb.clk \in Int /\ Kept(e.tb, InputB(e.crb))
    BY <2>7, HeldIsNear DEF Sound, SideB
  <2>9. e.tb.clk = tick
    BY <1>1, <1>3, <2>6, <2>7, <2>8
  <2>10. /\ s \in Timer /\ s.clk = tick /\ Core(s) = Core(WithStep(e.tb))
         /\ s.state = e.tb.state \cup (IF "START" \in e.tb.state THEN {"STEP"} ELSE {})
    BY <2>8, <2>9, SingleStepIs
  <2> HIDE DEF e, s, d, V
  <2>11. Same(e, W, d, V, now)
    <3>1. Told(V, tick, s) = s
      BY <1>1, <2>3 DEF Told
    <3>2. Told(W, tick, e.tb) = WithStep(e.tb)
      BY <2>4 DEF Told
    <3>3. SameSteps(e.tb, W, s, V, now)
      BY <1>1, <2>4, <2>9, <2>10, <3>1, <3>2 DEF SameSteps
    <3>4. now \in Int /\ e.tb.clk <= now /\ s.clk = e.tb.clk
      BY <1>1, <2>9, <2>10
    <3> QED BY <2>2, <2>8, <2>10, <3>3, <3>4, OtherAlarmB
  <2>12. /\ d.tb = s /\ d.ta = c.ta /\ d.crb = c.crb /\ d.irqflags = e.irqflags
         /\ d.line = e.line /\ d.rdi = e.rdi
    BY <2>2, <2>7, <2>8 DEF Shapes, SameControl
  <2>13. V = StepsB(d)
    BY <2>12 DEF StepsB, CountsTA, V
  <2>14. Same(c, W, d, StepsB(d), now)
    BY <2>6, <2>11, <2>13, SameTrans DEF GoesB
  <2>15. "COUNT2" \notin e.tb.state
    <3>1. PausedBy(e.tb, x)
      BY <2>6 DEF GoesB
    <3>2. "CNT" \in InputB(e.crb)
      BY <1>3, <2>7 DEF InputB, CountsTA, SameControl
    <3>3. "PHI2IN" \notin e.tb.state
      BY <2>8, <3>2 DEF Kept
    <3> QED BY <1>1, <2>9, <3>1, <3>3 DEF PausedBy
  <2>16. StepIsLive(d.tb)
    <3>1. StepIsLive(e.tb)
      BY <2>6 DEF GoesB, Fit
    <3> QED BY <2>10, <2>12, <2>15, <3>1 DEF StepIsLive, Stepped
  <2>17. d.rdi = c.rdi
    BY <2>6, <2>12 DEF GoesB, Same, SameRest
  <2>18. Fit(d, now)
    <3>1. Fit(e, now) /\ "STEP" \notin c.ta.state
      BY <2>6 DEF GoesB, Fit
    <3>2. c.rdi = now \/ Aged(d)
      <4>1. c.rdi \in Int
        BY <1>1 DEF Shapes
      <4> QED BY <1>1, <2>10, <2>12, <2>17, <4>1 DEF Aged
    <3> QED BY <2>12, <2>16, <2>17, <3>1, <3>2 DEF Fit
  <2>19. PausedBy(d.tb, d.ta.clk)
    BY <2>10, <2>12, <2>15 DEF PausedBy
  <2>20. Stops(c.crb, c.tb, d.tb)
    BY <1>3 DEF Stops, CountsTA
  <2> QED BY <2>10, <2>12, <2>14, <2>18, <2>19, <2>20 DEF d
<1> QED BY <1>2, <1>3

(* ciacore_intta.                                                          *)
LEMMA IntTAGoes ==
  ASSUME NEW now \in 0..LastClk, NEW R, NEW c, Sound(c, now, R), c.ta.alarmclk <= now,
         Trim(c, now)
  PROVE  GoesA(c, IntTA(c, c.ta.alarmclk), now)
<1> DEFINE tick == c.ta.alarmclk
           ctl == c.cra
           u == Update(c.ta, tick)
           v == u.timer
           e == DoUpdateTA(c, tick)
           a == AckAlarm(v)
           f == [e EXCEPT !.ta = AckAlarm(@)]
           t == IF NeedsAlarmA(f) THEN SetAlarm(a) ELSE a
           g == Rung(c, tick)
           h == CountedByTB(g, tick)
           d == IntTA(c, tick)
           W == StepsB(c)
<1>1. c \in Shapes(now, R) /\ now \in Nat /\ now < ClockMax
      /\ Held(c.ta, ctl, now) /\ Agreed(c.ta) /\ c.ta \in Timer
      /\ c.tb.clk \in Nat /\ c.ta.clk \in Nat /\ c.rdi \in Nat
  BY ClkInNat, HeldIsNear DEF Sound, SideA, SideB, Shapes
<1>2. tick \in 0..now /\ tick \in Nat /\ tick > c.ta.clk /\ tick = Upcoming(c.ta)
  BY <1>1, AlarmLies
<1>3. u.n \in Nat /\ v \in Timer /\ v.clk = tick
  <2>1. Near(c.ta) /\ Regular(c.ta) /\ Kept(c.ta, ctl) /\ tick \in Int /\ c.ta.clk < tick
    BY <1>1, <1>2, HeldIsNear
  <2> QED BY <1>1, <2>1, UpdateIs
<1>4. Same(c, W, e, W, now) /\ e.tb = c.tb /\ e.ta = v
      /\ e.irqflags = c.irqflags \cup Given(u.n > 0, {"TA"}) /\ e.line = c.line
  <2> HIDE DEF tick
  <2> QED BY <1>1, <1>2, ReplayA
<1>5. e \in Shapes(now, R)
  <2> HIDE DEF tick
  <2> QED BY <1>1, <1>3, UpdatedTAIs DEF DoUpdateTA
<1>6. "STEP" \notin v.state
  <2>1. StepIsLive(c.ta) /\ c.ta.clk < tick
    BY <1>1, <1>2 DEF Trim, Fit, StepIsLive
  <2> HIDE DEF tick
  <2> QED BY <1>1, <1>2, <2>1, UpdateLeavesNoStep
<1> HIDE DEF u, v, e, W
<1>7. f = [e EXCEPT !.ta = a]
  BY <1>4
<1>8. /\ a \in Timer /\ a.clk = tick /\ a.state = v.state /\ a.cnt = v.cnt
      /\ a.latch = v.latch /\ a.alarmclk = ClockMax
  <2>1. ClockMax \in Int
    BY TimerAssumption
  <2> HIDE DEF tick
  <2> QED BY <1>3, <2>1, AlarmAtIs DEF AckAlarm
<1>9. /\ t \in Timer /\ t.clk = tick /\ t.state = v.state /\ t.cnt = v.cnt
      /\ t.latch = v.latch
      /\ "START" \notin c.cra => t.alarmclk = ClockMax
  <2>1. NextUnderflow(a, a.clk) \in Int
    <3>1. Held(a, ctl, now)
      BY <1>1, <1>2, AlarmServed DEF a, v, u
    <3>2. Near(a) /\ Regular(a) /\ Kept(a, ctl)
      BY <3>1, HeldIsNear
    <3> HIDE DEF a, tick
    <3> QED BY <1>8, <3>2, UpcomingLies DEF Upcoming
  <2> HIDE DEF a, tick, f
  <2>2. LET s == SetAlarm(a) IN
        /\ s \in Timer /\ s.clk = tick /\ s.state = v.state /\ s.cnt = v.cnt
        /\ s.latch = v.latch
    BY <1>8, <2>1, AlarmAtIs DEF SetAlarm
  <2>3. f.cra = c.cra
    BY <1>4, <1>5, <1>7 DEF Shapes, Same, SameRest, SameControl
  <2>4. "START" \notin c.cra => ~NeedsAlarmA(f)
    BY <2>3 DEF NeedsAlarmA
  <2> QED BY <1>8, <2>2, <2>4
<1>10. g = [e EXCEPT !.ta = t]
  <2> DEFINE k == AlarmA(f)
  <2>1. f.ta = a /\ g = k
    BY <1>5, <1>7 DEF Shapes, Rung, e
  <2> HIDE DEF g, a, f
  <2>2. CASE NeedsAlarmA(f)
    <3>1. k = [f EXCEPT !.ta = SetAlarm(a)]
      BY <2>1, <2>2 DEF AlarmA
    <3> QED BY <1>5, <1>7, <2>1, <2>2, <3>1 DEF Shapes
  <2>3. CASE ~NeedsAlarmA(f)
    BY <1>7, <2>1, <2>3 DEF AlarmA
  <2> QED BY <2>2, <2>3
<1>11. d = DoSetInt(h, tick)
  BY DEF IntTA, Rung
<1>12. Sound(g, now, R) /\ g.tb = c.tb /\ SameControl(c, g)
  BY RungIs
<1> HIDE DEF t, g, d, a, f
<1>13. Same(c, W, g, W, now)
  <2>1. Core(t) = Core(v)
    BY <1>9 DEF Core
  <2>2. e.ta.clk <= now /\ e.ta.clk = tick /\ now \in Int
    BY <1>1, <1>2, <1>3, <1>4
  <2>3. Same(e, W, g, W, now)
    BY <1>4, <1>5, <1>9, <1>10, <2>1, <2>2, OtherAlarmA
  <2> QED BY <1>4, <2>3, SameTrans
<1>14. g.ta = t /\ g.line = c.line /\ ("IR" \in g.irqflags <=> "IR" \in c.irqflags)
       /\ g.rdi = c.rdi /\ g.crb = c.crb
  <2>1. g.ta = t /\ g.line = e.line /\ g.irqflags = e.irqflags
    BY <1>5, <1>9, <1>10 DEF Shapes
  <2>2. g.rdi = c.rdi /\ g.crb = c.crb
    BY <1>13 DEF Same, SameRest, SameControl
  <2> QED BY <1>4, <2>1, <2>2 DEF Given
<1>15. Fit(c, now) /\ Follows(c) /\ PausedBy(c.tb, c.ta.clk)
  BY DEF Trim
<1>16. Fit(g, now)
  <2>1. c.rdi = now \/ Aged(g)
    BY <1>1, <1>2, <1>9, <1>12, <1>14, <1>15 DEF Fit, Aged
  <2> QED BY <1>6, <1>9, <1>12, <1>14, <1>15, <2>1 DEF Fit
<1>17. StepsB(g) = {j \in W : j > tick}
  <2>1. Core(g.ta) = Core(v) /\ g.ta.clk = v.clk /\ g.ta \in Timer
    BY <1>3, <1>9, <1>14 DEF Core
  <2> HIDE DEF tick, g
  <2>2. StepsB(g) = {j \in StepsB(c) : j > g.ta.clk}
    BY <1>2, <1>14, <2>1, StepsOfUpdate DEF u, v
  <2> QED BY <1>9, <1>14, <2>2 DEF W
<1>18. W = StepsB(g) \cup Given(CountsTA(g), {g.ta.clk})
  <2>1. CountsTA(g) <=> CountsTA(c)
    BY <1>14 DEF CountsTA
  <2>2. CASE ~CountsTA(c)
    <3>1. W = {}
      BY <2>2, StepsLie DEF W
    <3> QED BY <1>17, <2>1, <2>2, <3>1 DEF Given
  <2>3. CASE CountsTA(c)
    <3>1. tick \in W /\ \A j \in W : j >= tick /\ j \in Int
      BY <1>1, <1>2, <2>3, StepsLie DEF W
    <3>2. g.ta.clk = tick
      BY <1>9, <1>14
    <3> HIDE DEF tick
    <3>3. \A j \in W : j > tick \/ j = tick
      BY <1>2, <3>1
    <3> QED BY <1>17, <2>1, <2>3, <3>1, <3>2, <3>3 DEF Given
  <2> QED BY <2>2, <2>3
<1>19. /\ Same(g, W, h, StepsB(h), now) /\ Fit(h, now) /\ h.ta = g.ta
       /\ PausedBy(h.tb, h.ta.clk) /\ Stops(g.crb, g.tb, h.tb)
       /\ CountsTA(h) => h.tb.clk = h.ta.clk
  <2>1. g.ta.clk = tick
    BY <1>9, <1>14
  <2>2. c.ta.clk \in Int /\ c.ta.clk < g.ta.clk /\ PausedBy(g.tb, c.ta.clk)
    BY <1>1, <1>2, <1>12, <1>15, <2>1
  <2>3. CountsTA(g) => g.tb.clk <= g.ta.clk
    BY <1>1, <1>2, <1>12, <1>14, <1>15, <2>1 DEF Follows, CountsTA
  <2>4. g.rdi = now \/ g.rdi < g.ta.clk
    BY <1>1, <1>2, <1>14, <1>15, <2>1 DEF Fit, Aged
  <2>5. h = CountedByTB(g, g.ta.clk)
    BY <2>1
  <2> HIDE DEF tick, h
  <2> QED BY <1>12, <1>16, <1>18, <2>2, <2>3, <2>4, <2>5, CountedByTBGoes
<1>20. Sound(h, now, R)
  <2>1. ~(g.ta.clk < tick) /\ tick \in 0..now
    BY <1>2, <1>9, <1>14
  <2> HIDE DEF tick
  <2> QED BY <1>12, <2>1, CountedByTBIs
<1> HIDE DEF h
<1>21. h \in Shapes(now, R)
  BY <1>20 DEF Sound
<1>22. /\ d.ta = h.ta /\ d.tb = h.tb
       /\ \/ d = h /\ (h.irqflags \cap h.mask = {} \/ h.rdi = tick)
          \/ d.line
  BY <1>11, <1>21, DoSetIntFields
<1>23. Same(h, StepsB(h), d, StepsB(h), now)
  BY <1>11, <1>21, SetIntSame
<1>24. Same(g, W, d, StepsB(h), now)
  BY <1>19, <1>23, SameTrans
<1>25. Same(c, W, d, StepsB(h), now)
  BY <1>13, <1>24, SameTrans
<1>26. d.rdi = c.rdi /\ d.crb = c.crb /\ d.mask = c.mask /\ h.rdi = c.rdi /\ h.crb = c.crb
  BY <1>14, <1>19, <1>25 DEF Same, SameRest, SameControl
<1>27. StepsB(d) = StepsB(h)
  BY <1>22, <1>26 DEF StepsB, CountsTA
<1>28. d.ta = t /\ d.tb = h.tb
  BY <1>14, <1>19, <1>22
<1>29. Fit(d, now)
  <2>1. "IR" \in d.irqflags => d.line
    BY <1>19, <1>22 DEF Fit
  <2>2. c.rdi = now \/ Aged(d)
    BY <1>19, <1>22, <1>26 DEF Fit, Aged
  <2> QED BY <1>19, <1>22, <1>26, <2>1, <2>2 DEF Fit
<1>30. Lit(c) /\ c.rdi # now => Lit(d)
  <2>1. c.rdi # now => c.rdi # tick
    BY <1>1, <1>2, <1>15 DEF Fit, Aged
  <2> QED BY <1>22, <1>26, <2>1 DEF Lit
<1>31. Follows(d)
  <2>1. SUFFICES ASSUME CountsTA(d) PROVE d.tb.clk <= Upcoming(d.ta)
    BY DEF Follows
  <2>2. d.tb.clk = d.ta.clk
    BY <1>19, <1>22, <1>26, <2>1 DEF CountsTA
  <2>3. Upcoming(g.ta) > g.ta.clk /\ g.ta.clk \in Int /\ Upcoming(g.ta) \in Int
    <3>1. Held(g.ta, g.cra, now)
      BY <1>12 DEF Sound, SideA
    <3> QED BY <3>1, HeldIsNear, UpcomingLies
  <2> QED BY <1>19, <1>22, <2>2, <2>3
<1>32. Stops(c.cra, c.ta, d.ta) /\ Stops(c.crb, c.tb, d.tb)
  <2>1. Stops(c.crb, c.tb, h.tb)
    BY <1>12, <1>14, <1>19
  <2> QED BY <1>9, <1>28, <2>1 DEF Stops
<1>33. PausedBy(d.tb, d.ta.clk)
  BY <1>19, <1>22
<1> QED BY <1>25, <1>27, <1>29, <1>30, <1>31, <1>32, <1>33 DEF GoesA, Trim, W, d

-----------------------------------------------------------------------------
LEMMA ServeTAStays ==
  ASSUME NEW c, NEW rclk, NEW S, Serving(c) \in S,
         \A s \in S : NextTA(s, rclk) \in S, NEW k \in Nat
  PROVE  ServeTA(c, rclk)[k] \in S
<1> DEFINE x == Serving(c)
           F == [s \in S |-> NextTA(s, rclk)]
           Is(f) == f = [i \in Nat |-> IF i = 0 THEN Serving(c) ELSE NextTA(f[i - 1], rclk)]
           h == CHOOSE f : Is(f)
<1>1. x \in S /\ F \in [S -> S]
  OBVIOUS
<1> DEFINE g == Orbit(S, x, F)
<1>2. g \in [Nat -> S] /\ g[0] = x /\ \A n \in Nat : g[n + 1] = F[g[n]]
  <2> HIDE DEF F, x
  <2> QED BY ONLY <1>1, OrbitIs
<1> HIDE DEF g
<1>3. Is(g)
  <2>1. ASSUME NEW i \in Nat PROVE g[i] = IF i = 0 THEN x ELSE NextTA(g[i - 1], rclk)
    <3>1. CASE i = 0
      BY <1>2, <3>1
    <3>2. CASE i # 0
      <4>1. i - 1 \in Nat /\ i - 1 + 1 = i
        BY <3>2
      <4> QED BY <1>2, <3>2, <4>1
    <3> QED BY <3>1, <3>2
  <2> QED BY <1>2, <2>1
<1>4. ServeTA(c, rclk) = h
  BY DEF ServeTA
<1>5. Is(h)
  BY <1>3
<1> HIDE DEF h, x, F
<1>6. h[0] = x /\ \A i \in Nat : h[i + 1] = NextTA(h[i], rclk)
  BY <1>5 DEF x
<1> HIDE DEF Is
<1> DEFINE A == {i \in Nat : h[i] \in S}
<1>7. 0 \in A /\ \A i \in A : i + 1 \in A
  BY <1>1, <1>6
<1>8. A = Nat
  <2>1. A \in SUBSET Nat
    OBVIOUS
  <2> HIDE DEF A
  <2> QED BY <1>7, <2>1, Inductive
<1> QED BY <1>4, <1>8

(* Before its alarm timer A is replayed.                                   *)
LEMMA ReplayAGoes ==
  ASSUME NEW now \in 0..LastClk, NEW R, NEW b, Sound(b, now, R), Trim(b, now),
         NEW rclk \in 0..now, b.ta.alarmclk > rclk
  PROVE  GoesA(b, DoUpdateTA(b, rclk), now)
<1> DEFINE ctl == b.cra
           v == Update(b.ta, rclk).timer
           n == Update(b.ta, rclk).n
           u == DoUpdateTA(b, rclk)
           W == StepsB(b)
<1>1. b \in Shapes(now, R) /\ Held(b.ta, ctl, now) /\ Agreed(b.ta) /\ b.ta \in Timer
      /\ b.tb.clk \in Nat /\ b.ta.clk \in Nat /\ b.rdi \in Nat /\ Near(b.ta)
      /\ Regular(b.ta) /\ Kept(b.ta, ctl) /\ b.ta.alarmclk \in Nat /\ b.ta.alarmclk > rclk
      /\ (NeededA(b) => b.ta.alarmclk = Upcoming(b.ta)) /\ now \in Nat /\ rclk \in Nat
  BY HeldIsNear, AlarmLies DEF Sound, SideA, SideB, WantedA, Shapes
<1>2. Fit(b, now) /\ Follows(b) /\ PausedBy(b.tb, b.ta.clk)
  BY DEF Trim
<1>3. /\ Same(b, W, u, W, now) /\ u.tb = b.tb /\ u.ta = v
      /\ u.irqflags = b.irqflags \cup Given(n > 0, {"TA"})
      /\ u.line = b.line
  BY <1>1, ReplayA
<1>4. /\ v \in Timer /\ n \in Nat
      /\ ~(b.ta.clk < rclk) => v = b.ta /\ n = 0
      /\ b.ta.clk < rclk => v.clk = rclk
  BY <1>1, UpdateIs
<1>5. /\ v.alarmclk = b.ta.alarmclk
      /\ b.ta.alarmclk = Upcoming(b.ta) => v.alarmclk = Upcoming(v)
  BY <1>1, UpdateHolds
<1>6. "STEP" \notin v.state
  <2>1. CASE b.ta.clk < rclk
    <3>1. StepIsLive(b.ta)
      BY <1>2 DEF Fit, StepIsLive
    <3> QED BY <1>1, <2>1, <3>1, UpdateLeavesNoStep
  <2>2. CASE ~(b.ta.clk < rclk)
    BY <1>2, <1>4, <2>2 DEF Fit
  <2> QED BY <2>1, <2>2
<1>7. NeededA(b) => n = 0
  <2>1. SUFFICES ASSUME NeededA(b), b.ta.clk < rclk PROVE n = 0
    BY <1>4
  <2>2. Upcoming(b.ta) > rclk
    BY <1>1, <2>1
  <2>3. rclk \in 0..LastClk /\ Held(b.ta, ctl, rclk) /\ rclk \in 0..rclk
    BY <1>1, <2>1, HeldBefore
  <2>4. CountNow(b.ta, {}, rclk) = 0
    BY <2>2, <2>3, FirstCounts
  <2>5. CountNow(b.ta, {}, rclk) = n + CountNow(v, {}, rclk) /\ CountNow(v, {}, rclk) \in Nat
    <3>1. \A j \in {} : j >= rclk
      OBVIOUS
    <3> QED BY ONLY <2>3, <3>1, UpdateRides
  <2> HIDE DEF n
  <2> QED BY <1>4, <2>4, <2>5
<1>8. StepsB(u) = W
  <2>1. u.crb = b.crb
    BY <1>3 DEF Same, SameRest, SameControl
  <2>2. StepsB(u) = {j \in W : j > u.ta.clk}
    BY <1>3, <1>4, <2>1, StepsOfUpdate
  <2>3. ASSUME NEW j \in W PROVE j > u.ta.clk
    <3>1. CountsTA(b) /\ j > b.ta.clk /\ j >= Upcoming(b.ta) /\ j \in Int
      BY <2>3, StepsLie
    <3>2. NeededA(b)
      BY <3>1 DEF CountsTA, NeededA
    <3> QED BY <1>1, <1>3, <1>4, <3>1, <3>2
  <2> QED BY <2>2, <2>3
<1> HIDE DEF n, v, u, W
<1>9. u.rdi = b.rdi /\ u.mask = b.mask /\ b.mask \subseteq {"TA", "TB"} /\ u.crb = b.crb
  BY <1>1, <1>3 DEF Same, SameRest, SameControl, Shapes, Sources
<1>10. b.ta.clk <= u.ta.clk /\ u.ta.clk \in Int
  BY <1>1, <1>3, <1>4
<1>11. Fit(u, now)
  <2>1. b.rdi # now => Aged(u)
    BY <1>1, <1>2, <1>3, <1>9, <1>10 DEF Fit, Aged
  <2>2. "IR" \in u.irqflags => u.line
    BY <1>2, <1>3 DEF Fit, Given
  <2> QED BY <1>2, <1>3, <1>6, <1>9, <2>1, <2>2 DEF Fit
<1>12. Follows(u)
  <2>1. SUFFICES ASSUME CountsTA(u) PROVE u.tb.clk <= Upcoming(u.ta)
    BY DEF Follows
  <2>2. CountsTA(b) /\ NeededA(b)
    BY <1>9, <2>1 DEF CountsTA, NeededA
  <2> QED BY <1>1, <1>2, <1>3, <1>5, <2>2 DEF Follows
<1>13. PausedBy(u.tb, u.ta.clk)
  BY <1>1, <1>2, <1>3, <1>10 DEF PausedBy
<1>14. Lit(b) => Lit(u)
  <2>1. CASE n = 0
    <3>1. u.irqflags = b.irqflags
      BY <1>3, <2>1 DEF Given
    <3> QED BY <1>3, <1>9, <3>1 DEF Lit
  <2>2. CASE n # 0
    <3>1. "TA" \notin b.mask \/ "IR" \in b.irqflags
      BY <1>7, <2>2 DEF NeededA
    <3>2. CASE "IR" \in b.irqflags
      BY <1>2, <1>3, <3>2 DEF Fit, Lit
    <3>3. CASE "TA" \notin b.mask
      BY <1>3, <1>9, <3>3 DEF Lit, Given
    <3> QED BY <3>1, <3>2, <3>3
  <2> QED BY <2>1, <2>2
<1>15. Stops(b.cra, b.ta, u.ta) /\ Stops(b.crb, b.tb, u.tb)
  BY <1>3, <1>5 DEF Stops
<1> QED BY <1>3, <1>8, <1>11, <1>12, <1>13, <1>14, <1>15 DEF GoesA, Trim, u, W

LEMMA UpdateTAGoes ==
  ASSUME NEW now \in 0..LastClk, NEW R, NEW c, Sound(c, now, R), Trim(c, now),
         NEW rclk \in 0..now
  PROVE  GoesA(c, UpdateTA(c, rclk), now)
<1> DEFINE S == {s \in ServedTA(c, now, R, rclk) : GoesA(c, s.chip, now)}
           k == Passes(c.ta, rclk)
           s == ServeTA(c, rclk)[k]
           b == s.chip
           d == UpdateTA(c, rclk)
           u == DoUpdateTA(b, rclk)
<1>1. now \in Nat /\ rclk \in Nat /\ rclk <= now /\ c.ta.alarmclk \in Nat
  BY ClkInNat, AlarmLies DEF Sound, SideA
<1>2. k \in Nat
  BY <1>1, PassesInNat
<1>3. Serving(c) \in S
  <2>1. SameControl(c, c) /\ c \in Shapes(now, R) /\ c.ta.clk \in Nat
    BY HeldIsNear DEF SameControl, Sound, SideA
  <2>2. Serving(c) \in ServedTA(c, now, R, rclk)
    BY <1>1, <2>1 DEF Serving, ServedTA
  <2>3. Serving(c).chip = c
    BY DEF Serving
  <2> QED BY <2>2, <2>3, GoesASelf
<1>4. ASSUME NEW r \in S PROVE NextTA(r, rclk) \in S
  <2> DEFINE q == NextTA(r, rclk)
             o == r.chip
  <2>1. r \in ServedTA(c, now, R, rclk) /\ GoesA(c, o, now) /\ Sound(o, now, R)
    BY DEF ServedTA
  <2>2. q \in ServedTA(c, now, R, rclk) /\ o.ta.alarmclk \in Nat
    BY <2>1, NextTAServes
  <2>3. CASE o.ta.alarmclk > rclk
    <3>1. q = r
      BY <2>1, <2>3, NextTAServes
    <3> QED BY <3>1
  <2>4. CASE o.ta.alarmclk <= rclk
    <3>1. q.chip = IntTA(o, o.ta.alarmclk)
      BY <2>4 DEF NextTA
    <3>2. o.ta.alarmclk <= now /\ Trim(o, now)
      BY <1>1, <2>1, <2>2, <2>4 DEF GoesA
    <3> HIDE DEF o, q
    <3>3. GoesA(o, q.chip, now)
      BY <2>1, <3>1, <3>2, IntTAGoes
    <3>4. GoesA(c, q.chip, now)
      BY <2>1, <3>3, GoesATrans
    <3> QED BY <2>2, <3>4 DEF q
  <2> QED BY <1>1, <2>2, <2>3, <2>4
<1>5. s \in S
  <2> HIDE DEF S, k
  <2> QED BY <1>2, <1>3, <1>4, ServeTAStays
<1>6. b.ta.alarmclk > rclk
  <2>1. /\ b.ta.alarmclk \in Nat
        /\ b.ta.alarmclk > rclk \/ b.ta.alarmclk >= c.ta.alarmclk + k
    BY <1>2, ServeTAServes
  <2> HIDE DEF b
  <2> QED BY <1>1, <1>2, <2>1, PassesSuffice
<1>7. d = IF s.last = rclk THEN b ELSE u
  BY DEF UpdateTA, ReplayedTA
<1> HIDE DEF s, d
<1>8. GoesA(c, b, now) /\ Sound(b, now, R)
  BY <1>5 DEF ServedTA
<1> HIDE DEF b
<1>9. GoesA(b, u, now)
  <2>1. Trim(b, now)
    BY <1>8 DEF GoesA
  <2> QED BY <1>6, <1>8, <2>1, ReplayAGoes
<1>10. GoesA(c, u, now)
  BY <1>8, <1>9, GoesATrans
<1> QED BY <1>7, <1>8, <1>10 DEF d

(* cia_update_tb.                                                          *)
LEMMA UpdateTBGoes ==
  ASSUME NEW now \in 0..LastClk, NEW R, NEW c, Sound(c, now, R), Trim(c, now),
         NEW rclk \in 0..now
  PROVE  GoesA(c, UpdateTB(c, rclk), now)
<1> DEFINE e == IF CountsTA(c) THEN UpdateTA(c, rclk) ELSE c
           d == AlarmsTB(e, rclk)
           W == StepsB(e)
<1>1. UpdateTB(c, rclk) = d
  BY DEF UpdateTB
<1>2. Sound(e, now, R) /\ SameControl(c, e) /\ (CountsTA(c) => e.ta.clk >= rclk)
  BY UpdateTAIs DEF SameControl
<1>3. GoesA(c, e, now)
  BY UpdateTAGoes, GoesASelf
<1> HIDE DEF e
<1>4. Trim(e, now) /\ (CountsTA(e) <=> CountsTA(c))
  BY <1>2, <1>3 DEF GoesA, SameControl, CountsTA
<1>5. /\ e.ta.clk \in Int /\ rclk \in Int /\ W \subseteq Int
      /\ \A j \in W : CountsTA(e) /\ j > e.ta.clk
      /\ Upcoming(e.ta) > e.ta.clk /\ Upcoming(e.ta) \in Int /\ e.tb.clk \in Int
  <2>1. e.ta.clk \in Int /\ rclk \in Int /\ e.tb.clk \in Int /\ Upcoming(e.ta) \in Int
    BY <1>2, HeldIsNear, UpcomingLies DEF Sound, SideA, SideB
  <2> QED BY <1>2, <2>1, StepsLie
<1>6. \A j \in W : j >= rclk /\ j \in Int
  BY <1>2, <1>4, <1>5
<1>7. GoesB(e, d, W, now) /\ (d.tb.clk <= rclk \/ d.tb.clk = e.tb.clk)
  BY <1>2, <1>4, <1>5, <1>6, AlarmsTBGoes DEF Trim
<1>8. Sound(d, now, R) /\ d.ta = e.ta /\ SameControl(e, d)
  BY <1>2, AlarmsTBIs
<1> HIDE DEF d
<1>9. StepsB(d) = W
  BY <1>8 DEF StepsB, CountsTA, SameControl
<1>10. Follows(d)
  <2>1. SUFFICES ASSUME CountsTA(d) PROVE d.tb.clk <= Upcoming(d.ta)
    BY DEF Follows
  <2>2. CountsTA(e) /\ e.ta.clk >= rclk
    BY <1>2, <1>4, <1>8, <2>1 DEF CountsTA, SameControl
  <2>3. e.tb.clk <= Upcoming(e.ta)
    BY <1>4, <2>2 DEF Trim, Follows
  <2>4. d.tb.clk \in Int
    BY <1>8, HeldIsNear DEF Sound, SideB
  <2> QED BY <1>5, <1>7, <1>8, <2>2, <2>3, <2>4
<1>11. PausedBy(d.tb, d.ta.clk)
  BY <1>4, <1>5, <1>7, <1>8 DEF GoesB, Trim
<1>12. GoesA(e, d, now)
  BY <1>7, <1>8, <1>9, <1>10, <1>11 DEF GoesA, GoesB, Trim, Stops, W
<1> QED BY <1>1, <1>3, <1>12, GoesATrans

(* However far and however often the chip is brought up to date, it        *)
(* amounts to the same.                                                    *)
LEMMA UpdateBothGoes ==
  ASSUME NEW now \in 0..LastClk, NEW R, NEW c, Sound(c, now, R), Trim(c, now),
         NEW rclk \in 0..now
  PROVE  GoesA(c, UpdateBoth(c, rclk), now)
<1> DEFINE e == UpdateTA(c, rclk)
           d == UpdateTB(e, rclk)
<1>1. Sound(e, now, R) /\ GoesA(c, e, now)
  BY UpdateTAIs, UpdateTAGoes
<1> HIDE DEF e
<1>2. Trim(e, now)
  BY <1>1 DEF GoesA
<1>3. GoesA(e, d, now)
  BY <1>1, <1>2, UpdateTBGoes
<1>4. UpdateBoth(c, rclk) = d
  BY DEF UpdateBoth, e
<1> QED BY <1>1, <1>3, <1>4, GoesATrans

-----------------------------------------------------------------------------
(* The timers of the other chip have no clock and no alarm.                *)
Plain == [state : SUBSET Bits, cnt : Nat, latch : Nat]

Likeness(p, u) == /\ p \in Plain /\ u \in Timer
                  /\ p.state = u.state /\ p.cnt = u.cnt /\ p.latch = u.latch

Lift(p) == [state |-> p.state, cnt |-> p.cnt, latch |-> p.latch,
            clk |-> 0, alarmclk |-> 0, pending |-> 0]

LEMMA LiftIs ==
  ASSUME NEW p \in Plain
  PROVE  Likeness(p, Lift(p)) /\ Core(Lift(p)) = Core(p)
BY DEF Plain, Likeness, Lift, Timer, Core

LEMMA LikenessCore ==
  ASSUME NEW p, NEW u, Likeness(p, u)
  PROVE  Core(p) = Core(u)
BY DEF Likeness, Core

LEMMA LikenessCycle ==
  ASSUME NEW p, NEW u, Likeness(p, u)
  PROVE  Likeness(Cycle(p), Cycle(u)) /\ Underflows(p) = Underflows(u)
<1> DEFINE i == Inc(p)
           j == Inc(u)
           z == Zeroed(i)
           y == Zeroed(j)
           l == Loaded(z)
           m == Loaded(y)
<1>1. Likeness(i, j)
  <2>1. Pipeline(p.state) \in SUBSET Bits
    BY DEF Pipeline, Given, Bits, Likeness, Plain
  <2>2. j \in Timer
    BY IncIsTimer DEF Likeness
  <2>3. i = [p EXCEPT !.cnt = IF p.cnt > 0 /\ "COUNT3" \in p.state THEN p.cnt - 1 ELSE p.cnt,
                      !.state = Pipeline(p.state)]
        /\ j = [u EXCEPT !.cnt = IF u.cnt > 0 /\ "COUNT3" \in u.state THEN u.cnt - 1 ELSE u.cnt,
                      !.state = Pipeline(u.state)]
    BY DEF Inc
  <2>4. IF p.cnt > 0 /\ "COUNT3" \in p.state THEN p.cnt - 1 \in Nat ELSE p.cnt \in Nat
    BY DEF Likeness, Plain
  <2> HIDE DEF i, j
  <2> QED BY <2>1, <2>2, <2>3, <2>4 DEF Likeness, Plain, Timer
<1> HIDE DEF i, j
<1>2. AtZero(i) <=> AtZero(j)
  BY <1>1 DEF AtZero, Likeness
<1>3. Likeness(z, y)
  <2>1. Given(AtZero(i), {"LOAD", "OUT"}) = Given(AtZero(j), {"LOAD", "OUT"})
        /\ Given(AtZero(i), {"LOAD", "OUT"}) \subseteq Bits
    BY <1>2 DEF Given, Bits
  <2> QED BY <1>1, <2>1 DEF Zeroed, Likeness, Plain, Timer
<1> HIDE DEF z, y
<1>4. Likeness(l, m)
  BY <1>3 DEF Loaded, Likeness, Plain, Timer
<1> HIDE DEF l, m
<1>5. Likeness(Halted(l), Halted(m))
  BY <1>4 DEF Halted, Likeness, Plain, Timer
<1>6. Likeness(Cycle(p), Cycle(u))
  BY <1>5 DEF Cycle, Reload, i, j, z, y, l, m
<1> QED BY <1>2, <1>6 DEF Underflows, i, j

LEMMA IdealTimers ==
  ASSUME NEW t, NEW byte
  PROVE  /\ Ideal!Timers!Cycle(t) = Cycle(t)
         /\ Ideal!Timers!Underflows(t) = Underflows(t)
         /\ Ideal!Timers!WithStep(t) = WithStep(t)
         /\ Ideal!Timers!WithLatchLo(t, byte) = WithLatchLo(t, byte)
         /\ Ideal!Timers!WithLatchHi(t) = WithLatchHi(t)
         /\ Ideal!Timers!WithControl(t, byte) = WithControl(t, byte)
<1>1. Ideal!Timers!Cycle(t) = Cycle(t) /\ Ideal!Timers!Underflows(t) = Underflows(t)
  BY DEF Ideal!Timers!Cycle, Ideal!Timers!Underflows, Ideal!Timers!Inc, Ideal!Timers!Reload,
         Ideal!Timers!Halted, Ideal!Timers!Loaded, Ideal!Timers!Zeroed, Ideal!Timers!Given,
         Ideal!Timers!Pipeline, Ideal!Timers!AtZero,
         Cycle, Underflows, Inc, Reload, Halted, Loaded, Zeroed, Given, Pipeline, AtZero
<1>2. /\ Ideal!Timers!WithStep(t) = WithStep(t)
      /\ Ideal!Timers!WithControl(t, byte) = WithControl(t, byte)
  BY DEF Ideal!Timers!WithStep, Ideal!Timers!WithControl, Ideal!Timers!Given,
         WithStep, WithControl, Given
<1>3. /\ Ideal!Timers!WithLatchLo(t, byte) = WithLatchLo(t, byte)
      /\ Ideal!Timers!WithLatchHi(t) = WithLatchHi(t)
  BY DEF Ideal!Timers!WithLatchLo, Ideal!Timers!WithLatchHi, WithLatchLo, WithLatchHi
<1> QED BY <1>1, <1>2, <1>3

(* Timers of the same core go on alike.                                    *)
LEMMA PlainCycle ==
  ASSUME NEW p \in Plain, NEW t \in Timer, Core(p) = Core(t)
  PROVE  LET r == Cycle(p) IN
         /\ r \in Plain /\ Core(r) = Core(Cycle(t)) /\ Underflows(p) = Underflows(t)
         /\ "STEP" \notin r.state
         /\ "COUNT2" \in r.state => "PHI2IN" \in r.state
         /\ "PHI2IN" \in r.state <=> "PHI2IN" \in p.state
<1> DEFINE u == Lift(p)
           r == Cycle(p)
           s == Cycle(u)
<1>1. Likeness(p, u) /\ u \in Timer /\ Core(u) = Core(t) /\ u.state = p.state
  BY LiftIs DEF Likeness
<1> HIDE DEF u
<1>2. Likeness(r, s) /\ Underflows(p) = Underflows(u)
  BY <1>1, LikenessCycle
<1>3. Core(s) = Core(Cycle(t)) /\ Underflows(u) = Underflows(t)
  BY <1>1, CoreDecides
<1>4. Core(r) = Core(s) /\ r.state = s.state /\ r \in Plain
  BY <1>2, LikenessCore DEF Likeness
<1>5. /\ "STEP" \notin s.state
      /\ "COUNT2" \in s.state => "PHI2IN" \in s.state
      /\ "PHI2IN" \in s.state <=> "PHI2IN" \in u.state
  <2> DEFINE i == Inc(u)
  <2>1. i \in Timer /\ i.state = Pipeline(u.state) /\ s = Reload(i)
    BY <1>1, IncIs DEF Cycle
  <2> HIDE DEF i, s
  <2>2. /\ "STEP" \notin i.state
        /\ "COUNT2" \in i.state => "PHI2IN" \in i.state
        /\ "PHI2IN" \in i.state <=> "PHI2IN" \in u.state
    BY <2>1 DEF Pipeline, Given
  <2> QED BY <2>1, <2>2, Reloaded
<1> QED BY <1>1, <1>2, <1>3, <1>4, <1>5

LEMMA PlainStep ==
  ASSUME NEW p \in Plain, NEW t \in Timer, Core(p) = Core(t)
  PROVE  LET r == WithStep(p) IN
         /\ r \in Plain /\ Core(r) = Core(WithStep(t))
         /\ r.state = p.state \cup Given("START" \in p.state, {"STEP"})
<1> DEFINE u == Lift(p)
           r == WithStep(p)
           s == WithStep(u)
<1>1. Likeness(p, u) /\ u \in Timer /\ Core(u) = Core(t)
  BY LiftIs DEF Likeness
<1>2. /\ s \in Timer /\ s.cnt = u.cnt /\ s.latch = u.latch
      /\ s.state = u.state \cup (IF "START" \in u.state THEN {"STEP"} ELSE {})
  BY <1>1, WithStepIs
<1>3. r = [p EXCEPT !.state = p.state \cup Given("START" \in p.state, {"STEP"})]
  BY DEF WithStep
<1>4. r.state = p.state \cup Given("START" \in p.state, {"STEP"}) /\ r.cnt = p.cnt
      /\ r.latch = p.latch /\ r \in Plain
  <2>1. p.state \cup Given("START" \in p.state, {"STEP"}) \in SUBSET Bits
    BY DEF Plain, Given, Bits
  <2> HIDE DEF r
  <2> QED BY <1>3, <2>1 DEF Plain
<1> HIDE DEF u, r, s
<1>5. Likeness(r, s)
  BY <1>1, <1>2, <1>4 DEF Likeness, Given
<1>6. Core(s) = Core(WithStep(t))
  BY <1>1, WithStepByCore DEF s
<1> QED BY <1>4, <1>5, <1>6, LikenessCore DEF r

LEMMA PlainCore ==
  ASSUME NEW p \in Plain, NEW t \in Timer
  PROVE  Core(p) = Core(t) <=>
           /\ p.cnt = t.cnt /\ p.latch = t.latch
           /\ \A b : b \notin {"COUNT", "STEP"} => (b \in p.state <=> b \in t.state)
           /\ Stepped(p.state) <=> Stepped(t.state)
<1> DEFINE u == Lift(p)
<1>1. Core(u) = Core(p) /\ u \in Timer /\ u.cnt = p.cnt /\ u.latch = p.latch /\ u.state = p.state
  BY LiftIs DEF Likeness
<1> HIDE DEF u
<1> QED BY <1>1, CoreIs

(* The stores do not need more of a timer than its core.                   *)
LEMMA PlainLatches ==
  ASSUME NEW p \in Plain, NEW t \in Timer, Core(p) = Core(t), NEW byte \in Nat
  PROVE  /\ WithLatchLo(p, byte) \in Plain /\ WithLatchHi(p) \in Plain
         /\ WithLatchLo(p, byte).state = p.state /\ WithLatchHi(p).state = p.state
         /\ Core(WithLatchLo(p, byte)) = Core(WithLatchLo(t, byte))
         /\ Core(WithLatchHi(p)) = Core(WithLatchHi(t))
<1>1. /\ p.cnt = t.cnt /\ p.latch = t.latch
      /\ \A b : b \notin {"COUNT", "STEP"} => (b \in p.state <=> b \in t.state)
      /\ Stepped(p.state) <=> Stepped(t.state)
  BY PlainCore
<1>2. ("LOAD" \in p.state <=> "LOAD" \in t.state) /\ ("START" \in p.state <=> "START" \in t.state)
  BY <1>1
<1>3. p.state \in SUBSET Bits /\ p.cnt \in Nat /\ p.latch \in Nat
      /\ t.state \in SUBSET Bits /\ t.cnt \in Nat /\ t.latch \in Nat
  BY DEF Plain, Timer
<1>4. LET q == WithLatchLo(p, byte)
          u == WithLatchLo(t, byte) IN
      /\ q \in Plain /\ q.state = p.state /\ q.latch = byte
      /\ q.cnt = IF "LOAD" \in p.state THEN byte ELSE p.cnt
      /\ u \in Timer /\ u.state = t.state /\ u.latch = byte
      /\ u.cnt = IF "LOAD" \in t.state THEN byte ELSE t.cnt
  BY DEF WithLatchLo, Plain, Timer
<1>5. LET q == WithLatchHi(p)
          u == WithLatchHi(t) IN
      /\ q \in Plain /\ q.state = p.state /\ q.latch = p.latch
      /\ q.cnt = IF "LOAD" \in p.state \/ "START" \notin p.state THEN p.latch ELSE p.cnt
      /\ u \in Timer /\ u.state = t.state /\ u.latch = t.latch
      /\ u.cnt = IF "LOAD" \in t.state \/ "START" \notin t.state THEN t.latch ELSE t.cnt
  BY DEF WithLatchHi, Plain, Timer
<1>6. Core(WithLatchLo(p, byte)) = Core(WithLatchLo(t, byte))
  BY <1>1, <1>2, <1>4, PlainCore
<1>7. Core(WithLatchHi(p)) = Core(WithLatchHi(t))
  BY <1>1, <1>2, <1>5, PlainCore
<1> QED BY <1>4, <1>5, <1>6, <1>7

LEMMA PlainControl ==
  ASSUME NEW p \in Plain, NEW t \in Timer, Core(p) = Core(t), NEW byte,
         StepIsLive(p), StepIsLive(t)
  PROVE  LET q == WithControl(p, byte)
             u == WithControl(t, byte) IN
         /\ q \in Plain /\ u \in Timer /\ Core(q) = Core(u)
         /\ "STEP" \in q.state <=> "STEP" \in p.state
         /\ "STEP" \in u.state <=> "STEP" \in p.state
         /\ "STEP" \in t.state <=> "STEP" \in p.state
         /\ "PHI2IN" \in q.state <=> "CNT" \notin byte
         /\ "STEP" \in p.state /\ "START" \in byte => StepIsLive(q) /\ StepIsLive(u)
<1> DEFINE q == WithControl(p, byte)
           u == WithControl(t, byte)
           Gone == {"START", "CR_ONESHOT", "FLOAD", "PHI2IN"}
           New == (byte \cap {"START", "CR_ONESHOT", "FLOAD"}) \cup Given("CNT" \notin byte, {"PHI2IN"})
<1>1. /\ p.cnt = t.cnt /\ p.latch = t.latch
      /\ \A b : b \notin {"COUNT", "STEP"} => (b \in p.state <=> b \in t.state)
      /\ Stepped(p.state) <=> Stepped(t.state)
  BY PlainCore
<1>2. "STEP" \in t.state <=> "STEP" \in p.state
  BY <1>1 DEF StepIsLive, Stepped
<1>3. /\ q \in Plain /\ q.cnt = p.cnt /\ q.latch = p.latch /\ q.state = (p.state \ Gone) \cup New
      /\ u \in Timer /\ u.cnt = t.cnt /\ u.latch = t.latch /\ u.state = (t.state \ Gone) \cup New
  <2>1. New \subseteq Bits
    BY DEF Given, Bits
  <2>2. q = [p EXCEPT !.state = (p.state \ Gone) \cup New]
        /\ u = [t EXCEPT !.state = (t.state \ Gone) \cup New]
    <3>1. /\ (p.state \ Gone) \cup New = (p.state \ Gone) \cup (byte \cap {"START", "CR_ONESHOT", "FLOAD"})
                      \cup Given("CNT" \notin byte, {"PHI2IN"})
          /\ (t.state \ Gone) \cup New = (t.state \ Gone) \cup (byte \cap {"START", "CR_ONESHOT", "FLOAD"})
                      \cup Given("CNT" \notin byte, {"PHI2IN"})
      OBVIOUS
    <3> QED BY <3>1 DEF WithControl
  <2> HIDE DEF New, Gone, q, u
  <2> QED BY <2>1, <2>2 DEF Plain, Timer
<1>4. /\ "STEP" \notin New /\ "STEP" \notin Gone /\ "COUNT2" \notin New /\ "COUNT2" \notin Gone
      /\ "START" \in New <=> "START" \in byte
      /\ "START" \in Gone
      /\ "PHI2IN" \in New <=> "CNT" \notin byte
      /\ "PHI2IN" \in Gone
  BY DEF Given
<1> HIDE DEF New, Gone, q, u
<1>5. /\ "STEP" \in q.state <=> "STEP" \in p.state
      /\ "STEP" \in u.state <=> "STEP" \in p.state
      /\ "COUNT2" \in q.state <=> "COUNT2" \in p.state
      /\ "COUNT2" \in u.state <=> "COUNT2" \in p.state
      /\ "START" \in q.state <=> "START" \in byte
      /\ "START" \in u.state <=> "START" \in byte
      /\ "PHI2IN" \in q.state <=> "CNT" \notin byte
  BY <1>1, <1>2, <1>3, <1>4
<1>6. Stepped(q.state) <=> Stepped(u.state)
  BY <1>5 DEF Stepped
<1>7. \A b : b \notin {"COUNT", "STEP"} => (b \in q.state <=> b \in u.state)
  BY <1>1, <1>3
<1>8. Core(q) = Core(u)
  <2>1. q \in Plain /\ u \in Timer /\ q.cnt = u.cnt /\ q.latch = u.latch
    BY <1>1, <1>3
  <2> QED BY ONLY <2>1, <1>6, <1>7, PlainCore
<1>9. "STEP" \in p.state /\ "START" \in byte => StepIsLive(q) /\ StepIsLive(u)
  BY <1>5 DEF StepIsLive, Stepped
<1> QED BY <1>2, <1>3, <1>5, <1>8, <1>9 DEF q, u

-----------------------------------------------------------------------------
(* The other chip, and what it is to be at tick now the chip c of the      *)
(* emulator, wherever the timers of c have been replayed to.               *)
IdealBytes == [bits : SUBSET (Flags \cup ControlBits), count : Nat]
IdealFlags == {"TA", "TB", "TBB"}

IdealChips ==
  [model : Models, ta : Plain, tb : Plain, mask : SUBSET Sources,
   cra : SUBSET ControlBits, crb : SUBSET ControlBits, tat : {0, 1}, tbt : {0, 1},
   age : 0..2, int_in : {-1} \cup Nat, flags : SUBSET IdealFlags,
   last_read : IdealBytes]

Live(q) == /\ "STEP" \notin q.ta.state /\ StepIsLive(q.tb)
           /\ "COUNTTA" \in q.crb => "PHI2IN" \notin q.tb.state

TracksA(c, now, q) ==
  /\ Core(q.ta) = CoreNow(c.ta, {}, now)
  /\ q.tat = (c.tat + CountNow(c.ta, {}, now)) % 2
  /\ "TA" \in q.flags <=> FlagA(c, now)

TracksB(c, W, now, q) ==
  /\ Core(q.tb) = CoreNow(c.tb, W, now)
  /\ q.tbt = (c.tbt + CountNow(c.tb, W, now)) % 2
  /\ q.flags \cap {"TB", "TBB"} = ShownB(c, W, now)

TracksRest(c, now, q) ==
  /\ q.model = c.model /\ q.mask = c.mask /\ q.cra = c.cra /\ q.crb = c.crb
  /\ q.age = Least(now - c.rdi, 2)

Tracks(c, now, q) ==
  /\ TracksA(c, now, q) /\ TracksB(c, StepsB(c), now, q) /\ TracksRest(c, now, q)
  /\ q.int_in # -1 <=> Asserted(c, StepsB(c), now)

LEMMA SameTracks ==
  ASSUME NEW now, NEW c, NEW d, Same(c, StepsB(c), d, StepsB(d), now), NEW q
  PROVE  Tracks(c, now, q) <=> Tracks(d, now, q)
<1> DEFINE W == StepsB(c)
           V == StepsB(d)
<1>1. Same(c, W, d, V, now)
  OBVIOUS
<1> HIDE DEF W, V
<1>2. TracksA(c, now, q) <=> TracksA(d, now, q)
  BY <1>1 DEF Same, SameA, TracksA
<1>3. TracksB(c, W, now, q) <=> TracksB(d, V, now, q)
  BY <1>1 DEF Same, SameB, TracksB
<1>4. TracksRest(c, now, q) <=> TracksRest(d, now, q)
  BY <1>1 DEF Same, SameRest, SameControl, TracksRest
<1>5. Asserted(c, W, now) <=> Asserted(d, V, now)
  BY <1>1 DEF Same
<1> QED BY <1>2, <1>3, <1>4, <1>5 DEF Tracks, W, V

-----------------------------------------------------------------------------
(* With both timers replayed nothing is left to be counted.                *)
Rests(c, now) == c.ta.clk = now /\ c.tb.clk = now

Pulled(c) == c.line \/ c.irqflags \cap c.mask # {}

Is(c, now, q) ==
  /\ TracksRest(c, now, q)
  /\ Core(q.ta) = Core(c.ta) /\ Core(q.tb) = Core(c.tb)
  /\ q.tat = c.tat /\ q.tbt = c.tbt
  /\ "TA" \in q.flags <=> "TA" \in c.irqflags
  /\ q.flags \cap {"TB", "TBB"} = IF Pulled(c) /\ "TBB" \in c.irqflags THEN {}
                                  ELSE c.irqflags \cap {"TB", "TBB"}
  /\ q.int_in # -1 <=> Pulled(c)

LEMMA StepsAhead ==
  ASSUME NEW c
  PROVE  StepsB(c) \subseteq Int /\ \A j \in StepsB(c) : j > c.ta.clk
BY DEF StepsB

LEMMA TimerRests ==
  ASSUME NEW now \in Int, NEW t \in Timer, t.clk = now, NEW W, now \notin W
  PROVE  CoreNow(t, W, now) = Core(t) /\ CountNow(t, W, now) = 0
BY RideNow

LEMMA RestingTracks ==
  ASSUME NEW now \in Int, NEW m, NEW R, NEW c \in Shapes(m, R), Rests(c, now), NEW q
  PROVE  Tracks(c, now, q) <=> Is(c, now, q)
<1> DEFINE W == StepsB(c)
<1>1. c.ta \in Timer /\ c.tb \in Timer /\ c.tat \in {0, 1} /\ c.tbt \in {0, 1}
      /\ c.ta.clk = now /\ c.tb.clk = now
  BY DEF Shapes, Rests
<1>2. now \notin W
  BY <1>1, StepsAhead
<1> HIDE DEF W
<1>3. /\ CoreNow(c.ta, {}, now) = Core(c.ta) /\ CountNow(c.ta, {}, now) = 0
      /\ CoreNow(c.tb, W, now) = Core(c.tb) /\ CountNow(c.tb, W, now) = 0
  BY <1>1, <1>2, TimerRests
<1>4. (c.tat + 0) % 2 = c.tat /\ (c.tbt + 0) % 2 = c.tbt
  BY <1>1
<1>5. FlagA(c, now) <=> "TA" \in c.irqflags
  BY <1>3 DEF FlagA
<1>6. Asserted(c, W, now) <=> Pulled(c)
  BY <1>3 DEF Asserted, Pulled
<1>7. FlagsB(c, W, now) = c.irqflags \cap {"TB", "TBB"}
  BY <1>3 DEF FlagsB
<1>8. ShownB(c, W, now) = IF Pulled(c) /\ "TBB" \in c.irqflags THEN {}
                          ELSE c.irqflags \cap {"TB", "TBB"}
  BY <1>6, <1>7 DEF ShownB
<1> QED BY <1>3, <1>4, <1>5, <1>6, <1>8 DEF Tracks, TracksA, TracksB, Is, W

-----------------------------------------------------------------------------
(* A cycle of the other chip, field by field.                              *)
LEMMA AgeGrows ==
  ASSUME NEW now \in Int, NEW rdi \in Int, rdi <= now
  PROVE  /\ Least(now - rdi, 2) \in 0..2
         /\ Least(now - rdi, 2) = 0 <=> rdi = now
         /\ Least((now + 1) - rdi, 2) = IF Least(now - rdi, 2) < 2
                                          THEN Least(now - rdi, 2) + 1 ELSE 2
BY DEF Least

TicksB(q, ua) == IF ua /\ {"START", "COUNTTA"} \subseteq q.crb
                   THEN WithStep(Cycle(q.tb)) ELSE Cycle(q.tb)
FlagsOf(q, ub, bug) == IF ub THEN {"TB"} \cup Given(bug, {"TBB"})
                             ELSE q.flags \cap {"TB", "TBB"}

Counted(q, r) ==
  LET ua == Underflows(q.ta) = 1
      ub == Underflows(q.tb) = 1
      F  == FlagsOf(q, ub, q.model = "6526" /\ q.age = 0)
  IN  /\ r.model = q.model /\ r.mask = q.mask /\ r.cra = q.cra /\ r.crb = q.crb
      /\ r.last_read = q.last_read
      /\ r.ta = Cycle(q.ta) /\ r.tb = TicksB(q, ua)
      /\ r.tat = IF ua THEN 1 - q.tat ELSE q.tat
      /\ r.tbt = IF ub THEN 1 - q.tbt ELSE q.tbt
      /\ r.age = IF q.age < 2 THEN q.age + 1 ELSE 2
      /\ r.int_in # -1 <=> \/ q.int_in # -1
                           \/ ua /\ "TA" \in q.mask
                           \/ ub /\ "TB" \in q.mask
      /\ "TA" \in r.flags <=> "TA" \in q.flags \/ ua
      /\ r.flags \cap {"TB", "TBB"} = IF r.int_in # -1 /\ "TBB" \in F THEN {} ELSE F

(* The chip before a flag of timer B may go.                               *)
LEMMA ResolvedIs ==
  ASSUME NEW r \in IdealChips
  PROVE  LET e == Ideal!Resolved(r)
             F == r.flags \cap {"TB", "TBB"} IN
         /\ e \in IdealChips /\ e = [r EXCEPT !.flags = e.flags]
         /\ "TA" \in e.flags <=> "TA" \in r.flags
         /\ e.flags \cap {"TB", "TBB"} = IF r.int_in # -1 /\ "TBB" \in F THEN {} ELSE F
<1>1. CASE r.int_in # -1 /\ "TBB" \in r.flags
  <2>1. Ideal!Resolved(r) = [r EXCEPT !.flags = r.flags \ {"TB", "TBB"}]
    BY <1>1 DEF Ideal!Resolved, Ideal!NoInt
  <2>2. r.flags \ {"TB", "TBB"} \in SUBSET IdealFlags
    BY DEF IdealChips
  <2> QED BY <1>1, <2>1, <2>2 DEF IdealChips
<1>2. CASE ~(r.int_in # -1 /\ "TBB" \in r.flags)
  <2>1. Ideal!Resolved(r) = r
    BY <1>2 DEF Ideal!Resolved, Ideal!NoInt
  <2> QED BY <1>2, <2>1 DEF IdealChips
<1> QED BY <1>1, <1>2

LEMMA RaisedIs ==
  ASSUME NEW r \in IdealChips, NEW delay \in Nat
  PROVE  LET e == Ideal!Raised(r, delay)
             F == r.flags \cap {"TB", "TBB"} IN
         /\ e \in IdealChips /\ e = [r EXCEPT !.flags = e.flags, !.int_in = e.int_in]
         /\ e.int_in # -1
         /\ "TA" \in e.flags <=> "TA" \in r.flags
         /\ e.flags \cap {"TB", "TBB"} = IF "TBB" \in F THEN {} ELSE F
<1> DEFINE s == IF r.int_in = -1 THEN [r EXCEPT !.int_in = delay] ELSE r
<1>1. s \in IdealChips /\ s.int_in # -1 /\ s.flags = r.flags
      /\ s = [r EXCEPT !.int_in = s.int_in]
  BY DEF IdealChips
<1>2. Ideal!Raised(r, delay) = Ideal!Resolved(s)
  BY DEF Ideal!Raised, Ideal!NoInt
<1> HIDE DEF s
<1>3. LET e == Ideal!Resolved(s) IN
      [s EXCEPT !.flags = e.flags] = [r EXCEPT !.flags = e.flags, !.int_in = s.int_in]
  BY <1>1 DEF IdealChips
<1>4. Ideal!Resolved(s).int_in = s.int_in
  BY <1>1, ResolvedIs DEF IdealChips
<1> QED BY <1>1, <1>2, <1>3, <1>4, ResolvedIs

-----------------------------------------------------------------------------
LEMMA PlainIs ==
  ASSUME NEW p \in Plain
  PROVE  /\ Cycle(p) \in Plain /\ WithStep(p) \in Plain
         /\ Underflows(p) \in {0, 1}
<1>1. Lift(p) \in Timer /\ Core(p) = Core(Lift(p))
  BY LiftIs DEF Likeness
<1>2. Cycle(p) \in Plain /\ WithStep(p) \in Plain
  BY <1>1, PlainCycle, PlainStep
<1> QED BY <1>2 DEF Underflows

LEMMA CountIs ==
  ASSUME NEW q \in IdealChips, chip.model = q.model
  PROVE  Ideal!Count(q) \in IdealChips /\ Counted(q, Ideal!Count(q))
<1> DEFINE ua == Underflows(q.ta) = 1
           ub == Underflows(q.tb) = 1
           bug == q.model = "6526" /\ q.age = 0
           set == Given(ua, {"TA"}) \cup Given(ub, {"TB"})
           kept == IF ub THEN q.flags \ {"TBB"} ELSE q.flags
           flags == kept \cup set \cup Given(ub /\ bug, {"TBB"})
           ta == Cycle(q.ta)
           tb == TicksB(q, ua)
           tat == IF ua THEN 1 - q.tat ELSE q.tat
           tbt == IF ub THEN 1 - q.tbt ELSE q.tbt
           age == IF q.age < 2 THEN q.age + 1 ELSE 2
           in == IF q.int_in > 0 THEN q.int_in - 1 ELSE q.int_in
           d == [q EXCEPT !.ta = ta, !.tb = tb, !.tat = tat, !.tbt = tbt,
                          !.flags = flags, !.age = age, !.int_in = in]
           late == IF q.model = "6526" \/ q.age = 0 THEN 1 ELSE 0
           r == Ideal!Count(q)
<1>1. r = IF set \cap q.mask # {} THEN Ideal!Raised(d, late) ELSE Ideal!Resolved(d)
  <2>1. \A P : Ideal!Timers!Given(P, {"TA"}) = Given(P, {"TA"})
               /\ Ideal!Timers!Given(P, {"TB"}) = Given(P, {"TB"})
               /\ Ideal!Timers!Given(P, {"TBB"}) = Given(P, {"TBB"})
    BY DEF Ideal!Timers!Given, Given
  <2>2. Ideal!Old <=> q.model = "6526"
    BY DEF Ideal!Old
  <2>3. Ideal!Timers!Underflows(q.ta) = Underflows(q.ta)
        /\ Ideal!Timers!Underflows(q.tb) = Underflows(q.tb)
        /\ Ideal!Timers!Cycle(q.ta) = Cycle(q.ta)
        /\ Ideal!Timers!Cycle(q.tb) = Cycle(q.tb)
        /\ Ideal!Timers!WithStep(Cycle(q.tb)) = WithStep(Cycle(q.tb))
    BY IdealTimers
  <2> DEFINE ua0 == Ideal!Timers!Underflows(q.ta) = 1
             ub0 == Ideal!Timers!Underflows(q.tb) = 1
             tb1 == Ideal!Timers!Cycle(q.tb)
             bug0 == Ideal!Old /\ q.age = 0
             set0 == Ideal!Timers!Given(ua0, {"TA"}) \cup Ideal!Timers!Given(ub0, {"TB"})
             kept0 == IF ub0 THEN q.flags \ {"TBB"} ELSE q.flags
             d0 == [q EXCEPT !.ta = Ideal!Timers!Cycle(q.ta),
                             !.tb = IF ua0 /\ {"START", "COUNTTA"} \subseteq q.crb
                                      THEN Ideal!Timers!WithStep(tb1) ELSE tb1,
                             !.tat = IF ua0 THEN 1 - q.tat ELSE q.tat,
                             !.tbt = IF ub0 THEN 1 - q.tbt ELSE q.tbt,
                             !.flags = kept0 \cup set0
                                       \cup Ideal!Timers!Given(ub0 /\ bug0, {"TBB"}),
                             !.age = IF q.age < 2 THEN q.age + 1 ELSE 2,
                             !.int_in = IF q.int_in > 0 THEN q.int_in - 1 ELSE q.int_in]
  <2>4. r = IF set0 \cap q.mask # {}
              THEN Ideal!Raised(d0, IF Ideal!Old \/ q.age = 0 THEN 1 ELSE 0)
              ELSE Ideal!Resolved(d0)
    BY DEF Ideal!Count
  <2>5. (ua0 <=> ua) /\ (ub0 <=> ub) /\ (bug0 <=> bug) /\ set0 = set /\ kept0 = kept
    BY <2>1, <2>2, <2>3
  <2>6. d0 = d
    BY <2>1, <2>3, <2>5 DEF TicksB
  <2> HIDE DEF ua0, ub0, tb1, bug0, set0, kept0, d0, d, set, r
  <2> QED BY <2>2, <2>4, <2>5, <2>6
<1>2. ta \in Plain /\ tb \in Plain
  <2>1. q.ta \in Plain /\ q.tb \in Plain
    BY DEF IdealChips
  <2>2. Cycle(q.tb) \in Plain
    BY <2>1, PlainIs
  <2> QED BY <2>1, <2>2, PlainIs DEF TicksB
<1>3. tat \in {0, 1} /\ tbt \in {0, 1} /\ age \in 0..2 /\ in \in {-1} \cup Nat
      /\ (in # -1 <=> q.int_in # -1)
  BY DEF IdealChips
<1>4. flags \in SUBSET IdealFlags
      /\ ("TA" \in flags <=> "TA" \in q.flags \/ ua)
      /\ flags \cap {"TB", "TBB"} = FlagsOf(q, ub, bug)
  BY DEF IdealChips, IdealFlags, Given, FlagsOf
<1>5. set \cap q.mask # {} <=> (ua /\ "TA" \in q.mask) \/ (ub /\ "TB" \in q.mask)
  BY DEF Given
<1>6. late \in Nat
  OBVIOUS
<1> HIDE DEF ua, ub, bug, set, kept, flags, ta, tb, tat, tbt, age, in, late
<1>7. /\ d \in IdealChips
      /\ d.model = q.model /\ d.mask = q.mask /\ d.cra = q.cra /\ d.crb = q.crb
      /\ d.last_read = q.last_read /\ d.ta = ta /\ d.tb = tb
      /\ d.tat = tat /\ d.tbt = tbt /\ d.age = age /\ d.flags = flags
      /\ d.int_in = in
  BY <1>2, <1>3, <1>4 DEF IdealChips
<1> HIDE DEF d, r
<1>8. CASE set \cap q.mask # {}
  <2>1. r = Ideal!Raised(d, late)
    BY <1>1, <1>8
  <2>2. /\ r \in IdealChips /\ r = [d EXCEPT !.flags = r.flags, !.int_in = r.int_in]
        /\ r.int_in # -1
        /\ "TA" \in r.flags <=> "TA" \in d.flags
        /\ r.flags \cap {"TB", "TBB"} = IF "TBB" \in d.flags \cap {"TB", "TBB"} THEN {}
                                        ELSE d.flags \cap {"TB", "TBB"}
    BY <1>6, <1>7, <2>1, RaisedIs
  <2>3. /\ r.model = d.model /\ r.mask = d.mask /\ r.cra = d.cra /\ r.crb = d.crb
        /\ r.last_read = d.last_read /\ r.ta = d.ta /\ r.tb = d.tb
        /\ r.tat = d.tat /\ r.tbt = d.tbt /\ r.age = d.age
    BY <1>7, <2>2 DEF IdealChips
  <2>4. Counted(q, r)
    BY <1>4, <1>5, <1>7, <1>8, <2>2, <2>3 DEF Counted, ua, ub, bug, ta, tb, tat, tbt, age
  <2> QED BY <2>2, <2>4 DEF r
<1>9. CASE ~(set \cap q.mask # {})
  <2>1. r = Ideal!Resolved(d)
    BY <1>1, <1>9
  <2>2. /\ r \in IdealChips /\ r = [d EXCEPT !.flags = r.flags]
        /\ "TA" \in r.flags <=> "TA" \in d.flags
        /\ r.flags \cap {"TB", "TBB"} =
             IF d.int_in # -1 /\ "TBB" \in d.flags \cap {"TB", "TBB"} THEN {}
             ELSE d.flags \cap {"TB", "TBB"}
    BY <1>7, <2>1, ResolvedIs
  <2>3. /\ r.model = d.model /\ r.mask = d.mask /\ r.cra = d.cra /\ r.crb = d.crb
        /\ r.last_read = d.last_read /\ r.ta = d.ta /\ r.tb = d.tb
        /\ r.tat = d.tat /\ r.tbt = d.tbt /\ r.age = d.age /\ r.int_in = d.int_in
    BY <1>7, <2>2 DEF IdealChips
  <2>4. r.int_in # -1 <=> \/ q.int_in # -1
                          \/ ua /\ "TA" \in q.mask
                          \/ ub /\ "TB" \in q.mask
    BY <1>3, <1>5, <1>7, <1>9, <2>3
  <2>5. Counted(q, r)
    BY <1>4, <1>7, <2>2, <2>3, <2>4 DEF Counted, ua, ub, bug, ta, tb, tat, tbt, age
  <2> QED BY <2>2, <2>5 DEF r
<1> QED BY <1>8, <1>9

-----------------------------------------------------------------------------
(* One cycle further, timer by timer.                                      *)
LEMMA NextTick ==
  ASSUME NEW now \in Int, NEW t \in Timer, t.clk <= now, NEW W,
         NEW p \in Plain, Core(p) = CoreNow(t, W, now)
  PROVE  /\ CountNow(t, W, now + 1) = CountNow(t, W, now) + Underflows(p)
         /\ now + 1 \notin W => CoreNow(t, W, now + 1) = Core(Cycle(p))
         /\ now + 1 \in W => CoreNow(t, W, now + 1) = Core(WithStep(Cycle(p)))
<1> DEFINE r == Ride(t, W)[now - t.clk]
<1>1. /\ r \in Timer /\ Core(r) = CoreNow(t, W, now)
      /\ CoreNow(t, W, now + 1) = Core(Told(W, now + 1, Cycle(r)))
      /\ CountNow(t, W, now + 1) = CountNow(t, W, now) + Underflows(r)
  BY RideNext
<1> HIDE DEF r
<1>2. Cycle(p) \in Plain /\ Core(Cycle(p)) = Core(Cycle(r)) /\ Underflows(p) = Underflows(r)
  BY <1>1, PlainCycle
<1>3. Cycle(r) \in Timer
  BY <1>1, IncIsTimer
<1>4. Core(WithStep(Cycle(p))) = Core(WithStep(Cycle(r)))
  BY <1>2, <1>3, PlainStep
<1> QED BY <1>1, <1>2, <1>4 DEF Told

(* Timer B is stepped at the underflows of timer A.                        *)
LEMMA StepsAre ==
  ASSUME NEW now \in Int, NEW c, c.ta \in Timer, c.ta.clk <= now,
         NEW p \in Plain, Core(p) = CoreNow(c.ta, {}, now)
  PROVE  now + 1 \in StepsB(c) <=> CountsTA(c) /\ Underflows(p) = 1
<1> DEFINE t == c.ta
           k == now - t.clk
           r == Ride(t, {})[k]
<1>1. k \in Nat /\ t \in Timer
  BY DEF Timer
<1>2. r \in Timer /\ Core(r) = CoreNow(t, {}, now)
  BY <1>1, RideNext
<1>3. r = Course(t)[k]
  BY <1>1, RideIsCourse DEF Told
<1>4. Underflows(p) = Underflows(r)
  BY <1>2, PlainCycle
<1>5. (now + 1) - t.clk - 1 = k /\ now + 1 > t.clk /\ now + 1 \in Int
  BY <1>1 DEF Timer
<1>6. now + 1 \in StepsB(c) <=> CountsTA(c) /\ Zero(t, k)
  BY <1>5 DEF StepsB
<1>7. Zero(t, k) <=> Underflows(r) = 1
  BY <1>3 DEF Zero, Underflows
<1> QED BY <1>4, <1>6, <1>7

LEMMA Parities ==
  ASSUME NEW x \in {0, 1}, NEW n \in Nat, NEW y, y = (x + n) % 2
  PROVE  y \in {0, 1} /\ (x + (n + 1)) % 2 = 1 - y /\ (x + (n + 0)) % 2 = y
OBVIOUS

(* The two chips stay alike while a cycle passes.                          *)
LEMMA OneTick ==
  ASSUME NEW now \in Nat, NEW m \in Nat, NEW R, NEW c \in Shapes(m, R),
         c.ta.clk <= now, c.tb.clk <= now, c.rdi <= now, c.rdi <= c.tb.clk,
         NEW q \in IdealChips, Live(q), Tracks(c, now, q), chip.model = q.model
  PROVE  LET r == Ideal!Count(q) IN
         /\ r \in IdealChips /\ Live(r) /\ Tracks(c, now + 1, r)
         /\ r.model = q.model /\ r.last_read = q.last_read
<1> DEFINE r == Ideal!Count(q)
           W == StepsB(c)
           a == CountNow(c.ta, {}, now)
           b == CountNow(c.tb, W, now)
           ua == Underflows(q.ta) = 1
           ub == Underflows(q.tb) = 1
           F == FlagsOf(q, ub, q.model = "6526" /\ q.age = 0)
<1>1. r \in IdealChips /\ Counted(q, r)
  BY CountIs
<1> HIDE DEF r
<1>2. /\ c.ta \in Timer /\ c.tb \in Timer /\ c.ta.clk \in Int /\ c.tb.clk \in Int
      /\ c.rdi \in Int /\ c.tat \in {0, 1} /\ c.tbt \in {0, 1}
  BY DEF Shapes, Timer
<1>3. q.ta \in Plain /\ q.tb \in Plain /\ Underflows(q.ta) \in {0, 1} /\ Underflows(q.tb) \in {0, 1}
  <2>1. q.ta \in Plain /\ q.tb \in Plain
    BY DEF IdealChips
  <2> QED BY <2>1, PlainIs
<1>4. /\ TracksA(c, now, q) /\ TracksB(c, W, now, q) /\ TracksRest(c, now, q)
      /\ q.int_in # -1 <=> Asserted(c, W, now)
  BY DEF Tracks
<1>5. a \in Nat /\ b \in Nat
  BY <1>2, CountInNat
<1>6. now + 1 \in W <=> CountsTA(c) /\ ua
  BY <1>2, <1>3, <1>4, StepsAre DEF TracksA
<1>7. /\ CountNow(c.ta, {}, now + 1) = a + Underflows(q.ta)
      /\ CoreNow(c.ta, {}, now + 1) = Core(Cycle(q.ta))
  BY <1>2, <1>3, <1>4, NextTick DEF TracksA
<1>8. /\ CountNow(c.tb, W, now + 1) = b + Underflows(q.tb)
      /\ CoreNow(c.tb, W, now + 1) = Core(TicksB(q, ua))
  <2> HIDE DEF W
  <2>1. /\ CountNow(c.tb, W, now + 1) = b + Underflows(q.tb)
        /\ now + 1 \notin W => CoreNow(c.tb, W, now + 1) = Core(Cycle(q.tb))
        /\ now + 1 \in W => CoreNow(c.tb, W, now + 1) = Core(WithStep(Cycle(q.tb)))
    BY <1>2, <1>3, <1>4, NextTick DEF TracksB
  <2>2. CountsTA(c) <=> {"START", "COUNTTA"} \subseteq q.crb
    BY <1>4 DEF CountsTA, TracksRest
  <2> QED BY <1>6, <2>1, <2>2 DEF TicksB
<1>9. /\ ua => Underflows(q.ta) = 1
      /\ ~ua => Underflows(q.ta) = 0
      /\ ub => Underflows(q.tb) = 1
      /\ ~ub => Underflows(q.tb) = 0
  BY <1>3
<1>10. /\ CountNow(c.ta, {}, now + 1) > 0 <=> a > 0 \/ ua
       /\ CountNow(c.tb, W, now + 1) > 0 <=> b > 0 \/ ub
       /\ CountNow(c.tb, W, now + 1) = 0 <=> b = 0 /\ ~ub
       /\ ub => CountNow(c.tb, W, now + 1) = b + 1
       /\ ~ub => CountNow(c.tb, W, now + 1) = b
  BY <1>5, <1>7, <1>8, <1>9
<1> HIDE DEF ua, ub, a, b
<1>11. TracksA(c, now + 1, r)
  <2>1. r.ta = Cycle(q.ta) /\ r.tat = (IF ua THEN 1 - q.tat ELSE q.tat)
        /\ ("TA" \in r.flags <=> "TA" \in q.flags \/ ua)
    BY <1>1 DEF Counted, ua
  <2>2. r.tat = (c.tat + CountNow(c.ta, {}, now + 1)) % 2
    <3>1. q.tat = (c.tat + a) % 2
      BY <1>4 DEF TracksA, a
    <3>2. (c.tat + (a + 1)) % 2 = 1 - q.tat /\ (c.tat + (a + 0)) % 2 = q.tat
      <4> DEFINE x == c.tat
                 y == q.tat
      <4>1. x \in {0, 1} /\ a \in Nat /\ y = (x + a) % 2
        BY <1>2, <1>5, <3>1
      <4> HIDE DEF x, y
      <4>2. (x + (a + 1)) % 2 = 1 - y /\ (x + (a + 0)) % 2 = y
        BY ONLY <4>1, Parities
      <4> QED BY <4>2 DEF x, y
    <3> QED BY <1>7, <1>9, <2>1, <3>2
  <2>3. FlagA(c, now + 1) <=> FlagA(c, now) \/ ua
    BY <1>10 DEF FlagA, a
  <2> QED BY <1>4, <1>7, <2>1, <2>2, <2>3 DEF TracksA
<1>12. r.int_in # -1 <=> Asserted(c, W, now + 1)
  <2>1. r.int_in # -1 <=> q.int_in # -1 \/ (ua /\ "TA" \in q.mask) \/ (ub /\ "TB" \in q.mask)
    BY <1>1 DEF Counted, ua, ub
  <2>2. q.mask = c.mask
    BY <1>4 DEF TracksRest
  <2> QED BY <1>4, <1>10, <2>1, <2>2 DEF Asserted, a, b
<1>13. Asserted(c, W, now) => Asserted(c, W, now + 1)
  BY <1>10 DEF Asserted, a, b
<1>14. TracksB(c, W, now + 1, r)
  <2>1. /\ r.tb = TicksB(q, ua) /\ r.tbt = (IF ub THEN 1 - q.tbt ELSE q.tbt)
        /\ r.flags \cap {"TB", "TBB"} = IF r.int_in # -1 /\ "TBB" \in F THEN {} ELSE F
    BY <1>1 DEF Counted, ua, ub
  <2>2. r.tbt = (c.tbt + CountNow(c.tb, W, now + 1)) % 2
    <3>1. q.tbt = (c.tbt + b) % 2
      BY <1>4 DEF TracksB, b
    <3>2. (c.tbt + (b + 1)) % 2 = 1 - q.tbt /\ (c.tbt + (b + 0)) % 2 = q.tbt
      <4> DEFINE x == c.tbt
                 y == q.tbt
      <4>1. x \in {0, 1} /\ b \in Nat /\ y = (x + b) % 2
        BY <1>2, <1>5, <3>1
      <4> HIDE DEF x, y
      <4>2. (x + (b + 1)) % 2 = 1 - y /\ (x + (b + 0)) % 2 = y
        BY ONLY <4>1, Parities
      <4> QED BY <4>2 DEF x, y
    <3> QED BY <1>8, <1>9, <2>1, <3>2
  <2>3. q.model = "6526" /\ q.age = 0 <=> c.model = "6526" /\ c.rdi = now
    <3>1. q.model = c.model /\ q.age = Least(now - c.rdi, 2)
      BY <1>4 DEF TracksRest
    <3>2. Least(now - c.rdi, 2) = 0 <=> c.rdi = now
      <4>1. c.rdi \in Int /\ c.rdi <= now /\ now \in Int
        BY <1>2
      <4> QED BY ONLY <4>1, AgeGrows
    <3> QED BY <3>1, <3>2
  <2>4. CASE ub
    <3>1. F = {"TB"} \cup Given(c.model = "6526" /\ c.rdi = now, {"TBB"})
      BY <2>3, <2>4 DEF FlagsOf
    <3>2. Lone(c, W, now + 1) <=> c.model = "6526" /\ c.rdi = now
      <4>1. CASE c.rdi = now
        <5>1. c.tb.clk = now /\ CountNow(c.tb, W, now) = 0
          BY <1>2, <4>1, CountStarts
        <5>2. CountNow(c.tb, W, now + 1) = 1
          BY <1>10, <2>4, <5>1 DEF b
        <5> QED BY <4>1, <5>1, <5>2 DEF Lone
      <4>2. CASE c.rdi # now
        <5>1. c.rdi + 1 <= now
          BY <1>2, <4>2
        <5>2. ASSUME Lone(c, W, now + 1) PROVE FALSE
          <6>1. c.tb.clk = c.rdi /\ CountNow(c.tb, W, now + 1) = 1
                /\ CountNow(c.tb, W, c.rdi + 1) = 1
            BY <5>2 DEF Lone
          <6>2. CountNow(c.tb, W, c.rdi + 1) <= CountNow(c.tb, W, now)
            <7> HIDE DEF W
            <7> QED BY <1>2, <5>1, <6>1, CountRises
          <6> QED BY <1>5, <1>10, <2>4, <6>1, <6>2 DEF b
        <5> QED BY <4>2, <5>2
      <4> QED BY <4>1, <4>2
    <3>3. FlagsB(c, W, now + 1) = F
      <4>1. CountNow(c.tb, W, now + 1) # 0
        BY <1>10, <2>4
      <4>2. Given(Lone(c, W, now + 1), {"TBB"}) = Given(c.model = "6526" /\ c.rdi = now, {"TBB"})
        BY <3>2 DEF Given
      <4> QED BY <3>1, <4>1, <4>2 DEF FlagsB
    <3>4. r.flags \cap {"TB", "TBB"} = ShownB(c, W, now + 1)
      BY <1>12, <2>1, <3>3 DEF ShownB
    <3> QED BY <1>8, <2>1, <2>2, <3>4 DEF TracksB
  <2>5. CASE ~ub
    <3>1. F = q.flags \cap {"TB", "TBB"} /\ q.flags \cap {"TB", "TBB"} = ShownB(c, W, now)
      BY <1>4, <2>5 DEF FlagsOf, TracksB
    <3>2. FlagsB(c, W, now + 1) = FlagsB(c, W, now)
      <4>1. CASE b = 0
        BY <1>10, <2>5, <4>1 DEF FlagsB, b
      <4>2. CASE b # 0
        <5>1. CountNow(c.tb, W, now + 1) = CountNow(c.tb, W, now)
          BY <1>10, <2>5 DEF b
        <5>2. Lone(c, W, now + 1) <=> Lone(c, W, now)
          BY <5>1 DEF Lone
        <5>3. Given(Lone(c, W, now + 1), {"TBB"}) = Given(Lone(c, W, now), {"TBB"})
          BY <5>2 DEF Given
        <5> QED BY <5>1, <5>3 DEF FlagsB
      <4> QED BY <4>1, <4>2
    <3>3. r.flags \cap {"TB", "TBB"} = ShownB(c, W, now + 1)
      BY <1>12, <1>13, <2>1, <3>1, <3>2 DEF ShownB
    <3> QED BY <1>8, <2>1, <2>2, <3>3 DEF TracksB
  <2> QED BY <2>4, <2>5
<1>15. TracksRest(c, now + 1, r)
  <2>1. /\ r.model = q.model /\ r.mask = q.mask /\ r.cra = q.cra /\ r.crb = q.crb
        /\ r.age = IF q.age < 2 THEN q.age + 1 ELSE 2
    BY <1>1 DEF Counted
  <2> QED BY <1>2, <1>4, <2>1, AgeGrows DEF TracksRest
<1>16. Live(r)
  <2>1. /\ r.ta = Cycle(q.ta) /\ r.tb = TicksB(q, ua) /\ r.crb = q.crb
    BY <1>1 DEF Counted, ua
  <2>2. /\ "STEP" \notin Cycle(q.ta).state /\ "STEP" \notin Cycle(q.tb).state
        /\ "COUNT2" \in Cycle(q.tb).state => "PHI2IN" \in Cycle(q.tb).state
        /\ "PHI2IN" \in Cycle(q.tb).state <=> "PHI2IN" \in q.tb.state
        /\ Cycle(q.tb) \in Plain
    <3>1. LET u == Lift(q.ta)
              v == Lift(q.tb) IN
          u \in Timer /\ v \in Timer /\ Core(q.ta) = Core(u) /\ Core(q.tb) = Core(v)
      BY <1>3, LiftIs DEF Likeness
    <3> QED BY <1>3, <3>1, PlainCycle
  <2>3. CASE ua /\ {"START", "COUNTTA"} \subseteq q.crb
    <3> DEFINE p == Cycle(q.tb)
    <3>1. "PHI2IN" \notin p.state /\ "COUNT2" \notin p.state
      BY <2>2, <2>3 DEF Live
    <3>2. r.tb.state = p.state \cup Given("START" \in p.state, {"STEP"})
      <4>1. Lift(p) \in Timer /\ Core(p) = Core(Lift(p))
        BY <2>2, LiftIs DEF Likeness
      <4>2. WithStep(p).state = p.state \cup Given("START" \in p.state, {"STEP"})
        BY <2>2, <4>1, PlainStep
      <4> QED BY <2>1, <2>3, <4>2 DEF TicksB
    <3> HIDE DEF p
    <3> QED BY <2>1, <2>2, <3>1, <3>2 DEF Live, StepIsLive, Stepped, Given, p
  <2>4. CASE ~(ua /\ {"START", "COUNTTA"} \subseteq q.crb)
    BY <2>1, <2>2, <2>4 DEF Live, StepIsLive, TicksB
  <2> QED BY <2>3, <2>4
<1>17. r.model = q.model /\ r.last_read = q.last_read
  BY <1>1 DEF Counted
<1>18. Tracks(c, now + 1, r)
  BY <1>11, <1>12, <1>14, <1>15 DEF Tracks
<1>19. r \in IdealChips
  BY <1>1
<1> QED BY <1>16, <1>17, <1>18, <1>19 DEF r

-----------------------------------------------------------------------------
(* What the chip of the emulator is before a cycle, and that the other one *)
(* is the same.                                                            *)
Ready(c, now) == Trim(c, now) /\ Lit(c) /\ c.rdi < now

Joined(c, now, q) == q \in IdealChips /\ Live(q) /\ Tracks(c, now, q) /\ chip.model = q.model

Past(c, now) == c.ta.clk <= now /\ c.tb.clk <= now

LEMMA ReadyIs ==
  ASSUME NEW now \in 0..LastClk, NEW R, NEW c, Sound(c, now, R), Ready(c, now)
  PROVE  /\ Aged(c) /\ Past(c, now) /\ c \in Shapes(now, R) /\ c.rdi \in 0..now /\ c.rdi # now
         /\ c.ta \in Timer /\ c.tb \in Timer /\ c.ta.clk \in Nat /\ c.tb.clk \in Nat
         /\ Held(c.ta, c.cra, now) /\ Held(c.tb, InputB(c.crb), now) /\ now \in Nat
         /\ "STEP" \notin c.ta.state /\ StepIsLive(c.tb)
<1>1. Held(c.ta, c.cra, now) /\ Held(c.tb, InputB(c.crb), now) /\ c \in Shapes(now, R)
  BY DEF Sound, SideA, SideB
<1>2. c.ta \in Timer /\ c.tb \in Timer /\ c.ta.clk \in Nat /\ c.tb.clk \in Nat
      /\ c.ta.clk <= now /\ c.tb.clk <= now /\ now \in Nat
  BY <1>1, HeldIsNear
<1>3. c.rdi \in 0..now /\ c.rdi # now
  BY <1>1 DEF Ready, Shapes
<1> QED BY <1>1, <1>2, <1>3 DEF Ready, Trim, Fit, Past

LEMMA UpdatedStays ==
  ASSUME NEW now \in 0..LastClk, NEW R, NEW c, Sound(c, now, R), NEW d, Ready(c, now), GoesA(c, d, now), NEW q
  PROVE  Ready(d, now) /\ (Joined(c, now, q) <=> Joined(d, now, q))
<1>1. Same(c, StepsB(c), d, StepsB(d), now) /\ Trim(d, now) /\ (Lit(c) /\ c.rdi # now => Lit(d))
  BY DEF GoesA
<1>2. d.rdi = c.rdi
  BY <1>1 DEF Same, SameRest
<1>3. Tracks(c, now, q) <=> Tracks(d, now, q)
  BY <1>1, SameTracks
<1>4. Lit(c) /\ c.rdi < now /\ c.rdi # now
  BY ReadyIs DEF Ready
<1> QED BY <1>1, <1>2, <1>3, <1>4 DEF Ready, Joined

LEMMA ReadyLater ==
  ASSUME NEW now \in 0..LastClk, NEW R, NEW c, Sound(c, now, R), Ready(c, now)
  PROVE  Ready(c, now + 1)
<1>1. Aged(c) /\ c.rdi \in 0..now /\ now \in Nat
  BY ReadyIs
<1> QED BY <1>1 DEF Ready, Trim, Fit

LEMMA SetAlarmIs ==
  ASSUME NEW t, NEW ctl, NEW now \in 0..LastClk, Held(t, ctl, now)
  PROVE  LET a == SetAlarm(t) IN
         /\ Held(a, ctl, now) /\ Agreed(a) /\ a.alarmclk = Upcoming(a) /\ a \in Timer
         /\ a.clk = t.clk /\ a.state = t.state /\ a.cnt = t.cnt /\ a.latch = t.latch
         /\ Core(a) = Core(t) /\ Upcoming(a) > a.clk /\ Upcoming(a) = Upcoming(t)
<1>1. t \in Timer /\ Near(t) /\ Regular(t) /\ Kept(t, ctl)
  BY HeldIsNear
<1>2. Upcoming(t) \in Int /\ Upcoming(t) > t.clk
  BY <1>1, UpcomingLies
<1>3. SetAlarm(t) = AlarmAt(t, Upcoming(t))
  BY DEF SetAlarm, Upcoming
<1>4. LET a == SetAlarm(t) IN
      /\ a \in Timer /\ a.clk = t.clk /\ a.state = t.state /\ a.cnt = t.cnt /\ a.latch = t.latch
  BY <1>1, <1>2, <1>3, AlarmAtIs
<1>5. LET a == SetAlarm(t) IN
      Held(a, ctl, now) /\ Agreed(a) /\ a.alarmclk = Upcoming(a)
  BY SetAlarmHolds
<1>6. Upcoming(SetAlarm(t)) = Upcoming(t)
  BY <1>2, <1>3, AlarmAtHolds
<1>7. Core(SetAlarm(t)) = Core(t)
  BY <1>4 DEF Core
<1> QED BY <1>2, <1>4, <1>5, <1>6, <1>7

LEMMA HeldLies ==
  ASSUME NEW t, NEW ctl, NEW now \in 0..LastClk, Held(t, ctl, now)
  PROVE  t \in Timer /\ Upcoming(t) \in Int /\ Upcoming(t) > t.clk /\ t.clk \in Nat
<1>1. t \in Timer /\ Near(t) /\ Regular(t) /\ Kept(t, ctl) /\ t.clk \in Nat
  BY HeldIsNear
<1> QED BY <1>1, UpcomingLies

-----------------------------------------------------------------------------
(* A store to timer A, which has been replayed.                            *)
LEMMA StepsDoNotMatter ==
  ASSUME NEW now \in Int, NEW t \in Timer, t.clk <= now, NEW W, NEW V,
         \A j \in W : j > now, \A j \in V : j > now
  PROVE  CoreNow(t, V, now) = CoreNow(t, W, now) /\ CountNow(t, V, now) = CountNow(t, W, now)
<1>1. t.clk \in Int
  BY DEF Timer
<1>2. t.clk \notin W /\ t.clk \notin V /\ \A j \in Int : t.clk < j /\ j <= now => j \notin W /\ j \notin V
  BY <1>1
<1>3. Core(Told(V, t.clk, t)) = Core(Told(W, t.clk, t))
  BY <1>2 DEF Told
<1>4. \A j \in Int : t.clk < j /\ j <= now => (j \in V <=> j \in W)
  BY <1>2
<1> QED BY ONLY <1>3, <1>4, RidesAgree, now \in Int, t \in Timer, t.clk <= now

LEMMA StoreATracks ==
  ASSUME NEW now \in Nat, NEW m, NEW R, NEW d \in Shapes(m, R), d.ta.clk = now, d.tb.clk <= now,
         d.rdi \in Nat, d.rdi < now, NEW x \in SUBSET ControlBits, NEW t \in Timer, t.clk = now,
         NEW q, Joined(d, now, q), NEW p \in Plain, Core(p) = Core(t), "STEP" \notin p.state
  PROVE  Joined([d EXCEPT !.ta = t, !.cra = x], now, [q EXCEPT !.ta = p, !.cra = x])
<1> DEFINE f == [d EXCEPT !.ta = t, !.cra = x]
           e == [q EXCEPT !.ta = p, !.cra = x]
           W == StepsB(d)
           V == StepsB(f)
<1>1. /\ f.ta = t /\ f.cra = x /\ f.tb = d.tb /\ f.model = d.model /\ f.mask = d.mask
      /\ f.irqflags = d.irqflags /\ f.crb = d.crb /\ f.tat = d.tat /\ f.tbt = d.tbt
      /\ f.rdi = d.rdi /\ f.line = d.line
  BY DEF Shapes
<1>2. /\ e \in IdealChips /\ e.ta = p /\ e.cra = x /\ e.tb = q.tb /\ e.model = q.model
      /\ e.mask = q.mask /\ e.crb = q.crb /\ e.tat = q.tat /\ e.tbt = q.tbt
      /\ e.age = q.age /\ e.int_in = q.int_in /\ e.flags = q.flags
  BY DEF Joined, IdealChips
<1>3. (\A j \in W : j > now) /\ (\A j \in V : j > now)
  BY <1>1, StepsAhead
<1>4. /\ TracksA(d, now, q) /\ TracksB(d, W, now, q) /\ TracksRest(d, now, q)
      /\ q.int_in # -1 <=> Asserted(d, W, now)
  BY DEF Joined, Tracks
<1> HIDE DEF f, e, W, V
<1>5. d.ta \in Timer /\ d.tb \in Timer /\ d.tb.clk \in Int
  BY DEF Shapes, Timer
<1>6. /\ CountNow(d.ta, {}, now) = 0
      /\ CoreNow(t, {}, now) = Core(t) /\ CountNow(t, {}, now) = 0
  BY <1>5, TimerRests
<1>7. /\ CoreNow(d.tb, V, now) = CoreNow(d.tb, W, now)
      /\ CountNow(d.tb, V, now) = CountNow(d.tb, W, now)
  BY <1>3, <1>5, StepsDoNotMatter
<1>8. Lone(f, V, now) <=> Lone(d, W, now)
  <2>1. CASE d.tb.clk = d.rdi
    <3>1. d.rdi + 1 \in Int /\ d.tb.clk <= d.rdi + 1 /\ d.rdi + 1 <= now
      BY <2>1
    <3>2. (\A j \in W : j > d.rdi + 1) /\ (\A j \in V : j > d.rdi + 1)
      <4>1. W \subseteq Int /\ V \subseteq Int
        BY StepsAhead DEF W, V
      <4> QED BY <1>3, <3>1, <4>1
    <3>3. CountNow(d.tb, V, d.rdi + 1) = CountNow(d.tb, W, d.rdi + 1)
      BY <1>5, <3>1, <3>2, StepsDoNotMatter
    <3> QED BY <1>1, <1>7, <3>3 DEF Lone
  <2>2. CASE d.tb.clk # d.rdi
    BY <1>1, <2>2 DEF Lone
  <2> QED BY <2>1, <2>2
<1>9. Asserted(f, V, now) <=> Asserted(d, W, now)
  BY <1>1, <1>6, <1>7 DEF Asserted
<1>10. FlagsB(f, V, now) = FlagsB(d, W, now)
  <2>1. Given(Lone(f, V, now), {"TBB"}) = Given(Lone(d, W, now), {"TBB"})
    BY <1>8 DEF Given
  <2> QED BY <1>1, <1>7, <2>1 DEF FlagsB
<1>11. ShownB(f, V, now) = ShownB(d, W, now)
  BY <1>9, <1>10, ShownAlike
<1>12. TracksA(f, now, e)
  BY <1>1, <1>2, <1>4, <1>6 DEF TracksA, FlagA
<1>13. TracksB(f, V, now, e)
  BY <1>1, <1>2, <1>4, <1>7, <1>11 DEF TracksB
<1>14. TracksRest(f, now, e)
  BY <1>1, <1>2, <1>4 DEF TracksRest
<1>15. Tracks(f, now, e)
  BY <1>1, <1>2, <1>4, <1>9, <1>12, <1>13, <1>14 DEF Tracks, V
<1>16. Live(e) /\ chip.model = e.model
  BY <1>2 DEF Joined, Live
<1> QED BY <1>2, <1>15, <1>16 DEF Joined, f, e

LEMMA StoreBTracks ==
  ASSUME NEW now \in Nat, NEW m, NEW R, NEW d \in Shapes(m, R), d.ta.clk <= now, d.tb.clk = now,
         now \notin StepsB(d), NEW t \in Timer, t.clk = now,
         NEW q, Joined(d, now, q), NEW p \in Plain, Core(p) = Core(t), StepIsLive(p),
         "COUNTTA" \in q.crb => "PHI2IN" \notin p.state
  PROVE  Joined([d EXCEPT !.tb = t], now, [q EXCEPT !.tb = p])
<1> DEFINE f == [d EXCEPT !.tb = t]
           e == [q EXCEPT !.tb = p]
           W == StepsB(d)
<1>1. /\ f.tb = t /\ f.ta = d.ta /\ f.cra = d.cra /\ f.model = d.model /\ f.mask = d.mask
      /\ f.irqflags = d.irqflags /\ f.crb = d.crb /\ f.tat = d.tat /\ f.tbt = d.tbt
      /\ f.rdi = d.rdi /\ f.line = d.line
  BY DEF Shapes
<1>2. /\ e \in IdealChips /\ e.tb = p /\ e.ta = q.ta /\ e.cra = q.cra /\ e.model = q.model
      /\ e.mask = q.mask /\ e.crb = q.crb /\ e.tat = q.tat /\ e.tbt = q.tbt
      /\ e.age = q.age /\ e.int_in = q.int_in /\ e.flags = q.flags
  BY DEF Joined, IdealChips
<1>3. StepsB(f) = W
  BY <1>1 DEF StepsB, CountsTA
<1>4. /\ TracksA(d, now, q) /\ TracksB(d, W, now, q) /\ TracksRest(d, now, q)
      /\ q.int_in # -1 <=> Asserted(d, W, now)
  BY DEF Joined, Tracks
<1> HIDE DEF f, e, W
<1>5. d.tb \in Timer /\ now \notin W
  BY DEF Shapes, W
<1>6. /\ CountNow(d.tb, W, now) = 0
      /\ CoreNow(t, W, now) = Core(t) /\ CountNow(t, W, now) = 0
  BY <1>5, TimerRests
<1>9. Asserted(f, W, now) <=> Asserted(d, W, now)
  BY <1>1, <1>6 DEF Asserted
<1>10. FlagsB(f, W, now) = FlagsB(d, W, now)
  BY <1>1, <1>6 DEF FlagsB
<1>11. ShownB(f, W, now) = ShownB(d, W, now)
  BY <1>9, <1>10, ShownAlike
<1>12. TracksA(f, now, e)
  BY <1>1, <1>2, <1>4 DEF TracksA, FlagA
<1>13. TracksB(f, W, now, e)
  BY <1>1, <1>2, <1>4, <1>6, <1>11 DEF TracksB
<1>14. TracksRest(f, now, e)
  BY <1>1, <1>2, <1>4 DEF TracksRest
<1>15. Tracks(f, now, e)
  BY <1>2, <1>3, <1>4, <1>9, <1>12, <1>13, <1>14 DEF Tracks
<1>16. Live(e) /\ chip.model = e.model
  BY <1>2 DEF Joined, Live
<1> QED BY <1>2, <1>15, <1>16 DEF Joined, f, e

-----------------------------------------------------------------------------
(* What an access to a register must leave of both chips.                  *)
SameByte(c, q) == WithoutIR(c.last_read) = WithoutIR(q.last_read)

(* A timer that is stopped has no alarm but that of its last underflow.    *)
Still(c) == /\ "START" \notin c.cra => c.ta.alarmclk = ClockMax
            /\ "START" \notin c.crb => c.tb.alarmclk = ClockMax

Accessed(c, f, now, q, e) ==
  /\ Ready(f, now + 1) /\ Past(f, now)
  /\ Still(c) /\ Joined(c, now, q) =>
       Joined(f, now, e) /\ (SameByte(c, q) => SameByte(f, e))

LEMMA StillStays ==
  ASSUME NEW now, NEW c, NEW d, GoesA(c, d, now), Still(c)
  PROVE  Still(d)
BY DEF GoesA, Stops, Still, Same, SameRest, SameControl

LEMMA IdealBus ==
  /\ \A b : Ideal!Byte(b) = Byte(b) /\ Ideal!Value(b) = Value(b)
  /\ \A P, b : Ideal!Timers!Given(P, b) = Given(P, b)
  /\ \A x, y : Ideal!MaskAfter(x, y) = MaskAfter(x, y) /\ Ideal!Starts(x, y) = Starts(x, y)
BY DEF Ideal!Byte, Byte, Ideal!Value, Value, Ideal!Timers!Given, Given,
       Ideal!MaskAfter, MaskAfter, Ideal!Starts, Starts

LEMMA WithByte ==
  ASSUME NEW now \in 0..LastClk, NEW R, NEW c, Sound(c, now, R), Ready(c, now), NEW x,
         NEW q, NEW y, Joined(c, now, q) => y \in IdealBytes
  PROVE  LET f == [c EXCEPT !.last_read = x]
             e == [q EXCEPT !.last_read = y] IN
         /\ Ready(f, now + 1) /\ Past(f, now) /\ (Still(c) => Still(f))
         /\ Joined(c, now, q) => Joined(f, now, e)
         /\ f.last_read = x
         /\ Joined(c, now, q) => e.last_read = y
<1> DEFINE f == [c EXCEPT !.last_read = x]
           e == [q EXCEPT !.last_read = y]
<1>1. /\ f.model = c.model /\ f.ta = c.ta /\ f.tb = c.tb /\ f.mask = c.mask
      /\ f.irqflags = c.irqflags /\ f.cra = c.cra /\ f.crb = c.crb /\ f.tat = c.tat
      /\ f.tbt = c.tbt /\ f.rdi = c.rdi /\ f.line = c.line /\ f.last_read = x
  BY DEF Sound, Shapes
<1>2. Ready(c, now + 1) /\ Past(c, now)
  BY ReadyIs, ReadyLater
<1> HIDE DEF f
<1>3. StepsB(f) = StepsB(c)
  BY <1>1 DEF StepsB, CountsTA
<1>4. Ready(f, now + 1)
  BY <1>1, <1>2 DEF Ready, Trim, Fit, Aged, Follows, CountsTA, Lit
<1>5. Past(f, now) /\ (Still(c) => Still(f))
  BY <1>1, <1>2 DEF Past, Still
<1>6. ASSUME Joined(c, now, q) PROVE Joined(f, now, e) /\ e.last_read = y
  <2>1. /\ e \in IdealChips /\ e.ta = q.ta /\ e.cra = q.cra /\ e.tb = q.tb /\ e.model = q.model
        /\ e.mask = q.mask /\ e.crb = q.crb /\ e.tat = q.tat /\ e.tbt = q.tbt
        /\ e.age = q.age /\ e.int_in = q.int_in /\ e.flags = q.flags /\ e.last_read = y
    BY <1>6 DEF Joined, IdealChips
  <2> HIDE DEF e
  <2> DEFINE W == StepsB(c)
  <2>2. /\ TracksA(c, now, q) /\ TracksB(c, W, now, q) /\ TracksRest(c, now, q)
        /\ q.int_in # -1 <=> Asserted(c, W, now)
    BY <1>6 DEF Joined, Tracks
  <2> HIDE DEF W
  <2>3. Asserted(f, W, now) <=> Asserted(c, W, now)
    BY <1>1 DEF Asserted
  <2>4. FlagsB(f, W, now) = FlagsB(c, W, now)
    <3>1. Lone(f, W, now) <=> Lone(c, W, now)
      BY <1>1 DEF Lone
    <3>2. Given(Lone(f, W, now), {"TBB"}) = Given(Lone(c, W, now), {"TBB"})
      BY <3>1 DEF Given
    <3> QED BY <1>1, <3>2 DEF FlagsB
  <2>5. ShownB(f, W, now) = ShownB(c, W, now)
    BY <2>3, <2>4, ShownAlike
  <2>6. TracksA(f, now, e) /\ TracksRest(f, now, e)
    BY <1>1, <2>1, <2>2 DEF TracksA, FlagA, TracksRest
  <2>7. TracksB(f, W, now, e)
    BY <1>1, <2>1, <2>2, <2>5 DEF TracksB
  <2>8. Tracks(f, now, e)
    BY <1>3, <2>1, <2>2, <2>3, <2>6, <2>7 DEF Tracks, W
  <2> QED BY <1>6, <2>1, <2>8 DEF Joined, Live
<1> QED BY <1>1, <1>4, <1>5, <1>6 DEF f

LEMMA NoAccessGoes ==
  ASSUME NEW now \in 0..LastClk, NEW R, NEW c, Sound(c, now, R), Ready(c, now), NEW q
  PROVE  LET f == Access(c, NoAccess, now)
             e == Ideal!Access(q, NoAccess) IN
         Accessed(c, f, now, q, e) /\ (Still(c) => Still(f))
<1>1. Access(c, NoAccess, now) = [c EXCEPT !.last_read = Byte({})]
  BY DEF Access, NoAccess
<1>2. Ideal!Access(q, NoAccess) = [q EXCEPT !.last_read = Byte({})]
  BY IdealBus DEF Ideal!Access, NoAccess
<1>3. Byte({}) \in IdealBytes
  BY DEF Byte, IdealBytes
<1> QED BY <1>1, <1>2, <1>3, WithByte DEF Accessed, SameByte

-----------------------------------------------------------------------------
(* A timer that has been replayed holds what the timer of the other does.  *)
LEMMA JoinedA ==
  ASSUME NEW now \in Nat, NEW m, NEW R, NEW d \in Shapes(m, R), d.ta.clk = now,
         NEW q, Joined(d, now, q)
  PROVE  /\ q.ta \in Plain /\ Core(q.ta) = Core(d.ta) /\ q.ta.cnt = d.ta.cnt
         /\ "START" \in q.ta.state <=> "START" \in d.ta.state
         /\ q.cra = d.cra /\ q.cra \in SUBSET ControlBits
<1>1. d.ta \in Timer /\ q.ta \in Plain /\ q.cra = d.cra /\ q.cra \in SUBSET ControlBits
  BY DEF Shapes, Joined, IdealChips, Tracks, TracksRest
<1>2. Core(q.ta) = CoreNow(d.ta, {}, now)
  BY DEF Joined, Tracks, TracksA
<1>3. CoreNow(d.ta, {}, now) = Core(d.ta)
  BY <1>1, TimerRests
<1> QED BY <1>1, <1>2, <1>3, PlainCore

LEMMA JoinedB ==
  ASSUME NEW now \in Nat, NEW m, NEW R, NEW d \in Shapes(m, R), d.tb.clk = now,
         now \notin StepsB(d), NEW q, Joined(d, now, q)
  PROVE  /\ q.tb \in Plain /\ Core(q.tb) = Core(d.tb) /\ q.tb.cnt = d.tb.cnt
         /\ "START" \in q.tb.state <=> "START" \in d.tb.state
         /\ q.crb = d.crb /\ q.crb \in SUBSET ControlBits
<1>1. d.tb \in Timer /\ q.tb \in Plain /\ q.crb = d.crb /\ q.crb \in SUBSET ControlBits
  BY DEF Shapes, Joined, IdealChips, Tracks, TracksRest
<1>2. Core(q.tb) = CoreNow(d.tb, StepsB(d), now)
  BY DEF Joined, Tracks, TracksB
<1>3. CoreNow(d.tb, StepsB(d), now) = Core(d.tb)
  BY <1>1, TimerRests
<1> QED BY <1>1, <1>2, <1>3, PlainCore

(* Updates that precede an access.                                         *)
LEMMA UpToDateA ==
  ASSUME NEW now \in 0..LastClk, NEW R, NEW c, Sound(c, now, R), Ready(c, now), NEW q
  PROVE  LET d == UpdateTA(c, now) IN
         /\ Sound(d, now, R) /\ SameControl(c, d) /\ GoesA(c, d, now) /\ Ready(d, now)
         /\ d.ta.clk = now /\ d.last_read = c.last_read
         /\ Joined(c, now, q) <=> Joined(d, now, q)
<1> DEFINE d == UpdateTA(c, now)
<1>1. now \in 0..now /\ Trim(c, now)
  BY UpToDate DEF Ready
<1>2. Sound(d, now, R) /\ SameControl(c, d) /\ d.ta.clk >= now
  BY <1>1, UpdateTAIs
<1>3. GoesA(c, d, now)
  BY <1>1, UpdateTAGoes
<1> HIDE DEF d
<1>4. d.ta.clk = now /\ d.last_read = c.last_read
  BY <1>2, <1>3, UpToDate DEF GoesA, Same, SameRest
<1> QED BY <1>2, <1>3, <1>4, UpdatedStays DEF d

LEMMA UpToDateB ==
  ASSUME NEW now \in 0..LastClk, NEW R, NEW c, Sound(c, now, R), Ready(c, now), NEW q
  PROVE  LET d == UpdateTB(c, now) IN
         /\ Sound(d, now, R) /\ SameControl(c, d) /\ GoesA(c, d, now) /\ Ready(d, now)
         /\ d.tb.clk = now /\ d.last_read = c.last_read
         /\ (CountsTA(d) => d.ta.clk = now) /\ now \notin StepsB(d)
         /\ Joined(c, now, q) <=> Joined(d, now, q)
<1> DEFINE d == UpdateTB(c, now)
           b == IF CountsTA(c) THEN UpdateTA(c, now) ELSE c
<1>1. now \in 0..now /\ Trim(c, now)
  BY UpToDate DEF Ready
<1>2. Sound(d, now, R) /\ SameControl(c, d) /\ d.tb.clk >= now
  BY <1>1, UpdateTBIs
<1>3. GoesA(c, d, now)
  BY <1>1, UpdateTBGoes
<1>4. Sound(b, now, R) /\ (CountsTA(c) => b.ta.clk >= now)
  BY <1>1, UpdateTAIs
<1>5. d = AlarmsTB(b, now)
  BY DEF UpdateTB
<1> HIDE DEF d, b
<1>6. d.ta = b.ta
  BY <1>1, <1>4, <1>5, AlarmsTBIs
<1>7. CountsTA(d) <=> CountsTA(c)
  BY <1>2 DEF SameControl, CountsTA
<1>8. d.tb.clk = now /\ d.last_read = c.last_read /\ (CountsTA(d) => d.ta.clk = now)
  BY <1>2, <1>3, <1>4, <1>6, <1>7, UpToDate DEF GoesA, Same, SameRest
<1>9. now \notin StepsB(d)
  BY <1>8 DEF StepsB
<1> QED BY <1>2, <1>3, <1>8, <1>9, UpdatedStays DEF d

LEMMA UpToDateBoth ==
  ASSUME NEW now \in 0..LastClk, NEW R, NEW c, Sound(c, now, R), Ready(c, now), NEW q
  PROVE  LET d == UpdateBoth(c, now) IN
         /\ Sound(d, now, R) /\ SameControl(c, d) /\ GoesA(c, d, now) /\ Ready(d, now)
         /\ Rests(d, now) /\ d.last_read = c.last_read
         /\ Joined(c, now, q) <=> Joined(d, now, q)
<1> DEFINE d == UpdateBoth(c, now)
<1>1. now \in 0..now /\ Trim(c, now)
  BY UpToDate DEF Ready
<1>2. Sound(d, now, R) /\ SameControl(c, d) /\ d.ta.clk >= now /\ d.tb.clk >= now
  BY <1>1, UpdateBothIs
<1>3. GoesA(c, d, now)
  BY <1>1, UpdateBothGoes
<1> HIDE DEF d
<1>4. d.ta.clk = now /\ d.tb.clk = now /\ d.last_read = c.last_read
  BY <1>2, <1>3, UpToDate DEF GoesA, Same, SameRest
<1> QED BY <1>2, <1>3, <1>4, UpdatedStays DEF d, Rests

-----------------------------------------------------------------------------
(* Reads of the counters and of the control registers.                     *)
LEMMA IdealReads ==
  ASSUME NEW q
  PROVE  /\ Ideal!Access(q, ReadReg("TAL")) = [q EXCEPT !.last_read = Value(q.ta.cnt)]
         /\ Ideal!Access(q, ReadReg("TBL")) = [q EXCEPT !.last_read = Value(q.tb.cnt)]
         /\ Ideal!Access(q, ReadReg("CRA")) = [q EXCEPT !.last_read = Control(q.cra, q.ta)]
         /\ Ideal!Access(q, ReadReg("CRB")) = [q EXCEPT !.last_read = Control(q.crb, q.tb)]
         /\ Ideal!Access(q, ReadReg("ICR")) = Ideal!ReadFlags(q)
<1>1. \A reg : Ideal!Access(q, ReadReg(reg)) = Ideal!Read(q, reg)
  BY DEF Ideal!Access, ReadReg
<1>2. \A reg, t : Control(reg, t) = Ideal!Byte((reg \ {"START"}) \cup Ideal!Running(t))
  <2>1. \A t : Ideal!Running(t) = t.state \cap {"START"}
    BY IdealBus DEF Ideal!Running, Given
  <2> QED BY <2>1, IdealBus DEF Control
<1> QED BY <1>1, <1>2, IdealBus DEF Ideal!Read

LEMMA BytesRead ==
  ASSUME NEW p \in Plain, NEW reg \in SUBSET ControlBits
  PROVE  Value(p.cnt) \in IdealBytes /\ Control(reg, p) \in IdealBytes
<1>1. p.cnt \in Nat /\ {} \in SUBSET (Flags \cup ControlBits)
  BY DEF Plain
<1>2. (reg \ {"START"}) \cup (p.state \cap {"START"}) \in SUBSET (Flags \cup ControlBits)
  BY DEF ControlBits
<1> QED BY <1>1, <1>2 DEF Value, Control, Byte, IdealBytes

LEMMA ReadAGoes ==
  ASSUME NEW now \in 0..LastClk, NEW R, NEW c, Sound(c, now, R), Ready(c, now), NEW q,
         NEW reg \in {"TAL", "CRA"}
  PROVE  LET f == Access(c, ReadReg(reg), now)
             e == Ideal!Access(q, ReadReg(reg)) IN
         Accessed(c, f, now, q, e)
<1> DEFINE d == UpdateTA(c, now)
           x == IF reg = "TAL" THEN Value(d.ta.cnt) ELSE Control(d.cra, d.ta)
           y == IF reg = "TAL" THEN Value(q.ta.cnt) ELSE Control(q.cra, q.ta)
           f == Access(c, ReadReg(reg), now)
           e == Ideal!Access(q, ReadReg(reg))
<1>1. f = [d EXCEPT !.last_read = x]
  BY DEF Access, ReadReg, Read, ReadA
<1>2. e = [q EXCEPT !.last_read = y]
  BY IdealReads
<1>3. /\ Sound(d, now, R) /\ Ready(d, now) /\ d.ta.clk = now
      /\ Joined(c, now, q) <=> Joined(d, now, q)
  BY UpToDateA
<1>4. ASSUME Joined(d, now, q) PROVE x = y /\ y \in IdealBytes
  <2>1. d \in Shapes(now, R) /\ now \in Nat
    BY <1>3, ClkInNat DEF Sound
  <2>2. /\ q.ta \in Plain /\ q.ta.cnt = d.ta.cnt
        /\ "START" \in q.ta.state <=> "START" \in d.ta.state
        /\ q.cra = d.cra /\ q.cra \in SUBSET ControlBits
    BY <1>3, <1>4, <2>1, JoinedA
  <2>3. q.ta.state \cap {"START"} = d.ta.state \cap {"START"}
    BY <2>2
  <2>4. Control(q.cra, q.ta) = Control(d.cra, d.ta)
    BY <2>2, <2>3 DEF Control
  <2> QED BY <2>2, <2>4, BytesRead
<1> HIDE DEF d, x, y, f, e
<1>5. /\ Ready(f, now + 1) /\ Past(f, now)
      /\ Joined(d, now, q) => Joined(f, now, e)
      /\ f.last_read = x
      /\ Joined(d, now, q) => e.last_read = y
  <2>1. Sound(d, now, R) /\ Ready(d, now) /\ now \in 0..LastClk
        /\ (Joined(d, now, q) => y \in IdealBytes)
    BY <1>3, <1>4
  <2>2. LET g == [d EXCEPT !.last_read = x]
            h == [q EXCEPT !.last_read = y] IN
        /\ Ready(g, now + 1) /\ Past(g, now) /\ (Still(d) => Still(g))
        /\ Joined(d, now, q) => Joined(g, now, h)
        /\ g.last_read = x
        /\ Joined(d, now, q) => h.last_read = y
    BY ONLY <2>1, WithByte
  <2> QED BY <1>1, <1>2, <2>2
<1>6. Accessed(c, f, now, q, e)
  BY <1>3, <1>4, <1>5 DEF Accessed, SameByte
<1> QED BY <1>6 DEF f, e

LEMMA ReadBGoes ==
  ASSUME NEW now \in 0..LastClk, NEW R, NEW c, Sound(c, now, R), Ready(c, now), NEW q,
         NEW reg \in {"TBL", "CRB"}
  PROVE  LET f == Access(c, ReadReg(reg), now)
             e == Ideal!Access(q, ReadReg(reg)) IN
         Accessed(c, f, now, q, e)
<1> DEFINE d == UpdateTB(c, now)
           x == IF reg = "TBL" THEN Value(d.tb.cnt) ELSE Control(d.crb, d.tb)
           y == IF reg = "TBL" THEN Value(q.tb.cnt) ELSE Control(q.crb, q.tb)
           f == Access(c, ReadReg(reg), now)
           e == Ideal!Access(q, ReadReg(reg))
<1>1. f = [d EXCEPT !.last_read = x]
  BY DEF Access, ReadReg, Read, ReadB
<1>2. e = [q EXCEPT !.last_read = y]
  BY IdealReads
<1>3. /\ Sound(d, now, R) /\ Ready(d, now) /\ d.tb.clk = now /\ now \notin StepsB(d)
      /\ Joined(c, now, q) <=> Joined(d, now, q)
  BY UpToDateB
<1>4. ASSUME Joined(d, now, q) PROVE x = y /\ y \in IdealBytes
  <2>1. d \in Shapes(now, R) /\ now \in Nat
    BY <1>3, ClkInNat DEF Sound
  <2>2. /\ q.tb \in Plain /\ q.tb.cnt = d.tb.cnt
        /\ "START" \in q.tb.state <=> "START" \in d.tb.state
        /\ q.crb = d.crb /\ q.crb \in SUBSET ControlBits
    BY <1>3, <1>4, <2>1, JoinedB
  <2>3. q.tb.state \cap {"START"} = d.tb.state \cap {"START"}
    BY <2>2
  <2>4. Control(q.crb, q.tb) = Control(d.crb, d.tb)
    BY <2>2, <2>3 DEF Control
  <2> QED BY <2>2, <2>4, BytesRead
<1> HIDE DEF d, x, y, f, e
<1>5. /\ Ready(f, now + 1) /\ Past(f, now)
      /\ Joined(d, now, q) => Joined(f, now, e)
      /\ f.last_read = x
      /\ Joined(d, now, q) => e.last_read = y
  <2>1. Sound(d, now, R) /\ Ready(d, now) /\ now \in 0..LastClk
        /\ (Joined(d, now, q) => y \in IdealBytes)
    BY <1>3, <1>4
  <2>2. LET g == [d EXCEPT !.last_read = x]
            h == [q EXCEPT !.last_read = y] IN
        /\ Ready(g, now + 1) /\ Past(g, now) /\ (Still(d) => Still(g))
        /\ Joined(d, now, q) => Joined(g, now, h)
        /\ g.last_read = x
        /\ Joined(d, now, q) => h.last_read = y
    BY ONLY <2>1, WithByte
  <2> QED BY <1>1, <1>2, <2>2
<1>6. Accessed(c, f, now, q, e)
  BY <1>3, <1>4, <1>5 DEF Accessed, SameByte
<1> QED BY <1>6 DEF f, e

-----------------------------------------------------------------------------
(* Stores to a timer that has been replayed leave the chip ready.          *)
LEMMA StoreAReady ==
  ASSUME NEW now \in 0..LastClk, now + 1 \in 0..LastClk, NEW R, NEW d, Sound(d, now, R),
         Ready(d, now), d.ta.clk = now, NEW x, NEW t, NEW ctl, Held(t, ctl, now + 1),
         t.clk = now, "STEP" \notin t.state
  PROVE  LET f == [d EXCEPT !.ta = t, !.cra = x] IN Ready(f, now + 1) /\ Past(f, now)
<1> DEFINE f == [d EXCEPT !.ta = t, !.cra = x]
<1>1. /\ Aged(d) /\ d \in Shapes(now, R) /\ now \in Nat /\ d.rdi \in 0..now /\ d.tb.clk \in Nat
      /\ d.tb.clk <= now /\ d.rdi # now
  BY ReadyIs DEF Past
<1>2. /\ f.ta = t /\ f.tb = d.tb /\ f.mask = d.mask /\ f.irqflags = d.irqflags
      /\ f.crb = d.crb /\ f.rdi = d.rdi /\ f.line = d.line
  BY <1>1 DEF Shapes
<1>3. Upcoming(t) \in Int /\ Upcoming(t) > now
  BY HeldLies
<1> HIDE DEF f
<1>4. Fit(f, now + 1)
  BY <1>1, <1>2 DEF Ready, Trim, Fit, Aged
<1>5. Follows(f) /\ PausedBy(f.tb, f.ta.clk)
  BY <1>1, <1>2, <1>3 DEF Follows, PausedBy
<1>6. Lit(f)
  BY <1>2 DEF Ready, Lit
<1> QED BY <1>1, <1>2, <1>4, <1>5, <1>6 DEF Ready, Trim, Past, f

LEMMA StoreBReady ==
  ASSUME NEW now \in 0..LastClk, now + 1 \in 0..LastClk, NEW R, NEW d, Sound(d, now, R),
         Ready(d, now), d.tb.clk = now, CountsTA(d) => d.ta.clk = now,
         NEW t, NEW ctl, Held(t, ctl, now + 1), t.clk = now, StepIsLive(t),
         t.state = d.tb.state
  PROVE  LET f == [d EXCEPT !.tb = t] IN Ready(f, now + 1) /\ Past(f, now)
<1> DEFINE f == [d EXCEPT !.tb = t]
<1>1. /\ Aged(d) /\ d \in Shapes(now, R) /\ now \in Nat /\ d.rdi \in 0..now /\ d.ta.clk \in Nat
      /\ d.ta.clk <= now /\ d.rdi # now /\ Held(d.ta, d.cra, now)
  BY ReadyIs DEF Past
<1>2. /\ f.tb = t /\ f.ta = d.ta /\ f.mask = d.mask /\ f.irqflags = d.irqflags
      /\ f.crb = d.crb /\ f.rdi = d.rdi /\ f.line = d.line
  BY <1>1 DEF Shapes
<1>3. Upcoming(d.ta) \in Int /\ Upcoming(d.ta) > d.ta.clk
  BY <1>1, HeldLies
<1> HIDE DEF f
<1>4. Fit(f, now + 1)
  BY <1>1, <1>2 DEF Ready, Trim, Fit, Aged
<1>5. Follows(f) /\ PausedBy(f.tb, f.ta.clk)
  <2>1. PausedBy(d.tb, d.ta.clk)
    BY DEF Ready, Trim
  <2> QED BY <1>1, <1>2, <1>3, <2>1 DEF Follows, PausedBy, CountsTA
<1>6. Lit(f)
  BY <1>2 DEF Ready, Lit
<1> QED BY <1>1, <1>2, <1>4, <1>5, <1>6 DEF Ready, Trim, Past, f

-----------------------------------------------------------------------------
(* Stores to the latches.                                                  *)
Latched(t, reg, byte) == IF reg \in {"TAL", "TBL"} THEN WithLatchLo(t, byte)
                                                   ELSE WithLatchHi(t)

LEMMA IdealLatched ==
  ASSUME NEW q, NEW byte
  PROVE  /\ \A reg \in {"TAL", "TAH"} :
              Ideal!Access(q, WriteReg(reg, byte)) = [q EXCEPT !.ta = Latched(q.ta, reg, byte)]
         /\ \A reg \in {"TBL", "TBH"} :
              Ideal!Access(q, WriteReg(reg, byte)) = [q EXCEPT !.tb = Latched(q.tb, reg, byte)]
<1>1. \A reg : Ideal!Access(q, WriteReg(reg, byte)) = Ideal!Write(q, reg, byte)
  BY DEF Ideal!Access, WriteReg
<1>2. /\ Ideal!Timers!WithLatchLo(q.ta, byte) = WithLatchLo(q.ta, byte)
      /\ Ideal!Timers!WithLatchLo(q.tb, byte) = WithLatchLo(q.tb, byte)
      /\ Ideal!Timers!WithLatchHi(q.ta) = WithLatchHi(q.ta)
      /\ Ideal!Timers!WithLatchHi(q.tb) = WithLatchHi(q.tb)
  BY IdealTimers
<1> QED BY <1>1, <1>2 DEF Ideal!Write, Latched

LEMMA LatchedIs ==
  ASSUME NEW now \in 0..LastClk, now + 1 \in 0..LastClk, NEW t, NEW ctl, Held(t, ctl, now),
         t.clk = now, NEW reg \in {"TAL", "TAH", "TBL", "TBH"}, NEW byte,
         reg \in {"TAL", "TBL"} => byte \in 0..MaxLatch
  PROVE  LET s == WriteTimer(t, reg, byte) IN
         /\ Held(s, ctl, now + 1) /\ s.clk = now /\ s.state = t.state /\ s \in Timer
         /\ \A p \in Plain : Core(p) = Core(t) =>
              /\ Latched(p, reg, byte) \in Plain /\ Latched(p, reg, byte).state = p.state
              /\ Core(Latched(p, reg, byte)) = Core(s)
<1> DEFINE w == Latched(t, reg, byte)
<1>1. t \in Timer
  BY HeldIsNear
<1>2. Held(w, ctl, now + 1)
  BY LatchLoHolds, LatchHiHolds DEF Latched
<1>3. w.clk = now /\ w.state = t.state
  BY <1>1 DEF Latched, WithLatchLo, WithLatchHi, Timer
<1>4. WriteTimer(t, reg, byte) = SetAlarm(w)
  BY DEF WriteTimer, Latched
<1>5. ASSUME NEW p \in Plain, Core(p) = Core(t)
      PROVE  /\ Latched(p, reg, byte) \in Plain /\ Latched(p, reg, byte).state = p.state
             /\ Core(Latched(p, reg, byte)) = Core(w)
  <2>1. CASE reg \in {"TAL", "TBL"}
    <3>1. byte \in Nat
      BY <2>1 DEF CiaBusAssumption
    <3> QED BY <1>1, <1>5, <2>1, <3>1, PlainLatches DEF Latched
  <2>2. CASE reg \notin {"TAL", "TBL"}
    <3>1. 0 \in Nat
      OBVIOUS
    <3> QED BY <1>1, <1>5, <2>2, <3>1, PlainLatches DEF Latched
  <2> QED BY <2>1, <2>2
<1> HIDE DEF w
<1> QED BY <1>2, <1>3, <1>4, <1>5, SetAlarmIs

LEMMA WriteTAGoes ==
  ASSUME NEW now \in 0..LastClk, now + 1 \in 0..LastClk, NEW R, NEW c, Sound(c, now, R),
         Ready(c, now), NEW q, NEW reg \in {"TAL", "TAH"}, NEW byte,
         reg = "TAL" => byte \in 0..MaxLatch
  PROVE  LET f == Access(c, WriteReg(reg, byte), now)
             e == Ideal!Access(q, WriteReg(reg, byte)) IN
         Accessed(c, f, now, q, e)
<1> DEFINE d == UpdateTA(c, now)
           s == WriteTimer(d.ta, reg, byte)
           p == Latched(q.ta, reg, byte)
           f == Access(c, WriteReg(reg, byte), now)
           e == Ideal!Access(q, WriteReg(reg, byte))
<1>1. f = [d EXCEPT !.ta = s]
  BY DEF Access, Written, WriteReg, Write
<1>2. e = [q EXCEPT !.ta = p]
  BY IdealLatched
<1>3. /\ Sound(d, now, R) /\ Ready(d, now) /\ d.ta.clk = now /\ d.last_read = c.last_read
      /\ Joined(c, now, q) <=> Joined(d, now, q)
  BY UpToDateA
<1> HIDE DEF d
<1>4. /\ Aged(d) /\ Past(d, now) /\ d \in Shapes(now, R) /\ d.rdi \in 0..now /\ d.rdi # now
      /\ Held(d.ta, d.cra, now) /\ now \in Nat /\ "STEP" \notin d.ta.state
  BY <1>3, ReadyIs
<1>5. /\ Held(s, d.cra, now + 1) /\ s.clk = now /\ s.state = d.ta.state /\ s \in Timer
      /\ \A r \in Plain : Core(r) = Core(d.ta) =>
              /\ Latched(r, reg, byte) \in Plain /\ Latched(r, reg, byte).state = r.state
              /\ Core(Latched(r, reg, byte)) = Core(s)
  BY <1>3, <1>4, LatchedIs
<1>6. f = [d EXCEPT !.ta = s, !.cra = d.cra] /\ d.cra \in SUBSET ControlBits
  BY <1>1, <1>4 DEF Shapes
<1> HIDE DEF s, p, f, e
<1>7. Ready(f, now + 1) /\ Past(f, now)
  BY <1>3, <1>4, <1>5, <1>6, StoreAReady
<1>8. ASSUME Joined(d, now, q) PROVE Joined(f, now, e)
  <2>1. q.ta \in Plain /\ Core(q.ta) = Core(d.ta) /\ q.cra = d.cra
    BY <1>3, <1>4, <1>8, JoinedA
  <2>2. p \in Plain /\ Core(p) = Core(s) /\ "STEP" \notin p.state
    BY <1>5, <1>8, <2>1 DEF Joined, Live, p
  <2>3. e = [q EXCEPT !.ta = p, !.cra = d.cra]
    BY <1>2, <1>8, <2>1 DEF Joined, IdealChips
  <2>4. d.rdi \in Nat /\ d.rdi < now /\ d.tb.clk <= now
    BY <1>4 DEF Past
  <2>5. Joined([d EXCEPT !.ta = s, !.cra = d.cra], now, [q EXCEPT !.ta = p, !.cra = d.cra])
    BY <1>3, <1>4, <1>5, <1>6, <1>8, <2>2, <2>4, StoreATracks
  <2> QED BY <1>6, <2>3, <2>5
<1>9. f.last_read = d.last_read /\ (Joined(d, now, q) => e.last_read = q.last_read)
  BY <1>1, <1>2, <1>4 DEF Shapes, Joined, IdealChips
<1>10. Accessed(c, f, now, q, e)
  BY <1>3, <1>7, <1>8, <1>9 DEF Accessed, SameByte
<1> QED BY <1>10 DEF f, e

LEMMA WriteTBGoes ==
  ASSUME NEW now \in 0..LastClk, now + 1 \in 0..LastClk, NEW R, NEW c, Sound(c, now, R),
         Ready(c, now), NEW q, NEW reg \in {"TBL", "TBH"}, NEW byte,
         reg = "TBL" => byte \in 0..MaxLatch
  PROVE  LET f == Access(c, WriteReg(reg, byte), now)
             e == Ideal!Access(q, WriteReg(reg, byte)) IN
         Accessed(c, f, now, q, e)
<1> DEFINE d == UpdateTB(c, now)
           s == WriteTimer(d.tb, reg, byte)
           p == Latched(q.tb, reg, byte)
           f == Access(c, WriteReg(reg, byte), now)
           e == Ideal!Access(q, WriteReg(reg, byte))
<1>1. f = [d EXCEPT !.tb = s]
  BY DEF Access, Written, WriteReg, Write
<1>2. e = [q EXCEPT !.tb = p]
  BY IdealLatched
<1>3. /\ Sound(d, now, R) /\ Ready(d, now) /\ d.tb.clk = now /\ d.last_read = c.last_read
      /\ (CountsTA(d) => d.ta.clk = now) /\ now \notin StepsB(d)
      /\ Joined(c, now, q) <=> Joined(d, now, q)
  BY UpToDateB
<1> HIDE DEF d
<1>4. /\ Past(d, now) /\ d \in Shapes(now, R) /\ StepIsLive(d.tb)
      /\ Held(d.tb, InputB(d.crb), now) /\ now \in Nat
  BY <1>3, ReadyIs
<1>5. /\ Held(s, InputB(d.crb), now + 1) /\ s.clk = now /\ s.state = d.tb.state /\ s \in Timer
      /\ \A r \in Plain : Core(r) = Core(d.tb) =>
              /\ Latched(r, reg, byte) \in Plain /\ Latched(r, reg, byte).state = r.state
              /\ Core(Latched(r, reg, byte)) = Core(s)
  BY <1>3, <1>4, LatchedIs
<1> HIDE DEF s, p, f, e
<1>6. StepIsLive(s)
  BY <1>4, <1>5 DEF StepIsLive
<1>7. Ready(f, now + 1) /\ Past(f, now)
  BY <1>1, <1>3, <1>4, <1>5, <1>6, StoreBReady
<1>8. ASSUME Joined(d, now, q) PROVE Joined(f, now, e)
  <2>1. q.tb \in Plain /\ Core(q.tb) = Core(d.tb)
    BY <1>3, <1>4, <1>8, JoinedB
  <2>2. p \in Plain /\ Core(p) = Core(s) /\ p.state = q.tb.state
    BY <1>5, <2>1 DEF p
  <2>3. StepIsLive(p) /\ ("COUNTTA" \in q.crb => "PHI2IN" \notin p.state)
    BY <1>8, <2>2 DEF Joined, Live, StepIsLive
  <2>4. d.ta.clk <= now
    BY <1>4 DEF Past
  <2>5. Joined([d EXCEPT !.tb = s], now, [q EXCEPT !.tb = p])
    BY <1>3, <1>4, <1>5, <1>8, <2>2, <2>3, <2>4, StoreBTracks
  <2> QED BY <1>1, <1>2, <2>5
<1>9. f.last_read = d.last_read /\ (Joined(d, now, q) => e.last_read = q.last_read)
  BY <1>1, <1>2, <1>4 DEF Shapes, Joined, IdealChips
<1>10. Accessed(c, f, now, q, e)
  BY <1>3, <1>7, <1>8, <1>9 DEF Accessed, SameByte
<1> QED BY <1>10 DEF f, e

-----------------------------------------------------------------------------
(* A timer that is started has not underflown since it was replayed: its   *)
(* output can be set before the replay.                                    *)
LEMMA StillCounts ==
  ASSUME NEW now \in 0..LastClk, NEW R, NEW c, Sound(c, now, R), Still(c)
  PROVE  /\ "START" \notin c.cra => CountNow(c.ta, {}, now) = 0
         /\ "START" \notin c.crb => CountNow(c.tb, StepsB(c), now) = 0
<1>1. Held(c.ta, c.cra, now) /\ Held(c.tb, InputB(c.crb), now)
  BY DEF Sound, SideA, SideB
<1>2. ASSUME "START" \notin c.cra PROVE CountNow(c.ta, {}, now) = 0
  <2>1. Upcoming(c.ta) = ClockMax
    BY <1>2 DEF Still, Sound, SideA, WantedA
  <2>2. \A j \in {} : j >= now
    OBVIOUS
  <2> QED BY ONLY <1>1, <2>1, <2>2, FirstCounts, now \in 0..LastClk
<1>3. ASSUME "START" \notin c.crb PROVE CountNow(c.tb, StepsB(c), now) = 0
  <2>1. Upcoming(c.tb) = ClockMax
    BY <1>3 DEF Still, Sound, SideB, WantedB
  <2>2. StepsB(c) = {}
    BY <1>3 DEF StepsB, CountsTA
  <2>3. \A j \in {} : j >= now
    OBVIOUS
  <2>4. CountNow(c.tb, {}, now) = 0
    BY ONLY <1>1, <2>1, <2>3, FirstCounts, now \in 0..LastClk
  <2> QED BY <2>2, <2>4
<1> QED BY <1>2, <1>3

LEMMA ToggleA ==
  ASSUME NEW now \in 0..LastClk, NEW R, NEW c, Sound(c, now, R), Ready(c, now),
         NEW byte, NEW q
  PROVE  LET d == [c EXCEPT !.tat = IF Starts(byte, c.cra) THEN 1 ELSE c.tat]
             r == [q EXCEPT !.tat = IF Starts(byte, q.cra) THEN 1 ELSE q.tat] IN
         /\ Sound(d, now, R) /\ Ready(d, now) /\ SameControl(c, d) /\ d.last_read = c.last_read
         /\ Still(c) /\ Joined(c, now, q) => Joined(d, now, r) /\ r.last_read = q.last_read
<1> DEFINE x == IF Starts(byte, c.cra) THEN 1 ELSE c.tat
           y == IF Starts(byte, q.cra) THEN 1 ELSE q.tat
           d == [c EXCEPT !.tat = x]
           r == [q EXCEPT !.tat = y]
<1>1. /\ d.model = c.model /\ d.ta = c.ta /\ d.tb = c.tb /\ d.mask = c.mask
      /\ d.irqflags = c.irqflags /\ d.cra = c.cra /\ d.crb = c.crb /\ d.tat = x
      /\ d.tbt = c.tbt /\ d.rdi = c.rdi /\ d.line = c.line /\ d.last_read = c.last_read
      /\ d \in Shapes(now, R)
  BY DEF Sound, Shapes
<1> HIDE DEF d
<1>2. SideA(d, now) /\ SideB(d, now)
  BY <1>1 DEF Sound, SideA, SideB, WantedA, WantedB, NeededA, NeededB
<1>3. Ready(d, now)
  BY <1>1 DEF Ready, Trim, Fit, Aged, Follows, CountsTA, Lit
<1>4. StepsB(d) = StepsB(c)
  BY <1>1 DEF StepsB, CountsTA
<1>5. ASSUME Still(c), Joined(c, now, q) PROVE Joined(d, now, r) /\ r.last_read = q.last_read
  <2>1. /\ r \in IdealChips /\ r.ta = q.ta /\ r.cra = q.cra /\ r.tb = q.tb /\ r.model = q.model
        /\ r.mask = q.mask /\ r.crb = q.crb /\ r.tat = y /\ r.tbt = q.tbt
        /\ r.age = q.age /\ r.int_in = q.int_in /\ r.flags = q.flags
        /\ r.last_read = q.last_read
    BY <1>5 DEF Joined, IdealChips
  <2> HIDE DEF r
  <2> DEFINE W == StepsB(c)
             n == CountNow(c.ta, {}, now)
  <2>2. /\ TracksA(c, now, q) /\ TracksB(c, W, now, q) /\ TracksRest(c, now, q)
        /\ q.int_in # -1 <=> Asserted(c, W, now)
    BY <1>5 DEF Joined, Tracks
  <2>3. y = (x + n) % 2
    <3>1. q.tat = (c.tat + n) % 2 /\ q.cra = c.cra
      BY <2>2 DEF TracksA, TracksRest
    <3>2. CASE Starts(byte, c.cra)
      <4>1. n = 0
        BY <1>5, <3>2, StillCounts DEF Starts
      <4> HIDE DEF n
      <4> QED BY <3>1, <3>2, <4>1
    <3>3. CASE ~Starts(byte, c.cra)
      BY <3>1, <3>3
    <3> QED BY <3>2, <3>3
  <2> HIDE DEF W, x, y
  <2>4. TracksA(d, now, r)
    BY <1>1, <2>1, <2>2, <2>3 DEF TracksA, FlagA
  <2>5. Asserted(d, W, now) <=> Asserted(c, W, now)
    BY <1>1 DEF Asserted
  <2>6. FlagsB(d, W, now) = FlagsB(c, W, now)
    <3>1. Lone(d, W, now) <=> Lone(c, W, now)
      BY <1>1 DEF Lone
    <3>2. Given(Lone(d, W, now), {"TBB"}) = Given(Lone(c, W, now), {"TBB"})
      BY <3>1 DEF Given
    <3> QED BY <1>1, <3>2 DEF FlagsB
  <2>7. ShownB(d, W, now) = ShownB(c, W, now)
    BY <2>5, <2>6, ShownAlike
  <2>8. TracksB(d, W, now, r) /\ TracksRest(d, now, r)
    BY <1>1, <2>1, <2>2, <2>7 DEF TracksB, TracksRest
  <2>9. Tracks(d, now, r)
    BY <1>4, <2>1, <2>2, <2>4, <2>5, <2>8 DEF Tracks, W
  <2> QED BY <1>5, <2>1, <2>9 DEF Joined, Live
<1> QED BY <1>1, <1>2, <1>3, <1>5 DEF Sound, SameControl, d

LEMMA ToggleB ==
  ASSUME NEW now \in 0..LastClk, NEW R, NEW c, Sound(c, now, R), Ready(c, now),
         NEW byte, NEW q
  PROVE  LET d == [c EXCEPT !.tbt = IF Starts(byte, c.crb) THEN 1 ELSE c.tbt]
             r == [q EXCEPT !.tbt = IF Starts(byte, q.crb) THEN 1 ELSE q.tbt] IN
         /\ Sound(d, now, R) /\ Ready(d, now) /\ SameControl(c, d) /\ d.last_read = c.last_read
         /\ Still(c) /\ Joined(c, now, q) => Joined(d, now, r) /\ r.last_read = q.last_read
<1> DEFINE x == IF Starts(byte, c.crb) THEN 1 ELSE c.tbt
           y == IF Starts(byte, q.crb) THEN 1 ELSE q.tbt
           d == [c EXCEPT !.tbt = x]
           r == [q EXCEPT !.tbt = y]
<1>1. /\ d.model = c.model /\ d.ta = c.ta /\ d.tb = c.tb /\ d.mask = c.mask
      /\ d.irqflags = c.irqflags /\ d.cra = c.cra /\ d.crb = c.crb /\ d.tat = c.tat
      /\ d.tbt = x /\ d.rdi = c.rdi /\ d.line = c.line /\ d.last_read = c.last_read
      /\ d \in Shapes(now, R)
  BY DEF Sound, Shapes
<1> HIDE DEF d
<1>2. SideA(d, now) /\ SideB(d, now)
  BY <1>1 DEF Sound, SideA, SideB, WantedA, WantedB, NeededA, NeededB
<1>3. Ready(d, now)
  BY <1>1 DEF Ready, Trim, Fit, Aged, Follows, CountsTA, Lit
<1>4. StepsB(d) = StepsB(c)
  BY <1>1 DEF StepsB, CountsTA
<1>5. ASSUME Still(c), Joined(c, now, q) PROVE Joined(d, now, r) /\ r.last_read = q.last_read
  <2>1. /\ r \in IdealChips /\ r.ta = q.ta /\ r.cra = q.cra /\ r.tb = q.tb /\ r.model = q.model
        /\ r.mask = q.mask /\ r.crb = q.crb /\ r.tat = q.tat /\ r.tbt = y
        /\ r.age = q.age /\ r.int_in = q.int_in /\ r.flags = q.flags
        /\ r.last_read = q.last_read
    BY <1>5 DEF Joined, IdealChips
  <2> HIDE DEF r
  <2> DEFINE W == StepsB(c)
             n == CountNow(c.tb, W, now)
  <2>2. /\ TracksA(c, now, q) /\ TracksB(c, W, now, q) /\ TracksRest(c, now, q)
        /\ q.int_in # -1 <=> Asserted(c, W, now)
    BY <1>5 DEF Joined, Tracks
  <2>3. y = (x + n) % 2
    <3>1. q.tbt = (c.tbt + n) % 2 /\ q.crb = c.crb
      BY <2>2 DEF TracksB, TracksRest
    <3>2. CASE Starts(byte, c.crb)
      <4>1. n = 0
        BY <1>5, <3>2, StillCounts DEF Starts
      <4> HIDE DEF n
      <4> QED BY <3>1, <3>2, <4>1
    <3>3. CASE ~Starts(byte, c.crb)
      BY <3>1, <3>3
    <3> QED BY <3>2, <3>3
  <2> HIDE DEF W, x, y
  <2>4. TracksA(d, now, r)
    BY <1>1, <2>1, <2>2 DEF TracksA, FlagA
  <2>5. Asserted(d, W, now) <=> Asserted(c, W, now)
    BY <1>1 DEF Asserted
  <2>6. FlagsB(d, W, now) = FlagsB(c, W, now)
    <3>1. Lone(d, W, now) <=> Lone(c, W, now)
      BY <1>1 DEF Lone
    <3>2. Given(Lone(d, W, now), {"TBB"}) = Given(Lone(c, W, now), {"TBB"})
      BY <3>1 DEF Given
    <3> QED BY <1>1, <3>2 DEF FlagsB
  <2>7. ShownB(d, W, now) = ShownB(c, W, now)
    BY <2>5, <2>6, ShownAlike
  <2>8. TracksB(d, W, now, r) /\ TracksRest(d, now, r)
    BY <1>1, <2>1, <2>2, <2>3, <2>7 DEF TracksB, TracksRest
  <2>9. Tracks(d, now, r)
    BY <1>4, <2>1, <2>2, <2>4, <2>5, <2>8 DEF Tracks, W
  <2> QED BY <1>5, <2>1, <2>9 DEF Joined, Live
<1> QED BY <1>1, <1>2, <1>3, <1>5 DEF Sound, SameControl, d

-----------------------------------------------------------------------------
(* The stores to the control registers.                                    *)
LEMMA IdealControls ==
  ASSUME NEW q, NEW byte
  PROVE  /\ Ideal!Access(q, WriteReg("CRA", byte)) =
              [q EXCEPT !.ta = WithControl(q.ta, byte), !.cra = byte \ {"FLOAD"},
                        !.tat = IF Starts(byte, q.cra) THEN 1 ELSE q.tat]
         /\ Ideal!Access(q, WriteReg("CRB", byte)) =
              [q EXCEPT !.tb = WithControl(q.tb, InputB(byte)), !.crb = byte \ {"FLOAD"},
                        !.tbt = IF Starts(byte, q.crb) THEN 1 ELSE q.tbt]
<1>1. \A reg : Ideal!Access(q, WriteReg(reg, byte)) = Ideal!Write(q, reg, byte)
  BY DEF Ideal!Access, WriteReg
<1>2. Ideal!InputB(byte) = InputB(byte)
  BY DEF Ideal!InputB, InputB
<1>3. /\ Ideal!Timers!WithControl(q.ta, byte) = WithControl(q.ta, byte)
      /\ Ideal!Timers!WithControl(q.tb, InputB(byte)) = WithControl(q.tb, InputB(byte))
  BY IdealTimers
<1>4. Ideal!Write(q, "CRA", byte) =
        [q EXCEPT !.ta = Ideal!Timers!WithControl(q.ta, byte), !.cra = byte \ {"FLOAD"},
                  !.tat = IF Ideal!Starts(byte, q.cra) THEN 1 ELSE q.tat]
  BY DEF Ideal!Write
<1>5. Ideal!Write(q, "CRB", byte) =
        [q EXCEPT !.tb = Ideal!Timers!WithControl(q.tb, Ideal!InputB(byte)),
                  !.crb = byte \ {"FLOAD"},
                  !.tbt = IF Ideal!Starts(byte, q.crb) THEN 1 ELSE q.tbt]
  BY DEF Ideal!Write
<1>6. Ideal!Starts(byte, q.cra) = Starts(byte, q.cra)
      /\ Ideal!Starts(byte, q.crb) = Starts(byte, q.crb)
  BY IdealBus
<1>7. Ideal!Access(q, WriteReg("CRA", byte)) =
        [q EXCEPT !.ta = WithControl(q.ta, byte), !.cra = byte \ {"FLOAD"},
                  !.tat = IF Starts(byte, q.cra) THEN 1 ELSE q.tat]
  BY ONLY <1>1, <1>3, <1>4, <1>6
<1>8. Ideal!Access(q, WriteReg("CRB", byte)) =
        [q EXCEPT !.tb = WithControl(q.tb, InputB(byte)), !.crb = byte \ {"FLOAD"},
                  !.tbt = IF Starts(byte, q.crb) THEN 1 ELSE q.tbt]
  <2>1. Ideal!Timers!WithControl(q.tb, Ideal!InputB(byte)) = WithControl(q.tb, InputB(byte))
    BY ONLY <1>2, <1>3
  <2> QED BY ONLY <1>1, <1>5, <1>6, <2>1
<1> QED BY ONLY <1>7, <1>8

LEMMA WithControlIs ==
  ASSUME NEW now \in 0..LastClk, now + 1 \in 0..LastClk, NEW t, NEW old, Held(t, old, now),
         t.clk = now, StepIsLive(t), NEW byte, NEW ctl,
         "START" \in byte => "START" \in ctl,
         "CNT" \notin byte => "CNT" \notin ctl,
         "CR_ONESHOT" \in ctl => "CR_ONESHOT" \in byte
  PROVE  LET s == SetAlarm(WithControl(t, byte)) IN
         /\ Held(s, ctl, now + 1) /\ s.clk = now /\ s \in Timer
         /\ "STEP" \in s.state <=> "STEP" \in t.state
         /\ "STEP" \in t.state /\ "START" \in byte => StepIsLive(s)
         /\ \A p \in Plain : Core(p) = Core(t) /\ StepIsLive(p) =>
              LET r == WithControl(p, byte) IN
              /\ r \in Plain /\ Core(r) = Core(s)
              /\ "STEP" \in p.state <=> "STEP" \in t.state
              /\ "STEP" \in r.state <=> "STEP" \in p.state
              /\ "PHI2IN" \in r.state <=> "CNT" \notin byte
              /\ "STEP" \in p.state /\ "START" \in byte => StepIsLive(r)
<1> DEFINE w == WithControl(t, byte)
<1>1. t \in Timer
  BY HeldIsNear
<1>2. Held(w, ctl, now + 1)
  BY ControlHolds
<1>3. w.clk = now
  BY <1>1 DEF WithControl, Timer
<1>4. LET s == SetAlarm(w) IN
      /\ Held(s, ctl, now + 1) /\ s.clk = w.clk /\ s.state = w.state /\ s \in Timer
      /\ Core(s) = Core(w)
  BY <1>2, SetAlarmIs
<1>5. ASSUME NEW p \in Plain, Core(p) = Core(t), StepIsLive(p)
      PROVE  LET r == WithControl(p, byte) IN
             /\ r \in Plain /\ Core(r) = Core(w)
             /\ "STEP" \in r.state <=> "STEP" \in p.state
             /\ "STEP" \in w.state <=> "STEP" \in p.state
             /\ "STEP" \in t.state <=> "STEP" \in p.state
             /\ "PHI2IN" \in r.state <=> "CNT" \notin byte
             /\ "STEP" \in p.state /\ "START" \in byte => StepIsLive(r) /\ StepIsLive(w)
  <2> HIDE DEF w
  <2> QED BY <1>1, <1>5, PlainControl DEF w
<1>6. PICK p \in Plain : Core(p) = Core(t) /\ p.state = t.state
  <2> DEFINE p == [state |-> t.state, cnt |-> t.cnt, latch |-> t.latch]
  <2>1. p \in Plain /\ p.state = t.state
    BY <1>1 DEF Plain, Timer
  <2>2. Core(p) = Core(t)
    BY DEF Core
  <2> QED BY <2>1, <2>2
<1>7. StepIsLive(p)
  BY <1>6 DEF StepIsLive
<1>8. /\ "STEP" \in w.state <=> "STEP" \in t.state
      /\ "STEP" \in t.state /\ "START" \in byte => StepIsLive(w)
  BY <1>5, <1>6, <1>7
<1>9. StepIsLive(w) => StepIsLive(SetAlarm(w))
  BY <1>4 DEF StepIsLive
<1> HIDE DEF w
<1> QED BY <1>3, <1>4, <1>5, <1>8, <1>9 DEF w

LEMMA WriteCRAGoes ==
  ASSUME NEW now \in 0..LastClk, now + 1 \in 0..LastClk, NEW R, NEW c, Sound(c, now, R),
         Ready(c, now), NEW q, NEW byte \in SUBSET ControlBits
  PROVE  LET f == Access(c, WriteReg("CRA", byte), now)
             e == Ideal!Access(q, WriteReg("CRA", byte)) IN
         Accessed(c, f, now, q, e)
<1> DEFINE b == [c EXCEPT !.tat = IF Starts(byte, c.cra) THEN 1 ELSE c.tat]
           r == [q EXCEPT !.tat = IF Starts(byte, q.cra) THEN 1 ELSE q.tat]
           d == UpdateTA(b, now)
           x == byte \ {"FLOAD"}
           s == SetAlarm(WithControl(d.ta, byte))
           p == WithControl(q.ta, byte)
           f == Access(c, WriteReg("CRA", byte), now)
           e == Ideal!Access(q, WriteReg("CRA", byte))
<1>1. f = [d EXCEPT !.ta = s, !.cra = x]
  BY DEF Access, Written, WriteReg, Write, WriteCRA
<1>2. e = [q EXCEPT !.ta = p, !.cra = x, !.tat = IF Starts(byte, q.cra) THEN 1 ELSE q.tat]
  BY IdealControls
<1>3. /\ Sound(b, now, R) /\ Ready(b, now) /\ b.last_read = c.last_read
      /\ Still(c) /\ Joined(c, now, q) => Joined(b, now, r) /\ r.last_read = q.last_read
  <2>1. LET D == [c EXCEPT !.tat = IF Starts(byte, c.cra) THEN 1 ELSE c.tat]
            Q == [q EXCEPT !.tat = IF Starts(byte, q.cra) THEN 1 ELSE q.tat] IN
         /\ Sound(D, now, R) /\ Ready(D, now) /\ SameControl(c, D) /\ D.last_read = c.last_read
         /\ Still(c) /\ Joined(c, now, q) => Joined(D, now, Q) /\ Q.last_read = q.last_read
    <3> HIDE DEF b, r
    <3> QED BY ONLY now \in 0..LastClk, Sound(c, now, R), Ready(c, now), ToggleA
  <2> QED BY <2>1
<1> HIDE DEF b
<1>4. /\ Sound(d, now, R) /\ Ready(d, now) /\ d.ta.clk = now /\ d.last_read = b.last_read
      /\ Joined(b, now, r) <=> Joined(d, now, r)
  <2> HIDE DEF r
  <2> QED BY <1>3, UpToDateA
<1> HIDE DEF d
<1>5. /\ Past(d, now) /\ d \in Shapes(now, R) /\ d.rdi \in 0..now /\ d.rdi # now
      /\ Held(d.ta, d.cra, now) /\ now \in Nat /\ "STEP" \notin d.ta.state
  BY <1>4, ReadyIs
<1>6. StepIsLive(d.ta) /\ x \in SUBSET ControlBits
  BY <1>5 DEF StepIsLive
<1>7. /\ Held(s, x, now + 1) /\ s.clk = now /\ s \in Timer
      /\ "STEP" \in s.state <=> "STEP" \in d.ta.state
      /\ \A u \in Plain : Core(u) = Core(d.ta) /\ StepIsLive(u) =>
              LET z == WithControl(u, byte) IN
              /\ z \in Plain /\ Core(z) = Core(s)
              /\ "STEP" \in z.state <=> "STEP" \in u.state
  <2>1. /\ "START" \in byte => "START" \in x
        /\ "CNT" \notin byte => "CNT" \notin x
        /\ "CR_ONESHOT" \in x => "CR_ONESHOT" \in byte
    OBVIOUS
  <2> HIDE DEF x
  <2> QED BY <1>4, <1>5, <1>6, <2>1, WithControlIs
<1> HIDE DEF s, x
<1>8. Ready(f, now + 1) /\ Past(f, now)
  <2>1. "STEP" \notin s.state
    BY <1>5, <1>7
  <2>2. LET g == [d EXCEPT !.ta = s, !.cra = x] IN Ready(g, now + 1) /\ Past(g, now)
    BY ONLY now \in 0..LastClk, now + 1 \in 0..LastClk, <1>4, <1>7, <2>1, StoreAReady
  <2> QED BY <1>1, <2>2
<1>9. ASSUME Joined(d, now, r), Joined(c, now, q) PROVE Joined(f, now, e)
  <2>1. r.ta \in Plain /\ Core(r.ta) = Core(d.ta)
    <3> HIDE DEF r
    <3> QED BY <1>4, <1>5, <1>9, JoinedA
  <2>2. r.ta = q.ta /\ "STEP" \notin q.ta.state
    BY <1>9 DEF Joined, IdealChips, Live
  <2>3. p \in Plain /\ Core(p) = Core(s) /\ "STEP" \notin p.state
    BY <1>7, <2>1, <2>2 DEF StepIsLive
  <2>4. e = [r EXCEPT !.ta = p, !.cra = x]
    BY <1>2, <1>9 DEF Joined, IdealChips
  <2>5. d.rdi \in Nat /\ d.rdi < now /\ d.tb.clk <= now
    BY <1>5 DEF Past
  <2> HIDE DEF r, p
  <2>6. Joined([d EXCEPT !.ta = s, !.cra = x], now, [r EXCEPT !.ta = p, !.cra = x])
    BY <1>4, <1>5, <1>6, <1>7, <1>9, <2>3, <2>5, StoreATracks DEF x
  <2> QED BY <1>1, <2>4, <2>6
<1>10. f.last_read = d.last_read /\ (Joined(c, now, q) => e.last_read = q.last_read)
  BY <1>1, <1>2, <1>5 DEF Shapes, Joined, IdealChips
<1> HIDE DEF r, f, e
<1>11. Accessed(c, f, now, q, e)
  BY <1>3, <1>4, <1>8, <1>9, <1>10 DEF Accessed, SameByte
<1> QED BY <1>11 DEF f, e

-----------------------------------------------------------------------------
LEMMA StoreCRBReady ==
  ASSUME NEW now \in 0..LastClk, NEW R, NEW d, Sound(d, now, R), Ready(d, now), Rests(d, now),
         NEW x, NEW s, s.clk = now, StepIsLive(s),
         NEW t, t.clk = now, t.state = d.ta.state, Upcoming(t) \in Int, Upcoming(t) > now
  PROVE  LET f == [d EXCEPT !.ta = t, !.tb = s, !.crb = x] IN Ready(f, now + 1) /\ Past(f, now)
<1> DEFINE f == [d EXCEPT !.ta = t, !.tb = s, !.crb = x]
<1>1. /\ Aged(d) /\ d \in Shapes(now, R) /\ now \in Nat /\ d.rdi \in 0..now
      /\ d.rdi # now /\ "STEP" \notin d.ta.state
  BY ReadyIs
<1>2. /\ f.tb = s /\ f.ta = t /\ f.mask = d.mask /\ f.irqflags = d.irqflags
      /\ f.crb = x /\ f.rdi = d.rdi /\ f.line = d.line
  BY <1>1 DEF Shapes
<1> HIDE DEF f
<1>3. Fit(f, now + 1)
  <2>1. Aged(f)
    BY <1>1, <1>2 DEF Aged
  <2> QED BY <1>1, <1>2, <2>1 DEF Ready, Trim, Fit
<1>4. Follows(f) /\ PausedBy(f.tb, f.ta.clk)
  BY <1>1, <1>2 DEF Follows, PausedBy
<1>5. Lit(f)
  BY <1>2 DEF Ready, Lit
<1> QED BY <1>1, <1>2, <1>3, <1>4, <1>5 DEF Ready, Trim, Past, f

LEMMA StoreCRBTracks ==
  ASSUME NEW now \in Nat, NEW m, NEW R, NEW d \in Shapes(m, R), Rests(d, now),
         NEW x \in SUBSET ControlBits, NEW t \in Timer, t.clk = now, Core(t) = Core(d.ta),
         NEW s \in Timer, s.clk = now, NEW q, Joined(d, now, q),
         NEW p \in Plain, Core(p) = Core(s), StepIsLive(p),
         "COUNTTA" \in x => "PHI2IN" \notin p.state
  PROVE  Joined([d EXCEPT !.ta = t, !.tb = s, !.crb = x], now,
                [q EXCEPT !.tb = p, !.crb = x])
<1> DEFINE f == [d EXCEPT !.ta = t, !.tb = s, !.crb = x]
           e == [q EXCEPT !.tb = p, !.crb = x]
<1>1. /\ f.ta = t /\ f.cra = d.cra /\ f.tb = s /\ f.model = d.model /\ f.mask = d.mask
      /\ f.irqflags = d.irqflags /\ f.crb = x /\ f.tat = d.tat /\ f.tbt = d.tbt
      /\ f.rdi = d.rdi /\ f.line = d.line /\ f \in Shapes(m, R)
  BY DEF Shapes
<1>2. /\ e \in IdealChips /\ e.ta = q.ta /\ e.crb = x /\ e.tb = p /\ e.model = q.model
      /\ e.mask = q.mask /\ e.cra = q.cra /\ e.tat = q.tat /\ e.tbt = q.tbt
      /\ e.age = q.age /\ e.int_in = q.int_in /\ e.flags = q.flags
  BY DEF Joined, IdealChips
<1> HIDE DEF f, e
<1>3. Is(d, now, q)
  BY RestingTracks DEF Joined
<1>4. Pulled(f) <=> Pulled(d)
  BY <1>1 DEF Pulled
<1>5. Is(f, now, e)
  BY <1>1, <1>2, <1>3, <1>4 DEF Is, TracksRest
<1>6. Rests(f, now)
  BY <1>1 DEF Rests
<1>7. Tracks(f, now, e)
  BY <1>1, <1>5, <1>6, RestingTracks
<1>8. Live(e) /\ chip.model = e.model
  BY <1>2 DEF Joined, Live
<1> QED BY <1>2, <1>7, <1>8 DEF Joined, f, e

(* Where the store to CRB leaves the chip.                                 *)
LEMMA StoredCRB ==
  ASSUME NEW now \in 0..LastClk, now + 1 \in 0..LastClk, NEW R, NEW d, Sound(d, now, R),
         Ready(d, now), Rests(d, now), NEW byte \in SUBSET ControlBits,
         "START" \in byte \/ "STEP" \notin d.tb.state
  PROVE  LET x == byte \ {"FLOAD"}
             t == IF "COUNTTA" \in byte THEN SetAlarm(d.ta) ELSE d.ta
             s == SetAlarm(WithControl(d.tb, InputB(byte)))
             f == [d EXCEPT !.ta = t, !.tb = s, !.crb = x] IN
         /\ Ready(f, now + 1) /\ Past(f, now)
         /\ \A q : /\ Joined(d, now, q)
                   /\ "START" \in byte \/ "STEP" \notin q.tb.state
                   => Joined(f, now, [q EXCEPT !.tb = WithControl(q.tb, InputB(byte)), !.crb = x])
<1> DEFINE x == byte \ {"FLOAD"}
           t == IF "COUNTTA" \in byte THEN SetAlarm(d.ta) ELSE d.ta
           s == SetAlarm(WithControl(d.tb, InputB(byte)))
           f == [d EXCEPT !.ta = t, !.tb = s, !.crb = x]
<1>1. /\ d \in Shapes(now, R) /\ now \in Nat /\ d.rdi \in 0..now /\ d.rdi # now
      /\ Held(d.ta, d.cra, now) /\ Held(d.tb, InputB(d.crb), now) /\ StepIsLive(d.tb)
      /\ d.ta.clk = now /\ d.tb.clk = now /\ d.ta \in Timer /\ d.tb \in Timer
  BY ReadyIs DEF Rests
<1>2. /\ t.clk = now /\ t.state = d.ta.state /\ Upcoming(t) \in Int /\ Upcoming(t) > now
      /\ t \in Timer /\ Core(t) = Core(d.ta)
  <2>1. LET a == SetAlarm(d.ta) IN
        /\ Held(a, d.cra, now) /\ a.clk = d.ta.clk /\ a.state = d.ta.state
        /\ Core(a) = Core(d.ta) /\ a \in Timer
    BY <1>1, SetAlarmIs
  <2>2. Held(t, d.cra, now) /\ t.clk = d.ta.clk /\ t.state = d.ta.state
        /\ Core(t) = Core(d.ta) /\ t \in Timer
    BY <1>1, <2>1
  <2> HIDE DEF t
  <2>3. Upcoming(t) \in Int /\ Upcoming(t) > t.clk
    BY <2>2, HeldLies
  <2> QED BY <1>1, <2>2, <2>3
<1>3. /\ "START" \in InputB(byte) <=> "START" \in byte
      /\ "COUNTTA" \in x => "CNT" \in InputB(byte)
      /\ x \in SUBSET ControlBits
      /\ "START" \in InputB(byte) => "START" \in InputB(x)
      /\ "CNT" \notin InputB(byte) => "CNT" \notin InputB(x)
      /\ "CR_ONESHOT" \in InputB(x) => "CR_ONESHOT" \in InputB(byte)
  BY DEF InputB
<1> DEFINE y == InputB(byte)
<1> DEFINE z == InputB(x)
<1> HIDE DEF x, t, y, z
<1>4. /\ s.clk = now /\ s \in Timer
      /\ "STEP" \in s.state <=> "STEP" \in d.tb.state
      /\ "STEP" \in d.tb.state /\ "START" \in byte => StepIsLive(s)
      /\ \A p \in Plain : Core(p) = Core(d.tb) /\ StepIsLive(p) =>
              LET r == WithControl(p, y) IN
              /\ r \in Plain /\ Core(r) = Core(s)
              /\ "STEP" \in p.state <=> "STEP" \in d.tb.state
              /\ "STEP" \in r.state <=> "STEP" \in p.state
              /\ "PHI2IN" \in r.state <=> "CNT" \notin y
              /\ "STEP" \in p.state /\ "START" \in byte => StepIsLive(r)
  <2>1. s = SetAlarm(WithControl(d.tb, y))
    BY DEF y
  <2>2. /\ "START" \in y => "START" \in z
        /\ "CNT" \notin y => "CNT" \notin z
        /\ "CR_ONESHOT" \in z => "CR_ONESHOT" \in y
        /\ "START" \in y <=> "START" \in byte
    BY <1>3 DEF y, z
  <2> HIDE DEF s
  <2> QED BY <1>1, <2>1, <2>2, WithControlIs
<1>5. s = SetAlarm(WithControl(d.tb, InputB(byte)))
  OBVIOUS
<1> HIDE DEF s
<1>6. StepIsLive(s)
  BY <1>4 DEF StepIsLive
<1>7. Ready(f, now + 1) /\ Past(f, now)
  BY <1>2, <1>4, <1>6, StoreCRBReady
<1>8. ASSUME NEW q, Joined(d, now, q), "START" \in byte \/ "STEP" \notin q.tb.state
      PROVE  Joined(f, now, [q EXCEPT !.tb = WithControl(q.tb, y), !.crb = x])
  <2> DEFINE p == WithControl(q.tb, y)
  <2>1. q.tb \in Plain /\ Core(q.tb) = Core(d.tb) /\ StepIsLive(q.tb)
    <3>1. Is(d, now, q)
      BY <1>1, <1>8, RestingTracks DEF Joined
    <3> QED BY <1>8, <3>1 DEF Is, Joined, IdealChips, Live
  <2>2. p \in Plain /\ Core(p) = Core(s) /\ StepIsLive(p)
        /\ ("PHI2IN" \in p.state <=> "CNT" \notin y)
    BY <1>4, <1>8, <2>1 DEF StepIsLive
  <2>3. "COUNTTA" \in x => "PHI2IN" \notin p.state
    BY <1>3, <2>2 DEF y
  <2> HIDE DEF p
  <2>4. Joined(f, now, [q EXCEPT !.tb = p, !.crb = x])
    BY <1>1, <1>2, <1>3, <1>4, <1>8, <2>2, <2>3, StoreCRBTracks
  <2> QED BY <2>4 DEF p
<1> HIDE DEF f
<1> QED BY <1>7, <1>8 DEF f, s, x, t, y

(* Unless the cycle stops timer B with STEP set.                           *)
LEMMA WriteCRBGoes ==
  ASSUME NEW now \in 0..LastClk, now + 1 \in 0..LastClk, NEW R, NEW c, Sound(c, now, R),
         Ready(c, now), NEW byte \in SUBSET ControlBits
  PROVE  LET f == Access(c, WriteReg("CRB", byte), now) IN
         /\ "START" \in byte \/ "START" \notin c.crb => Ready(f, now + 1) /\ Past(f, now)
         /\ \A q : Still(c) /\ Joined(c, now, q)
                     /\ ("START" \in byte \/ "STEP" \notin q.tb.state) =>
                   Accessed(c, f, now, q, Ideal!Access(q, WriteReg("CRB", byte)))
<1> DEFINE b == [c EXCEPT !.tbt = IF Starts(byte, c.crb) THEN 1 ELSE c.tbt]
           d == UpdateBoth(b, now)
           x == byte \ {"FLOAD"}
           t == IF "COUNTTA" \in byte THEN SetAlarm(d.ta) ELSE d.ta
           s == SetAlarm(WithControl(d.tb, InputB(byte)))
           f == Access(c, WriteReg("CRB", byte), now)
<1>1. f = [d EXCEPT !.ta = t, !.tb = s, !.crb = x]
  BY DEF Access, Written, WriteReg, Write, WriteCRB
<1>2. /\ Sound(b, now, R) /\ Ready(b, now) /\ b.last_read = c.last_read /\ b.crb = c.crb
      /\ \A q : LET r == [q EXCEPT !.tbt = IF Starts(byte, q.crb) THEN 1 ELSE q.tbt] IN
                Still(c) /\ Joined(c, now, q) => Joined(b, now, r) /\ r.last_read = q.last_read
  <2>1. \A q : LET D == [c EXCEPT !.tbt = IF Starts(byte, c.crb) THEN 1 ELSE c.tbt]
                   Q == [q EXCEPT !.tbt = IF Starts(byte, q.crb) THEN 1 ELSE q.tbt] IN
        /\ Sound(D, now, R) /\ Ready(D, now) /\ SameControl(c, D) /\ D.last_read = c.last_read
        /\ Still(c) /\ Joined(c, now, q) => Joined(D, now, Q) /\ Q.last_read = q.last_read
    <3> HIDE DEF b
    <3> QED BY ONLY now \in 0..LastClk, Sound(c, now, R), Ready(c, now), ToggleB
  <2> QED BY <2>1 DEF SameControl
<1> HIDE DEF b
<1>3. /\ Sound(d, now, R) /\ Ready(d, now) /\ Rests(d, now) /\ d.last_read = b.last_read
      /\ d.crb = c.crb
      /\ \A r : Joined(b, now, r) <=> Joined(d, now, r)
  <2>1. \A r : LET D == UpdateBoth(b, now) IN
          /\ Sound(D, now, R) /\ SameControl(b, D) /\ GoesA(b, D, now) /\ Ready(D, now)
          /\ Rests(D, now) /\ D.last_read = b.last_read
          /\ Joined(b, now, r) <=> Joined(D, now, r)
    BY ONLY now \in 0..LastClk, <1>2, UpToDateBoth
  <2> QED BY <1>2, <2>1 DEF SameControl
<1> HIDE DEF d
<1>4. ASSUME "START" \in byte \/ "STEP" \notin d.tb.state
      PROVE  /\ Ready(f, now + 1) /\ Past(f, now)
             /\ \A q : /\ Joined(d, now, q)
                       /\ "START" \in byte \/ "STEP" \notin q.tb.state
                       => Joined(f, now, [q EXCEPT !.tb = WithControl(q.tb, InputB(byte)),
                                                   !.crb = x])
  <2>1. LET g == [d EXCEPT !.ta = t, !.tb = s, !.crb = x] IN
        /\ Ready(g, now + 1) /\ Past(g, now)
        /\ \A q : /\ Joined(d, now, q)
                  /\ "START" \in byte \/ "STEP" \notin q.tb.state
                  => Joined(g, now, [q EXCEPT !.tb = WithControl(q.tb, InputB(byte)), !.crb = x])
    BY ONLY now \in 0..LastClk, now + 1 \in 0..LastClk, <1>3, <1>4,
            byte \in SUBSET ControlBits, StoredCRB
  <2> HIDE DEF f, t, s, x
  <2> QED BY <1>1, <2>1
<1>5. ASSUME "START" \in byte \/ "START" \notin c.crb
      PROVE  Ready(f, now + 1) /\ Past(f, now)
  <2>1. Held(d.tb, InputB(d.crb), now) /\ StepIsLive(d.tb)
    BY <1>3, ReadyIs
  <2>2. "START" \notin c.crb => "STEP" \notin d.tb.state
    BY <1>3, <2>1 DEF Held, Kept, InputB, StepIsLive, Stepped
  <2> QED BY <1>4, <1>5, <2>2
<1>6. ASSUME NEW q, Still(c), Joined(c, now, q), "START" \in byte \/ "STEP" \notin q.tb.state
      PROVE  Accessed(c, f, now, q, Ideal!Access(q, WriteReg("CRB", byte)))
  <2> DEFINE r == [q EXCEPT !.tbt = IF Starts(byte, q.crb) THEN 1 ELSE q.tbt]
             e == [r EXCEPT !.tb = WithControl(q.tb, InputB(byte)), !.crb = x]
  <2>1. Ideal!Access(q, WriteReg("CRB", byte)) = e /\ r.tb = q.tb /\ e.last_read = r.last_read
    <3>1. Ideal!Access(q, WriteReg("CRB", byte)) =
            [q EXCEPT !.tb = WithControl(q.tb, InputB(byte)), !.crb = x,
                      !.tbt = IF Starts(byte, q.crb) THEN 1 ELSE q.tbt]
      BY IdealControls
    <3>2. q \in IdealChips
      BY <1>6 DEF Joined
    <3> QED BY <3>1, <3>2 DEF IdealChips
  <2>2. Joined(b, now, r) /\ r.last_read = q.last_read
    BY <1>2, <1>6
  <2> HIDE DEF r
  <2>3. Joined(d, now, r)
    BY <1>3, <2>2
  <2>4. "START" \in byte \/ "STEP" \notin d.tb.state
    <3>1. Is(d, now, r)
      BY <1>3, <2>3, ReadyIs, RestingTracks DEF Joined
    <3>2. r.tb \in Plain /\ Core(r.tb) = Core(d.tb) /\ StepIsLive(r.tb)
      BY <2>3, <3>1 DEF Is, Joined, IdealChips, Live
    <3>3. d.tb \in Timer /\ StepIsLive(d.tb)
      BY <1>3, ReadyIs
    <3>4. "STEP" \in d.tb.state <=> "STEP" \in r.tb.state
      BY <3>2, <3>3, PlainControl
    <3> QED BY <1>6, <2>1, <3>4
  <2>5. Ready(f, now + 1) /\ Past(f, now) /\ Joined(f, now, e)
    <3>1. e = [r EXCEPT !.tb = WithControl(r.tb, InputB(byte)), !.crb = x]
      BY <2>1
    <3> HIDE DEF e, f
    <3> QED BY <1>4, <1>6, <2>1, <2>3, <2>4, <3>1
  <2>6. f.last_read = c.last_read /\ e.last_read = q.last_read
    <3>1. d \in Shapes(now, R)
      BY <1>3 DEF Sound
    <3>2. f.last_read = d.last_read
      BY <1>1, <3>1 DEF Shapes
    <3> QED BY <1>2, <1>3, <2>1, <2>2, <3>2
  <2> HIDE DEF e, f
  <2> QED BY <2>1, <2>5, <2>6 DEF Accessed, SameByte
<1> HIDE DEF f
<1> QED BY <1>5, <1>6 DEF f

-----------------------------------------------------------------------------
(* The store to the mask.                                                  *)
LEMMA AlarmsOfSourcesAre ==
  ASSUME NEW now \in 0..LastClk, NEW R, NEW h \in Shapes(now, R), NEW ctlA, NEW ctlB,
         Held(h.ta, ctlA, now), Held(h.tb, ctlB, now)
  PROVE  LET f == AlarmsOfSources(h) IN
         /\ SameRest(h, f) /\ f.irqflags = h.irqflags /\ f.line = h.line
         /\ f.tat = h.tat /\ f.tbt = h.tbt
         /\ f.ta.clk = h.ta.clk /\ f.ta.state = h.ta.state /\ Core(f.ta) = Core(h.ta)
         /\ f.tb.clk = h.tb.clk /\ f.tb.state = h.tb.state /\ Core(f.tb) = Core(h.tb)
         /\ f.ta.alarmclk \in {h.ta.alarmclk, Upcoming(h.ta)}
         /\ f.tb.alarmclk \in {h.tb.alarmclk, Upcoming(h.tb)}
<1> DEFINE f == AlarmsOfSources(h)
           t == IF "TA" \in h.mask THEN SetAlarm(h.ta) ELSE h.ta
           u == IF "TB" \in h.mask THEN SetAlarm(h.tb) ELSE h.tb
<1>1. f = [h EXCEPT !.ta = t, !.tb = u]
  BY DEF AlarmsOfSources
<1>2. /\ f.ta = t /\ f.tb = u /\ SameRest(h, f) /\ f.irqflags = h.irqflags /\ f.line = h.line
      /\ f.tat = h.tat /\ f.tbt = h.tbt
  <2> HIDE DEF f, t, u
  <2> QED BY <1>1 DEF Shapes, SameRest, SameControl
<1>3. /\ t.clk = h.ta.clk /\ t.state = h.ta.state /\ Core(t) = Core(h.ta)
      /\ t.alarmclk \in {h.ta.alarmclk, Upcoming(h.ta)}
  <2>1. LET a == SetAlarm(h.ta) IN
        /\ a.alarmclk = Upcoming(a) /\ a.clk = h.ta.clk /\ a.state = h.ta.state
        /\ Core(a) = Core(h.ta) /\ Upcoming(a) = Upcoming(h.ta)
    BY SetAlarmIs
  <2> QED BY <2>1
<1>4. /\ u.clk = h.tb.clk /\ u.state = h.tb.state /\ Core(u) = Core(h.tb)
      /\ u.alarmclk \in {h.tb.alarmclk, Upcoming(h.tb)}
  <2>1. LET a == SetAlarm(h.tb) IN
        /\ a.alarmclk = Upcoming(a) /\ a.clk = h.tb.clk /\ a.state = h.tb.state
        /\ Core(a) = Core(h.tb) /\ Upcoming(a) = Upcoming(h.tb)
    BY SetAlarmIs
  <2> QED BY <2>1
<1> HIDE DEF f, t, u
<1> QED BY <1>2, <1>3, <1>4 DEF f

(* What becomes of the flags and the line when sources are enabled.        *)
Enabled(d, h, byte) ==
  /\ h.model = d.model /\ h.ta = d.ta /\ h.tb = d.tb /\ h.cra = d.cra /\ h.crb = d.crb
  /\ h.tat = d.tat /\ h.tbt = d.tbt /\ h.rdi = d.rdi /\ h.last_read = d.last_read
  /\ h.mask = MaskAfter(d.mask, byte)
  /\ IF h.mask \cap d.irqflags = {} THEN h.irqflags = d.irqflags /\ h.line = d.line
     ELSE /\ h.line
          /\ h.irqflags = (d.irqflags \ Given("TBB" \in d.irqflags, {"TBB", "TB"})) \cup {"IR"}

LEMMA UnmaskedIs ==
  ASSUME NEW now \in 0..LastClk, NEW R, NEW d \in Shapes(now, R), NEW byte \in SUBSET Flags
  PROVE  LET h == Unmasked([d EXCEPT !.mask = MaskAfter(d.mask, byte)], now + 1) IN
         h \in Shapes(now, R) /\ Enabled(d, h, byte)
<1> DEFINE g == [d EXCEPT !.mask = MaskAfter(d.mask, byte)]
           h == Unmasked(g, now + 1)
<1>1. /\ g \in Shapes(now, R) /\ g.mask = MaskAfter(d.mask, byte) /\ g.ta = d.ta /\ g.tb = d.tb
      /\ g.irqflags = d.irqflags /\ g.cra = d.cra /\ g.crb = d.crb /\ g.model = d.model
      /\ g.tat = d.tat /\ g.tbt = d.tbt /\ g.rdi = d.rdi /\ g.last_read = d.last_read
      /\ g.line = d.line
  <2>1. MaskAfter(d.mask, byte) \in SUBSET Sources
    BY DEF MaskAfter, Shapes, Flags
  <2> QED BY <2>1 DEF Shapes
<1> HIDE DEF g
<1>2. now \in Nat /\ now + 1 \in 0..now + 1 /\ d.rdi \in 0..now
  BY ClkInNat DEF Shapes
<1>3. g.mask \cap g.irqflags # {} => h = DoSetInt(g, now + 1)
  BY DEF Unmasked
<1>4. g.mask \cap g.irqflags = {} => h = g
  BY DEF Unmasked
<1>5. LET e == DoSetInt(g, now + 1) IN
      /\ e \in Shapes(now, R)
      /\ e.ta = g.ta /\ e.tb = g.tb /\ e.tat = g.tat /\ e.tbt = g.tbt /\ SameRest(g, e)
      /\ \/ e = g /\ (g.irqflags \cap g.mask = {} \/ g.rdi = now + 1)
         \/ /\ g.irqflags \cap g.mask # {} /\ e.line
            /\ e.irqflags = (g.irqflags \ Given("TBB" \in g.irqflags, {"TBB", "TB"})) \cup {"IR"}
  <2>1. LET e == DoSetInt(g, now + 1) IN
        /\ e.ta = g.ta /\ e.tb = g.tb /\ e.tat = g.tat /\ e.tbt = g.tbt /\ SameRest(g, e)
        /\ \/ e = g /\ (g.irqflags \cap g.mask = {} \/ g.rdi = now + 1)
           \/ /\ g.irqflags \cap g.mask # {} /\ e.line
              /\ e.irqflags = (g.irqflags \ Given("TBB" \in g.irqflags, {"TBB", "TB"})) \cup {"IR"}
    BY ONLY <1>1, DoSetIntFields
  <2>2. DoSetInt(g, now + 1) \in Shapes(now, R)
    BY ONLY <1>1, <1>2, DoSetIntIs
  <2> QED BY ONLY <2>1, <2>2
<1> HIDE DEF h
<1>6. CASE g.mask \cap g.irqflags = {}
  <2>1. h = g
    BY <1>4, <1>6
  <2>2. h \in Shapes(now, R) /\ Enabled(d, h, byte)
    BY <1>1, <1>6, <2>1 DEF Enabled
  <2> QED BY <2>2 DEF h, g
<1>7. CASE g.mask \cap g.irqflags # {}
  <2>1. /\ h \in Shapes(now, R)
        /\ h.ta = g.ta /\ h.tb = g.tb /\ h.tat = g.tat /\ h.tbt = g.tbt /\ SameRest(g, h)
        /\ h.line
        /\ h.irqflags = (g.irqflags \ Given("TBB" \in g.irqflags, {"TBB", "TB"})) \cup {"IR"}
    BY <1>1, <1>2, <1>3, <1>5, <1>7
  <2>2. Enabled(d, h, byte)
    BY <1>1, <1>7, <2>1 DEF Enabled, SameRest, SameControl
  <2> QED BY <2>1, <2>2 DEF h, g
<1> QED BY <1>6, <1>7

(* The other chip.                                                         *)
EnabledToo(q, e, byte) ==
  /\ e \in IdealChips
  /\ e.model = q.model /\ e.ta = q.ta /\ e.tb = q.tb /\ e.cra = q.cra /\ e.crb = q.crb
  /\ e.tat = q.tat /\ e.tbt = q.tbt /\ e.age = q.age /\ e.last_read = q.last_read
  /\ e.mask = MaskAfter(q.mask, byte)
  /\ "TA" \in e.flags <=> "TA" \in q.flags
  /\ IF e.mask \cap q.flags = {} THEN e.flags = q.flags /\ e.int_in = q.int_in
     ELSE /\ e.int_in # -1
          /\ e.flags \cap {"TB", "TBB"} = IF "TBB" \in q.flags THEN {}
                                          ELSE q.flags \cap {"TB", "TBB"}

LEMMA IdealMaskIs ==
  ASSUME NEW q \in IdealChips, NEW byte \in SUBSET Flags
  PROVE  EnabledToo(q, Ideal!Access(q, WriteReg("ICR", byte)), byte)
<1> DEFINE new == MaskAfter(q.mask, byte)
           d == [q EXCEPT !.mask = new]
           delay == IF Ideal!Old THEN 2 ELSE 1
           e == Ideal!Access(q, WriteReg("ICR", byte))
<1>1. e = Ideal!Write(q, "ICR", byte)
  BY DEF Ideal!Access, WriteReg
<1>2. Ideal!Write(q, "ICR", byte) = Ideal!WriteMask(q, byte)
  BY DEF Ideal!Write
<1>3. Ideal!MaskAfter(q.mask, byte) = new
  BY IdealBus
<1>4. Ideal!WriteMask(q, byte) = IF new \cap q.flags # {} THEN Ideal!Raised(d, delay) ELSE d
  <2>1. Ideal!WriteMask(q, byte) =
          LET n == Ideal!MaskAfter(q.mask, byte)
              r == [q EXCEPT !.mask = n]
          IN  IF n \cap q.flags # {} THEN Ideal!Raised(r, delay) ELSE r
    BY DEF Ideal!WriteMask
  <2> HIDE DEF new, delay
  <2> QED BY ONLY <1>3, <2>1
<1>5. e = IF new \cap q.flags # {} THEN Ideal!Raised(d, delay) ELSE d
  BY ONLY <1>1, <1>2, <1>4
<1>6. delay \in Nat
  OBVIOUS
<1>7. new \in SUBSET Sources
  BY DEF MaskAfter, IdealChips, Flags
<1> HIDE DEF e, delay, new
<1>8. /\ d \in IdealChips /\ d.mask = new
      /\ d.model = q.model /\ d.ta = q.ta /\ d.tb = q.tb /\ d.cra = q.cra /\ d.crb = q.crb
      /\ d.tat = q.tat /\ d.tbt = q.tbt /\ d.age = q.age /\ d.last_read = q.last_read
      /\ d.flags = q.flags /\ d.int_in = q.int_in
  BY <1>7 DEF IdealChips
<1> HIDE DEF d
<1>9. CASE new \cap q.flags = {}
  <2>1. e = d
    BY <1>5, <1>9
  <2> QED BY <1>8, <1>9, <2>1 DEF EnabledToo, new, e
<1>10. CASE new \cap q.flags # {}
  <2>1. LET r == Ideal!Raised(d, delay)
            F == d.flags \cap {"TB", "TBB"} IN
         /\ r \in IdealChips /\ r = [d EXCEPT !.flags = r.flags, !.int_in = r.int_in]
         /\ r.int_in # -1
         /\ "TA" \in r.flags <=> "TA" \in d.flags
         /\ r.flags \cap {"TB", "TBB"} = IF "TBB" \in F THEN {} ELSE F
    BY ONLY <1>6, <1>8, RaisedIs
  <2>2. e = Ideal!Raised(d, delay)
    BY <1>5, <1>10
  <2>3. /\ e \in IdealChips /\ e = [d EXCEPT !.flags = e.flags, !.int_in = e.int_in]
        /\ e.int_in # -1
        /\ "TA" \in e.flags <=> "TA" \in d.flags
        /\ e.flags \cap {"TB", "TBB"} = IF "TBB" \in d.flags THEN {}
                                        ELSE d.flags \cap {"TB", "TBB"}
    BY ONLY <2>1, <2>2
  <2>4. /\ e.model = d.model /\ e.ta = d.ta /\ e.tb = d.tb /\ e.cra = d.cra /\ e.crb = d.crb
        /\ e.tat = d.tat /\ e.tbt = d.tbt /\ e.age = d.age /\ e.last_read = d.last_read
        /\ e.mask = d.mask
    BY <1>8, <2>3 DEF IdealChips
  <2> QED BY <1>8, <1>10, <2>3, <2>4 DEF EnabledToo, new, e
<1> QED BY <1>9, <1>10

-----------------------------------------------------------------------------
LEMMA EnabledFlags ==
  ASSUME NEW now, NEW R, NEW d \in Shapes(now, R), Lit(d), NEW byte \in SUBSET Flags,
         NEW h \in Shapes(now, R), Enabled(d, h, byte),
         NEW q \in IdealChips, Is(d, now, q), NEW e, EnabledToo(q, e, byte)
  PROVE  /\ "TA" \in e.flags <=> "TA" \in h.irqflags
         /\ e.flags \cap {"TB", "TBB"} = IF Pulled(h) /\ "TBB" \in h.irqflags THEN {}
                                         ELSE h.irqflags \cap {"TB", "TBB"}
         /\ e.int_in # -1 <=> Pulled(h)
<1> DEFINE I == d.irqflags
           F == q.flags
           m == h.mask
<1>1. /\ q.mask = d.mask /\ e.mask = m /\ m \subseteq Sources
      /\ I \subseteq {"TA", "TB", "IR", "TBB"} /\ F \subseteq {"TA", "TB", "TBB"}
      /\ e.flags \subseteq {"TA", "TB", "TBB"} /\ h.irqflags \subseteq {"TA", "TB", "IR", "TBB"}
  BY DEF Is, TracksRest, Enabled, EnabledToo, Shapes, IdealChips, IdealFlags, Flags, Sources
<1>2. /\ "TA" \in F <=> "TA" \in I
      /\ F \cap {"TB", "TBB"} = IF d.line /\ "TBB" \in I THEN {} ELSE I \cap {"TB", "TBB"}
      /\ q.int_in # -1 <=> d.line
  BY DEF Is, Pulled, Lit
<1>3. IF m \cap I = {} THEN h.irqflags = I /\ h.line = d.line
      ELSE h.line /\ h.irqflags = (I \ Given("TBB" \in I, {"TBB", "TB"})) \cup {"IR"}
  BY DEF Enabled
<1>4. /\ "TA" \in e.flags <=> "TA" \in F
      /\ IF m \cap F = {} THEN e.flags = F /\ e.int_in = q.int_in
         ELSE /\ e.int_in # -1
              /\ e.flags \cap {"TB", "TBB"} = IF "TBB" \in F THEN {} ELSE F \cap {"TB", "TBB"}
  BY <1>1 DEF EnabledToo
<1>5. "IR" \notin m /\ "TBB" \notin m
  BY <1>1 DEF Sources
<1>6. Pulled(h) <=> h.line \/ h.irqflags \cap m # {}
  BY DEF Pulled
<1> HIDE DEF I, F, m
<1>7. CASE d.line /\ "TBB" \in I
  <2>1. F \cap {"TB", "TBB"} = {} /\ q.int_in # -1
    BY <1>2, <1>7
  <2>2. e.int_in # -1 /\ e.flags \cap {"TB", "TBB"} = {}
    BY <1>4, <2>1
  <2>3. CASE m \cap I = {}
    BY <1>2, <1>3, <1>4, <1>6, <1>7, <2>2, <2>3
  <2>4. CASE m \cap I # {}
    <3>1. h.line /\ h.irqflags = (I \ {"TBB", "TB"}) \cup {"IR"}
      BY <1>3, <1>7, <2>4 DEF Given
    <3>2. "TA" \in h.irqflags <=> "TA" \in I
      BY <3>1
    <3>3. h.irqflags \cap {"TB", "TBB"} = {}
      BY <3>1
    <3> QED BY <1>2, <1>4, <1>6, <2>2, <3>1, <3>2, <3>3
  <2> QED BY <2>3, <2>4
<1>8. CASE ~(d.line /\ "TBB" \in I)
  <2>1. F \cap {"TB", "TBB"} = I \cap {"TB", "TBB"}
    BY <1>2, <1>8
  <2>2. m \cap F = {} <=> m \cap I = {}
    BY <1>1, <1>2, <1>5, <2>1 DEF Sources
  <2>3. CASE m \cap I = {}
    <3>1. Pulled(h) <=> d.line
      BY <1>3, <1>6, <2>3
    <3> QED BY <1>2, <1>3, <1>4, <1>8, <2>1, <2>2, <2>3, <3>1
  <2>4. CASE m \cap I # {}
    <3>1. h.line /\ Pulled(h) /\ h.irqflags = (I \ Given("TBB" \in I, {"TBB", "TB"})) \cup {"IR"}
      BY <1>3, <1>6, <2>4
    <3>2. "TA" \in h.irqflags <=> "TA" \in I
      BY <3>1 DEF Given
    <3>3. h.irqflags \cap {"TB", "TBB"} = IF "TBB" \in I THEN {} ELSE I \cap {"TB", "TBB"}
      BY <3>1 DEF Given
    <3>4. "TBB" \in F <=> "TBB" \in I
      BY <2>1
    <3>5. "TBB" \notin h.irqflags
      BY <3>3
    <3> QED BY <1>2, <1>4, <2>1, <2>2, <2>4, <3>1, <3>2, <3>3, <3>4, <3>5
  <2> QED BY <2>3, <2>4
<1> QED BY <1>7, <1>8

LEMMA WriteMaskGoes ==
  ASSUME NEW now \in 0..LastClk, NEW R, NEW c, Sound(c, now, R), Ready(c, now), NEW q,
         NEW byte \in SUBSET Flags
  PROVE  LET f == WriteMask(c, byte, now)
             e == Ideal!Access(q, WriteReg("ICR", byte)) IN
         Accessed(c, f, now, q, e) /\ (Still(c) => Still(f))
<1> DEFINE d == UpdateBoth(c, now)
           h == Unmasked([d EXCEPT !.mask = MaskAfter(d.mask, byte)], now + 1)
           f == WriteMask(c, byte, now)
           e == Ideal!Access(q, WriteReg("ICR", byte))
<1>1. /\ Sound(d, now, R) /\ GoesA(c, d, now) /\ Ready(d, now)
      /\ Rests(d, now) /\ d.last_read = c.last_read
      /\ Joined(c, now, q) <=> Joined(d, now, q)
  BY UpToDateBoth
<1>2. Still(c) => Still(d)
  BY <1>1, StillStays
<1>3. f = AlarmsOfSources(h)
  BY DEF WriteMask
<1>4. Sound(f, now, R)
  BY WriteMaskIs
<1> HIDE DEF d
<1>5. /\ d \in Shapes(now, R) /\ Held(d.ta, d.cra, now) /\ Held(d.tb, InputB(d.crb), now)
      /\ d.ta.clk = now /\ d.tb.clk = now /\ d.rdi \in 0..now /\ d.rdi # now
      /\ now \in Nat /\ "STEP" \notin d.ta.state /\ StepIsLive(d.tb) /\ Lit(d) /\ Fit(d, now)
  BY <1>1, ReadyIs DEF Rests, Ready, Trim
<1>6. h \in Shapes(now, R) /\ Enabled(d, h, byte)
  BY <1>5, UnmaskedIs
<1> HIDE DEF h
<1>7. h.ta = d.ta /\ h.tb = d.tb /\ h.cra = d.cra /\ h.crb = d.crb /\ h.rdi = d.rdi
      /\ h.last_read = d.last_read
  BY <1>6 DEF Enabled
<1>8. /\ SameRest(h, f) /\ f.irqflags = h.irqflags /\ f.line = h.line
      /\ f.tat = h.tat /\ f.tbt = h.tbt
      /\ f.ta.clk = h.ta.clk /\ f.ta.state = h.ta.state /\ Core(f.ta) = Core(h.ta)
      /\ f.tb.clk = h.tb.clk /\ f.tb.state = h.tb.state /\ Core(f.tb) = Core(h.tb)
      /\ f.ta.alarmclk \in {h.ta.alarmclk, Upcoming(h.ta)}
      /\ f.tb.alarmclk \in {h.tb.alarmclk, Upcoming(h.tb)}
  <2>1. Held(h.ta, d.cra, now) /\ Held(h.tb, InputB(d.crb), now)
    BY <1>5, <1>7
  <2>2. LET g == AlarmsOfSources(h) IN
         /\ SameRest(h, g) /\ g.irqflags = h.irqflags /\ g.line = h.line
         /\ g.tat = h.tat /\ g.tbt = h.tbt
         /\ g.ta.clk = h.ta.clk /\ g.ta.state = h.ta.state /\ Core(g.ta) = Core(h.ta)
         /\ g.tb.clk = h.tb.clk /\ g.tb.state = h.tb.state /\ Core(g.tb) = Core(h.tb)
         /\ g.ta.alarmclk \in {h.ta.alarmclk, Upcoming(h.ta)}
         /\ g.tb.alarmclk \in {h.tb.alarmclk, Upcoming(h.tb)}
    BY ONLY now \in 0..LastClk, <1>6, <2>1, AlarmsOfSourcesAre
  <2> HIDE DEF f
  <2> QED BY ONLY <1>3, <2>2
<1> HIDE DEF f
<1>9. /\ f.cra = d.cra /\ f.crb = d.crb /\ f.rdi = d.rdi /\ f.last_read = d.last_read
      /\ f.mask = h.mask /\ f.model = d.model
  BY <1>6, <1>7, <1>8 DEF SameRest, SameControl, Enabled
<1>10. f \in Shapes(now, R) /\ Rests(f, now) /\ Upcoming(f.ta) \in Int /\ Upcoming(f.ta) > now
  <2>1. Rests(f, now)
    BY <1>5, <1>7, <1>8 DEF Rests
  <2>2. Held(f.ta, f.cra, now) /\ f \in Shapes(now, R)
    BY <1>4 DEF Sound, SideA
  <2> QED BY <2>1, <2>2, HeldLies DEF Rests
<1>11. /\ "IR" \in h.irqflags => h.line
       /\ h.irqflags \cap h.mask # {} => h.line
  <2>1. CASE h.mask \cap d.irqflags = {}
    BY <1>5, <1>6, <2>1 DEF Enabled, Fit
  <2>2. CASE h.mask \cap d.irqflags # {}
    BY <1>6, <2>2 DEF Enabled
  <2> QED BY <2>1, <2>2
<1>12. Ready(f, now + 1) /\ Past(f, now)
  <2>1. Aged(f)
    BY <1>5, <1>9, <1>10 DEF Aged, Rests
  <2>2. StepIsLive(f.tb) /\ "STEP" \notin f.ta.state
    BY <1>5, <1>7, <1>8 DEF StepIsLive
  <2>3. Fit(f, now + 1)
    BY <1>8, <1>11, <2>1, <2>2 DEF Fit
  <2>4. Follows(f) /\ PausedBy(f.tb, f.ta.clk)
    BY <1>10, <1>5 DEF Follows, PausedBy, Rests
  <2>5. Lit(f)
    BY <1>8, <1>9, <1>11 DEF Lit
  <2> QED BY <1>5, <1>9, <1>10, <2>3, <2>4, <2>5 DEF Ready, Trim, Past, Rests
<1>13. Still(c) => Still(f)
  <2>1. SideA(d, now) /\ SideB(d, now)
    BY <1>1 DEF Sound
  <2>2. ASSUME Still(d), "START" \notin d.cra PROVE f.ta.alarmclk = ClockMax
    BY <1>7, <1>8, <2>1, <2>2 DEF Still, SideA, WantedA
  <2>3. ASSUME Still(d), "START" \notin d.crb PROVE f.tb.alarmclk = ClockMax
    BY <1>7, <1>8, <2>1, <2>3 DEF Still, SideB, WantedB
  <2> QED BY <1>2, <1>9, <2>2, <2>3 DEF Still
<1>14. ASSUME Joined(d, now, q) PROVE Joined(f, now, e) /\ e.last_read = q.last_read
  <2>1. q \in IdealChips /\ Live(q) /\ chip.model = q.model
    BY <1>14 DEF Joined
  <2>2. Is(d, now, q)
    BY <1>1, <1>5, <1>14, RestingTracks DEF Joined
  <2>3. EnabledToo(q, e, byte)
    BY <2>1, IdealMaskIs
  <2> HIDE DEF e
  <2>4. /\ "TA" \in e.flags <=> "TA" \in h.irqflags
        /\ e.flags \cap {"TB", "TBB"} = IF Pulled(h) /\ "TBB" \in h.irqflags THEN {}
                                        ELSE h.irqflags \cap {"TB", "TBB"}
        /\ e.int_in # -1 <=> Pulled(h)
    <3>1. d \in Shapes(now, R) /\ Lit(d)
      BY <1>5
    <3>2. q \in IdealChips
      BY <2>1
    <3> QED BY ONLY <3>1, <1>6, <3>2, <2>2, <2>3, byte \in SUBSET Flags, EnabledFlags, Zenon
  <2>5. Pulled(f) <=> Pulled(h)
    BY <1>8, <1>9 DEF Pulled
  <2>6. TracksRest(f, now, e)
    BY <1>6, <1>9, <2>2, <2>3 DEF Is, TracksRest, EnabledToo, Enabled
  <2>7. /\ Core(e.ta) = Core(f.ta) /\ Core(e.tb) = Core(f.tb)
        /\ e.tat = f.tat /\ e.tbt = f.tbt
    BY <1>6, <1>7, <1>8, <2>2, <2>3 DEF Is, EnabledToo, Enabled
  <2>8. Is(f, now, e)
    BY <1>8, <2>4, <2>5, <2>6, <2>7 DEF Is
  <2>9. Tracks(f, now, e)
    BY <1>5, <1>10, <2>8, RestingTracks
  <2> QED BY <2>1, <2>3, <2>9 DEF Joined, Live, EnabledToo
<1> HIDE DEF e
<1>15. Accessed(c, f, now, q, e)
  BY <1>1, <1>9, <1>12, <1>14 DEF Accessed, SameByte
<1> QED BY <1>13, <1>15 DEF f, e

-----------------------------------------------------------------------------
(* The read of the flags.  It does not come right after an underflow of    *)
(* timer B that the old chip has lost the flag of.                         *)
ReadLate(c) == c.tb.clk = c.rdi => Upcoming(c.tb) > c.rdi + 1

ReadNow(c, now) == [c EXCEPT !.rdi = now]

LEMMA ReadNowIs ==
  ASSUME NEW now \in 0..LastClk, NEW R, NEW c, Sound(c, now, R), Ready(c, now)
  PROVE  LET b == ReadNow(c, now) IN
         /\ Sound(b, now, R) /\ Trim(b, now) /\ (Still(c) => Still(b))
         /\ \A q : ReadLate(c) /\ q \in IdealChips /\ Tracks(c, now, q) =>
              Tracks(b, now, [q EXCEPT !.age = 0])
<1> DEFINE b == ReadNow(c, now)
           W == StepsB(c)
<1>1. /\ c \in Shapes(now, R) /\ Past(c, now) /\ c.rdi \in 0..now /\ c.rdi # now /\ now \in Nat
      /\ c.ta \in Timer /\ c.tb \in Timer /\ c.ta.clk \in Nat /\ c.tb.clk \in Nat
      /\ Held(c.tb, InputB(c.crb), now) /\ Aged(c)
  BY ReadyIs
<1>2. /\ b.ta = c.ta /\ b.tb = c.tb /\ b.model = c.model /\ b.mask = c.mask
      /\ b.irqflags = c.irqflags /\ b.cra = c.cra /\ b.crb = c.crb /\ b.tat = c.tat
      /\ b.tbt = c.tbt /\ b.rdi = now /\ b.line = c.line /\ b \in Shapes(now, R)
  BY <1>1 DEF Shapes, ReadNow
<1> HIDE DEF b
<1>3. Sound(b, now, R)
  <2>1. SideA(b, now) /\ SideB(b, now)
    BY <1>2, SideAStays, SideBStays DEF Sound, SameControl
  <2> QED BY <1>2, <2>1 DEF Sound
<1>4. Trim(b, now)
  BY <1>2 DEF Ready, Trim, Fit, Follows, PausedBy, CountsTA
<1>5. Still(c) => Still(b)
  BY <1>2 DEF Still
<1>6. ASSUME NEW q \in IdealChips, ReadLate(c), Tracks(c, now, q)
      PROVE  Tracks(b, now, [q EXCEPT !.age = 0])
  <2> DEFINE r == [q EXCEPT !.age = 0]
  <2>1. /\ r.ta = q.ta /\ r.cra = q.cra /\ r.tb = q.tb /\ r.model = q.model
        /\ r.mask = q.mask /\ r.crb = q.crb /\ r.tat = q.tat /\ r.tbt = q.tbt
        /\ r.age = 0 /\ r.int_in = q.int_in /\ r.flags = q.flags
    BY DEF IdealChips
  <2> HIDE DEF r
  <2>2. StepsB(b) = W
    BY <1>2 DEF StepsB, CountsTA
  <2>3. /\ TracksA(c, now, q) /\ TracksB(c, W, now, q) /\ TracksRest(c, now, q)
        /\ q.int_in # -1 <=> Asserted(c, W, now)
    BY <1>6 DEF Tracks
  <2>4. ~Lone(b, W, now)
    <3>1. c.tb.clk = now => CountNow(c.tb, W, now) = 0
      BY <1>1, CountStarts
    <3> HIDE DEF W
    <3> QED BY <1>2, <3>1 DEF Lone
  <2>5. ~Lone(c, W, now)
    <3>1. CASE c.tb.clk = c.rdi
      <4> DEFINE x == c.rdi + 1
      <4>1. x \in Int /\ c.tb.clk < x /\ x <= now /\ Upcoming(c.tb) > x
        BY <1>1, <1>6, <3>1 DEF ReadLate
      <4>2. \A j \in W : j >= x
        <5>1. W \subseteq Int /\ \A j \in W : j > c.ta.clk
          BY StepsAhead
        <5>2. c.rdi <= c.ta.clk
          BY <1>1 DEF Aged
        <5> HIDE DEF W
        <5> QED BY <1>1, <5>1, <5>2
      <4> HIDE DEF x, W
      <4>3. x \in 0..LastClk /\ Held(c.tb, InputB(c.crb), x)
        BY <1>1, <4>1, HeldBefore
      <4>4. CountNow(c.tb, W, x) = 0
        BY ONLY <4>1, <4>2, <4>3, FirstCounts
      <4> QED BY <4>4 DEF Lone, x
    <3>2. CASE c.tb.clk # c.rdi
      BY <3>2 DEF Lone
    <3> QED BY <3>1, <3>2
  <2> HIDE DEF W
  <2>6. TracksA(b, now, r)
    BY <1>2, <2>1, <2>3 DEF TracksA, FlagA
  <2>7. Asserted(b, W, now) <=> Asserted(c, W, now)
    BY <1>2 DEF Asserted
  <2>8. FlagsB(b, W, now) = FlagsB(c, W, now)
    BY <1>2, <2>4, <2>5 DEF FlagsB, Given
  <2>9. ShownB(b, W, now) = ShownB(c, W, now)
    BY <2>7, <2>8, ShownAlike
  <2>10. TracksB(b, W, now, r)
    BY <1>2, <2>1, <2>3, <2>9 DEF TracksB
  <2>11. TracksRest(b, now, r)
    <3>1. Least(now - b.rdi, 2) = 0
      BY <1>1, <1>2 DEF Least
    <3> QED BY <1>2, <2>1, <2>3, <3>1 DEF TracksRest
  <2>12. Tracks(b, now, r)
    BY <2>1, <2>2, <2>3, <2>6, <2>7, <2>10, <2>11 DEF Tracks
  <2> QED BY <2>12 DEF r
<1> QED BY <1>3, <1>4, <1>5, <1>6 DEF b

(* What is in the byte, and in that of the other chip.                     *)
LEMMA SameFlagsRead ==
  ASSUME NEW now, NEW R, NEW d \in Shapes(now, R), NEW q \in IdealChips, Is(d, now, q)
  PROVE  LET e == Ideal!ReadFlags(q) IN
         /\ WithoutIR(Byte(Visible(d.irqflags))) = WithoutIR(e.last_read)
         /\ e \in IdealChips
         /\ e = [q EXCEPT !.flags = {}, !.int_in = -1, !.age = 0, !.last_read = e.last_read]
<1> DEFINE I == d.irqflags
           F == q.flags
           seen == IF "TBB" \in q.flags THEN q.flags \ {"TB", "TBB"} ELSE q.flags
           x == Byte(seen \cup Given(q.int_in = 0, {"IR"}))
           e == Ideal!ReadFlags(q)
<1>1. e = [q EXCEPT !.flags = {}, !.int_in = -1, !.age = 0, !.last_read = x]
  <2>1. e = [q EXCEPT !.flags = {}, !.int_in = Ideal!NoInt, !.age = 0,
                      !.last_read = Ideal!Byte(seen \cup Ideal!Timers!Given(q.int_in = 0, {"IR"}))]
    BY DEF Ideal!ReadFlags
  <2>2. Ideal!Byte(seen \cup Ideal!Timers!Given(q.int_in = 0, {"IR"})) = x
    <3> HIDE DEF seen
    <3>1. Ideal!Timers!Given(q.int_in = 0, {"IR"}) = Given(q.int_in = 0, {"IR"})
      BY IdealBus
    <3> DEFINE y == seen \cup Given(q.int_in = 0, {"IR"})
    <3> HIDE DEF y
    <3>2. Ideal!Byte(y) = Byte(y)
      BY IdealBus
    <3> QED BY <3>1, <3>2 DEF y
  <2>3. Ideal!NoInt = -1
    BY DEF Ideal!NoInt
  <2> HIDE DEF e, x, seen
  <2> QED BY ONLY <2>1, <2>2, <2>3
<1>2. /\ I \subseteq {"TA", "TB", "IR", "TBB"} /\ F \subseteq {"TA", "TB", "TBB"}
      /\ "TA" \in F <=> "TA" \in I
      /\ F \cap {"TB", "TBB"} = IF Pulled(d) /\ "TBB" \in I THEN {} ELSE I \cap {"TB", "TBB"}
  BY DEF Is, Shapes, IdealChips, IdealFlags, Flags, Sources
<1>3. seen \in SUBSET {"TA", "TB"} /\ seen = Visible(I) \ {"IR"}
  <2> HIDE DEF I, F
  <2>1. Visible(I) = IF "TBB" \in I THEN I \ {"TBB", "TB"} ELSE I
    BY DEF Visible, Given
  <2>2. seen = IF "TBB" \in F THEN F \ {"TB", "TBB"} ELSE F
    BY DEF F
  <2>3. "TBB" \in F => F = I \ {"IR"} /\ "TBB" \in I
    BY <1>2
  <2> HIDE DEF seen
  <2>4. CASE "TBB" \in I
    <3>1. seen = F \ {"TB", "TBB"} /\ F \ {"TB", "TBB"} = I \ {"IR", "TB", "TBB"}
      BY <1>2, <2>2, <2>4
    <3> QED BY <1>2, <2>1, <2>4, <3>1
  <2>5. CASE "TBB" \notin I
    <3>1. F = I \ {"IR"}
      BY <1>2, <2>5
    <3> QED BY <1>2, <2>1, <2>2, <2>5, <3>1
  <2> QED BY <2>4, <2>5
<1> HIDE DEF seen, I
<1>4. x.bits = seen \cup Given(q.int_in = 0, {"IR"}) /\ x \in IdealBytes
      /\ x.bits \ {"IR"} = Visible(I) \ {"IR"}
  <2>1. seen \cup Given(q.int_in = 0, {"IR"}) \in SUBSET (Flags \cup ControlBits)
    BY <1>3 DEF Given, Flags, Sources
  <2>2. "IR" \notin seen
    BY <1>3
  <2> QED BY <1>3, <2>1, <2>2 DEF Byte, IdealBytes, Given
<1>5. WithoutIR(Byte(Visible(I))) = WithoutIR(x)
  <2>1. Byte(Visible(I)) = [bits |-> Visible(I), count |-> 0]
        /\ x = [bits |-> x.bits, count |-> 0]
    BY DEF Byte
  <2> HIDE DEF x
  <2> QED BY <1>4, <2>1 DEF WithoutIR
<1> HIDE DEF x
<1> HIDE DEF e
<1>6. e \in IdealChips /\ e.last_read = x
  <2>1. 0 \in 0..2 /\ -1 \in {-1} \cup Nat /\ {} \in SUBSET IdealFlags
    OBVIOUS
  <2> QED BY ONLY <1>1, <1>4, <2>1, q \in IdealChips DEF IdealChips
<1> QED BY <1>1, <1>5, <1>6 DEF e, I

-----------------------------------------------------------------------------
(* The alarms are set again and the flags cleared.                         *)
LEMMA AfterReadIs ==
  ASSUME NEW now \in 0..LastClk, NEW R, NEW d, Sound(d, now, R), Rests(d, now), Trim(d, now),
         d.rdi = now
  PROVE  LET f == FlagsRead(AlarmsAfterRead(d)) IN
         /\ Ready(f, now + 1) /\ Past(f, now) /\ (Still(d) => Still(f))
         /\ f.last_read = Byte(Visible(d.irqflags))
         /\ \A q, e : /\ q \in IdealChips /\ Live(q) /\ Is(d, now, q)
                      /\ e \in IdealChips
                      /\ e = [q EXCEPT !.flags = {}, !.int_in = -1, !.age = 0,
                                       !.last_read = e.last_read]
                      => Tracks(f, now, e) /\ Live(e) /\ e.model = q.model
<1> DEFINE g == AlarmsAfterRead(d)
           f == FlagsRead(g)
<1>1. d \in Shapes(now, R) /\ SideA(d, now) /\ SideB(d, now) /\ now \in Nat
  BY ClkInNat DEF Sound
<1>2. /\ Held(d.ta, d.cra, now) /\ Held(d.tb, InputB(d.crb), now)
      /\ d.ta.clk = now /\ d.tb.clk = now
  BY <1>1 DEF SideA, SideB, Rests
<1>3. /\ Sound(g, now, R) /\ g.ta = SetAlarm(d.ta) /\ g.tb = SetAlarm(d.tb)
      /\ g.irqflags = d.irqflags /\ g.cra = d.cra /\ g.crb = d.crb /\ g.mask = d.mask
      /\ g.model = d.model /\ g.tat = d.tat /\ g.tbt = d.tbt /\ g.rdi = d.rdi
  <2>1. Sound(g, now, R)
    BY BothSet DEF AlarmsAfterRead
  <2> QED BY <1>1, <2>1 DEF AlarmsAfterRead, Shapes
<1> HIDE DEF g
<1>4. /\ f.ta = g.ta /\ f.tb = g.tb /\ f.irqflags = {} /\ ~f.line /\ f.cra = g.cra
      /\ f.crb = g.crb /\ f.mask = g.mask /\ f.model = g.model /\ f.tat = g.tat
      /\ f.tbt = g.tbt /\ f.rdi = g.rdi /\ f.last_read = Byte(Visible(g.irqflags))
  BY <1>3 DEF FlagsRead, ClearInt, Sound, Shapes
<1>5. f \in Shapes(now, {f.last_read})
  <2>1. g \in Shapes(now, R)
    BY <1>3 DEF Sound
  <2>2. 0 \in 0..now + 3
    BY <1>1
  <2> QED BY <2>1, <2>2 DEF FlagsRead, ClearInt, Shapes
<1> HIDE DEF f
<1>6. /\ f.ta.alarmclk = Upcoming(f.ta) /\ f.ta.clk = now /\ f.ta.state = d.ta.state
      /\ Core(f.ta) = Core(d.ta) /\ Upcoming(f.ta) = Upcoming(d.ta)
      /\ Upcoming(f.ta) > now /\ Upcoming(f.ta) \in Int
  <2>1. LET a == SetAlarm(d.ta) IN
        /\ Held(a, d.cra, now) /\ a.alarmclk = Upcoming(a) /\ a.clk = d.ta.clk
        /\ a.state = d.ta.state /\ Core(a) = Core(d.ta) /\ Upcoming(a) > a.clk
        /\ Upcoming(a) = Upcoming(d.ta)
    BY <1>2, SetAlarmIs
  <2>2. f.ta = SetAlarm(d.ta)
    BY <1>3, <1>4
  <2>3. Held(f.ta, d.cra, now)
    BY <2>1, <2>2
  <2>4. Upcoming(f.ta) \in Int
    BY <2>3, HeldLies
  <2> QED BY <1>2, <2>1, <2>2, <2>4
<1>7. /\ f.tb.alarmclk = Upcoming(f.tb) /\ f.tb.clk = now /\ f.tb.state = d.tb.state
      /\ Core(f.tb) = Core(d.tb) /\ Upcoming(f.tb) = Upcoming(d.tb)
  <2>1. LET a == SetAlarm(d.tb) IN
        /\ a.alarmclk = Upcoming(a) /\ a.clk = d.tb.clk
        /\ a.state = d.tb.state /\ Core(a) = Core(d.tb)
        /\ Upcoming(a) = Upcoming(d.tb)
    BY <1>2, SetAlarmIs
  <2>2. f.tb = SetAlarm(d.tb)
    BY <1>3, <1>4
  <2> QED BY <1>2, <2>1, <2>2
<1>8. Ready(f, now + 1) /\ Past(f, now)
  <2>1. Aged(f)
    BY <1>1, <1>3, <1>4, <1>6, <1>7 DEF Aged
  <2>2. StepIsLive(f.tb) /\ "STEP" \notin f.ta.state
    BY <1>6, <1>7 DEF Trim, Fit, StepIsLive
  <2>3. Fit(f, now + 1)
    BY <1>4, <2>1, <2>2 DEF Fit
  <2>4. Follows(f) /\ PausedBy(f.tb, f.ta.clk)
    BY <1>1, <1>6, <1>7 DEF Follows, PausedBy
  <2>5. Lit(f)
    BY <1>4 DEF Lit
  <2> QED BY <1>1, <1>3, <1>4, <1>6, <1>7, <2>3, <2>4, <2>5 DEF Ready, Trim, Past
<1>9. Still(d) => Still(f)
  <2>1. ASSUME Still(d), "START" \notin d.cra PROVE f.ta.alarmclk = ClockMax
    BY <1>1, <1>6, <2>1 DEF Still, SideA, WantedA
  <2>2. ASSUME Still(d), "START" \notin d.crb PROVE f.tb.alarmclk = ClockMax
    BY <1>1, <1>7, <2>2 DEF Still, SideB, WantedB
  <2> QED BY <1>3, <1>4, <2>1, <2>2 DEF Still
<1>10. ASSUME NEW q \in IdealChips, Live(q), Is(d, now, q), NEW e \in IdealChips,
              e = [q EXCEPT !.flags = {}, !.int_in = -1, !.age = 0, !.last_read = e.last_read]
       PROVE  Tracks(f, now, e) /\ Live(e) /\ e.model = q.model
  <2>1. /\ e.ta = q.ta /\ e.cra = q.cra /\ e.tb = q.tb /\ e.model = q.model
        /\ e.mask = q.mask /\ e.crb = q.crb /\ e.tat = q.tat /\ e.tbt = q.tbt
        /\ e.age = 0 /\ e.int_in = -1 /\ e.flags = {}
    BY <1>10 DEF IdealChips
  <2>2. Least(now - f.rdi, 2) = 0
    BY <1>1, <1>3, <1>4 DEF Least
  <2>3. TracksRest(f, now, e)
    BY <1>3, <1>4, <1>10, <2>1, <2>2 DEF Is, TracksRest
  <2>4. ~Pulled(f)
    BY <1>4 DEF Pulled
  <2>5. Is(f, now, e)
    BY <1>3, <1>4, <1>6, <1>7, <1>10, <2>1, <2>3, <2>4 DEF Is
  <2>6. Rests(f, now)
    BY <1>6, <1>7 DEF Rests
  <2>7. Tracks(f, now, e)
    BY <1>1, <1>5, <2>5, <2>6, RestingTracks
  <2> QED BY <1>10, <2>1, <2>7 DEF Live
<1> QED BY <1>3, <1>4, <1>8, <1>9, <1>10 DEF f, g

LEMMA ReadFlagsGoes ==
  ASSUME NEW now \in 0..LastClk, NEW R, NEW c, Sound(c, now, R), Ready(c, now), NEW q,
         ReadLate(c)
  PROVE  LET f == Access(c, ReadReg("ICR"), now)
             e == Ideal!Access(q, ReadReg("ICR")) IN
         Accessed(c, f, now, q, e) /\ (Still(c) => Still(f))
<1> DEFINE b == ReadNow(c, now)
           d == UpdateBoth(b, now)
           f == Access(c, ReadReg("ICR"), now)
           r == [q EXCEPT !.age = 0]
           e == Ideal!Access(q, ReadReg("ICR"))
<1>1. f = FlagsRead(AlarmsAfterRead(d))
  BY DEF Access, ReadReg, Read, ReadFlags, BeforeRead, ReadNow
<1>2. /\ Sound(b, now, R) /\ Trim(b, now) /\ (Still(c) => Still(b)) /\ b.rdi = now
      /\ q \in IdealChips /\ Tracks(c, now, q) => Tracks(b, now, r)
  <2>1. b.rdi = now
    BY ReadyIs DEF ReadNow, Shapes
  <2> HIDE DEF b
  <2> QED BY <2>1, ReadNowIs DEF b
<1> HIDE DEF b
<1>3. /\ Sound(d, now, R) /\ GoesA(b, d, now) /\ Rests(d, now) /\ Trim(d, now) /\ d.rdi = now
      /\ d \in Shapes(now, R) /\ now \in Int
  <2>1. now \in 0..now /\ now \in Int
    BY UpToDate, ClkInNat
  <2>2. Sound(d, now, R) /\ d.ta.clk >= now /\ d.tb.clk >= now
    BY <1>2, <2>1, UpdateBothIs
  <2>3. GoesA(b, d, now)
    BY <1>2, <2>1, UpdateBothGoes
  <2> HIDE DEF d
  <2>4. Rests(d, now)
    BY <2>2, UpToDate DEF Rests
  <2>5. Trim(d, now) /\ d.rdi = now
    BY <1>2, <2>3 DEF GoesA, Same, SameRest
  <2> QED BY <2>1, <2>2, <2>3, <2>4, <2>5 DEF Sound
<1> HIDE DEF d
<1>4. Still(c) => Still(d)
  BY <1>2, <1>3, StillStays
<1>5. /\ Ready(f, now + 1) /\ Past(f, now) /\ (Still(d) => Still(f))
      /\ f.last_read = Byte(Visible(d.irqflags))
      /\ \A u, v : /\ u \in IdealChips /\ Live(u) /\ Is(d, now, u)
                   /\ v \in IdealChips
                   /\ v = [u EXCEPT !.flags = {}, !.int_in = -1, !.age = 0,
                                    !.last_read = v.last_read]
                   => Tracks(f, now, v) /\ Live(v) /\ v.model = u.model
  <2>1. LET g == FlagsRead(AlarmsAfterRead(d)) IN
      /\ Ready(g, now + 1) /\ Past(g, now) /\ (Still(d) => Still(g))
      /\ g.last_read = Byte(Visible(d.irqflags))
      /\ \A u, v : /\ u \in IdealChips /\ Live(u) /\ Is(d, now, u)
                   /\ v \in IdealChips
                   /\ v = [u EXCEPT !.flags = {}, !.int_in = -1, !.age = 0,
                                    !.last_read = v.last_read]
                   => Tracks(g, now, v) /\ Live(v) /\ v.model = u.model
    BY ONLY now \in 0..LastClk, <1>3, AfterReadIs
  <2> HIDE DEF f
  <2> QED BY ONLY <1>1, <2>1
<1> HIDE DEF f
<1>6. ASSUME Joined(c, now, q) PROVE Joined(f, now, e) /\ SameByte(f, e)
  <2>1. q \in IdealChips /\ Live(q) /\ chip.model = q.model /\ Tracks(c, now, q)
    BY <1>6 DEF Joined
  <2>2. r \in IdealChips /\ Live(r) /\ r.model = q.model
    BY <2>1 DEF IdealChips, Live
  <2>3. Is(d, now, r)
    <3>1. Tracks(b, now, r)
      BY <1>2, <2>1
    <3> HIDE DEF r
    <3>2. Tracks(d, now, r)
      BY <1>3, <3>1, SameTracks DEF GoesA
    <3> QED BY <1>3, <3>2, RestingTracks
  <2>4. e = Ideal!ReadFlags(q) /\ Ideal!ReadFlags(q) = Ideal!ReadFlags(r)
    <3>1. e = Ideal!ReadFlags(q)
      BY IdealReads
    <3>2. Ideal!ReadFlags(q) = Ideal!ReadFlags(r)
      BY <2>1 DEF Ideal!ReadFlags, IdealChips
    <3> QED BY <3>1, <3>2
  <2> HIDE DEF r, e
  <2>5. /\ WithoutIR(Byte(Visible(d.irqflags))) = WithoutIR(e.last_read)
        /\ e \in IdealChips
        /\ e = [r EXCEPT !.flags = {}, !.int_in = -1, !.age = 0, !.last_read = e.last_read]
    <3>1. LET i == Ideal!ReadFlags(r) IN
          /\ WithoutIR(Byte(Visible(d.irqflags))) = WithoutIR(i.last_read)
          /\ i \in IdealChips
          /\ i = [r EXCEPT !.flags = {}, !.int_in = -1, !.age = 0, !.last_read = i.last_read]
      BY ONLY <1>3, <2>2, <2>3, SameFlagsRead
    <3> QED BY ONLY <2>4, <3>1
  <2>6. Tracks(f, now, e) /\ Live(e) /\ e.model = r.model
    BY ONLY <1>5, <2>2, <2>3, <2>5
  <2> QED BY <1>5, <2>1, <2>2, <2>5, <2>6 DEF Joined, SameByte
<1> HIDE DEF e
<1>7. Accessed(c, f, now, q, e)
  BY <1>5, <1>6 DEF Accessed
<1> QED BY <1>4, <1>5, <1>7 DEF f, e

-----------------------------------------------------------------------------
(* A timer that is stopped underflows in the next cycle or not at all.     *)
LEMMA StoppedUnderflow ==
  ASSUME NEW t \in Timer, Regular(t), NEW ctl, Kept(t, ctl), "START" \notin t.state
  PROVE  Upcoming(t) \in {t.clk + 1, ClockMax}
<1> DEFINE c == Course(t)
<1>1. ASSUME NEW s \in Timer, "START" \notin s.state
      PROVE  LET r == Cycle(s) IN
             /\ "START" \notin r.state /\ "COUNT2" \notin r.state
             /\ "COUNT2" \notin s.state => "COUNT3" \notin r.state /\ ~AtZero(Inc(s))
  <2>1. Inc(s) \in Timer /\ Inc(s).state = Pipeline(s.state)
    BY IncIs
  <2>2. "START" \notin Pipeline(s.state) /\ "COUNT2" \notin Pipeline(s.state)
        /\ ("COUNT2" \notin s.state => "COUNT3" \notin Pipeline(s.state))
    BY <1>1 DEF Pipeline, Given
  <2> DEFINE u == Inc(s)
  <2>3. u \in Timer /\ "START" \notin u.state /\ "COUNT2" \notin u.state
        /\ ("COUNT2" \notin s.state => "COUNT3" \notin u.state)
    BY <2>1, <2>2
  <2> HIDE DEF u
  <2>4. Reload(u).state \subseteq u.state \cup {"LOAD", "OUT"}
    <3>1. Zeroed(u) \in Timer /\ Zeroed(u).state \subseteq u.state \cup {"LOAD", "OUT"}
      BY <2>3 DEF Zeroed, Given, Timer, Bits
    <3>2. Loaded(Zeroed(u)) \in Timer
          /\ Loaded(Zeroed(u)).state \subseteq Zeroed(u).state
      BY <3>1 DEF Loaded, Timer
    <3>3. Halted(Loaded(Zeroed(u))).state \subseteq Loaded(Zeroed(u)).state
      BY <3>2 DEF Halted, Timer
    <3> QED BY <3>1, <3>2, <3>3 DEF Reload
  <2>5. "COUNT2" \notin s.state => ~AtZero(u)
    BY <2>3 DEF AtZero
  <2> QED BY <2>3, <2>4, <2>5 DEF Cycle, u
<1>2. c \in Courses /\ c[0] = t
  BY CourseIs
<1> HIDE DEF c
<1>3. c[1] \in Timer /\ c[1] = Cycle(t) /\ c[2] \in Timer /\ c[2] = Cycle(c[1])
  <2>1. 0 \in Nat /\ 1 \in Nat /\ 2 \in Nat /\ 0 + 1 = 1 /\ 1 + 1 = 2
    OBVIOUS
  <2> QED BY <1>2, <2>1 DEF Courses
<1>4. ~AtZero(Inc(c[1])) /\ Idling(c[2])
  BY <1>1, <1>3 DEF Idling
<1>5. \A m \in Nat : m >= 1 => ~AtZero(Inc(c[m]))
  <2>1. ASSUME NEW m \in Nat, m >= 2 PROVE ~AtZero(Inc(c[m]))
    <3>1. m - 2 \in Nat /\ 2 + (m - 2) = m /\ 2 \in Nat
      BY <2>1
    <3> QED BY <1>2, <1>4, <3>1, IdleStays
  <2> QED BY <1>4, <2>1
<1>6. \A m \in Nat : Zero(t, m) => m = 0
  BY <1>5 DEF Zero, c
<1>7. t.clk \in Int
  BY DEF Timer
<1>8. \/ Upcoming(t) = ClockMax
      \/ \E m \in 0..4 + MaxLatch : FirstZero(t, m) /\ Upcoming(t) = t.clk + (m + 1)
  BY UpcomingIs
<1> QED BY <1>6, <1>7, <1>8, CiaBusAssumption DEF FirstZero

(* Between two instructions a timer that is to be stopped has no alarm     *)
(* that is still to come.                                                  *)
Halting(c, now) ==
  /\ "START" \notin c.cra => c.ta.alarmclk = ClockMax \/ c.ta.alarmclk <= now
  /\ "START" \notin c.crb => c.tb.alarmclk = ClockMax \/ c.tb.alarmclk <= now

LEMMA HaltsInTime ==
  ASSUME NEW now \in 0..LastClk, now + 1 \in 0..LastClk, NEW R, NEW f, Sound(f, now + 1, R),
         Past(f, now)
  PROVE  Halting(f, now + 1)
<1>1. /\ Held(f.ta, f.cra, now + 1) /\ Held(f.tb, InputB(f.crb), now + 1)
      /\ "START" \notin f.cra => f.ta.alarmclk = Upcoming(f.ta)
      /\ "START" \notin f.crb => f.tb.alarmclk = Upcoming(f.tb)
  BY DEF Sound, SideA, SideB, WantedA, WantedB
<1>2. ASSUME NEW t, NEW ctl, Held(t, ctl, now + 1), "START" \notin ctl, t.clk <= now
      PROVE  Upcoming(t) = ClockMax \/ Upcoming(t) <= now + 1
  <2>1. t \in Timer /\ Regular(t) /\ Kept(t, ctl) /\ "START" \notin t.state /\ t.clk \in Int
    BY <1>2 DEF Held, Kept, Timer
  <2>2. Upcoming(t) \in {t.clk + 1, ClockMax}
    BY <2>1, StoppedUnderflow
  <2> QED BY <1>2, <2>1, <2>2
<1>3. "START" \notin f.crb => "START" \notin InputB(f.crb)
  BY DEF InputB
<1> QED BY <1>1, <1>2, <1>3 DEF Halting, Past

LEMMA HaltingStays ==
  ASSUME NEW now, NEW c, NEW d, GoesA(c, d, now), Halting(c, now)
  PROVE  Halting(d, now)
BY DEF GoesA, Same, SameRest, SameControl, Stops, Halting

-----------------------------------------------------------------------------
(* What instructions are made of: only the last cycle may change a         *)
(* control register, and nothing comes before a read of the flags.         *)
Harmless == {NoAccess, ReadReg("ICR"), WriteOld}

Orderly(s) ==
  /\ \A i \in 1..Len(s) - 1 : s[i] \in Harmless
  /\ \A i \in 1..Len(s) : s[i] = ReadReg("ICR") => \A j \in 1..i - 1 : s[j] = NoAccess

LEMMA AfterFetches ==
  ASSUME NEW r \in Seq(Accesses)
  PROVE  LET s == Fetches(3) \o r IN
         /\ s \in Seq(Accesses) /\ Len(s) = 3 + Len(r) /\ Len(r) \in Nat
         /\ \A i \in 1..3 : s[i] = NoAccess
         /\ \A i \in 1..Len(r) : s[3 + i] = r[i]
<1> DEFINE f == Fetches(3)
           s == f \o r
<1>1. f \in Seq(Accesses) /\ Len(f) = 3 /\ \A i \in 1..3 : f[i] = NoAccess
  <2>1. f = [i \in 1..3 |-> NoAccess] /\ NoAccess \in Accesses
    BY DEF Fetches, Accesses
  <2> HIDE DEF f
  <2> QED BY <2>1
<1> HIDE DEF f
<1>2. /\ s \in Seq(Accesses) /\ Len(s) = Len(f) + Len(r)
      /\ \A i \in 1..Len(f) + Len(r) : s[i] = IF i <= Len(f) THEN f[i] ELSE r[i - Len(f)]
  BY ONLY <1>1, r \in Seq(Accesses), ConcatProperties
<1>3. Len(r) \in Nat
  OBVIOUS
<1> HIDE DEF s
<1>4. \A i \in 1..3 : s[i] = NoAccess
  BY <1>1, <1>2, <1>3
<1>5. ASSUME NEW i \in 1..Len(r) PROVE s[3 + i] = r[i]
  <2>1. 3 + i \in 1..3 + Len(r) /\ ~(3 + i <= 3) /\ (3 + i) - 3 = i
    BY <1>3
  <2> QED BY <1>1, <1>2, <2>1
<1> QED BY <1>1, <1>2, <1>3, <1>4, <1>5 DEF s, f

LEMMA InstructionsAreOrderly ==
  Orderly(IdleInstruction) /\ \A s \in Instructions : Orderly(s)
<1>1. /\ NoAccess \in Harmless /\ ReadReg("ICR") \in Harmless /\ WriteOld \in Harmless
      /\ NoAccess # ReadReg("ICR") /\ WriteOld # ReadReg("ICR") /\ WriteNew # ReadReg("ICR")
      /\ NoAccess \in Accesses /\ ReadReg("ICR") \in Accesses /\ WriteOld \in Accesses
      /\ WriteNew \in Accesses
  BY DEF Harmless, NoAccess, ReadReg, WriteOld, WriteNew, Accesses
<1>2. Orderly(IdleInstruction)
  <2> DEFINE f == Fetches(3)
  <2>1. f = [i \in 1..3 |-> NoAccess]
    BY DEF Fetches
  <2>2. Len(f) = 3 /\ \A i \in 1..3 : f[i] = NoAccess
    BY <2>1
  <2> HIDE DEF f
  <2>3. Orderly(f)
    BY <1>1, <2>2 DEF Orderly
  <2> QED BY <2>3 DEF IdleInstruction, f
<1>3. ASSUME NEW a \in Reads \cup Writes PROVE Orderly(Fetches(3) \o <<a>>)
  <2> DEFINE r == <<a>>
             s == Fetches(3) \o r
  <2>1. r \in Seq(Accesses) /\ Len(r) = 1 /\ r[1] = a
    BY DEF Accesses
  <2> HIDE DEF r
  <2>2. /\ Len(s) = 3 + Len(r) /\ \A i \in 1..3 : s[i] = NoAccess
        /\ \A i \in 1..Len(r) : s[3 + i] = r[i]
    BY <2>1, AfterFetches
  <2> HIDE DEF s
  <2>3. Len(s) = 4 /\ s[1] = NoAccess /\ s[2] = NoAccess /\ s[3] = NoAccess /\ s[4] = a
    <3>1. 1 \in 1..Len(r) /\ 3 + 1 = 4 /\ Len(r) = 1
      BY <2>1
    <3> QED BY <2>1, <2>2, <3>1
  <2>4. Orderly(s)
    <3>1. \A i \in 1..3 : s[i] = NoAccess
      BY <2>2
    <3>2. 1..Len(s) - 1 = 1..3
      BY <2>3
    <3>3. ASSUME NEW i \in 1..Len(s), s[i] = ReadReg("ICR"), NEW j \in 1..i - 1
          PROVE  s[j] = NoAccess
      BY <2>3, <3>1
    <3> QED BY <1>1, <3>1, <3>2, <3>3 DEF Orderly
  <2> QED BY <2>4 DEF s, r
<1>4. Orderly(Increment)
  <2> DEFINE r == <<ReadReg("ICR"), WriteOld, WriteNew>>
             s == Fetches(3) \o r
  <2>1. r \in Seq(Accesses) /\ Len(r) = 3 /\ r[1] = ReadReg("ICR") /\ r[2] = WriteOld
        /\ r[3] = WriteNew
    BY <1>1
  <2> HIDE DEF r
  <2>2. /\ Len(s) = 3 + Len(r) /\ \A i \in 1..3 : s[i] = NoAccess
        /\ \A i \in 1..Len(r) : s[3 + i] = r[i]
    BY <2>1, AfterFetches
  <2> HIDE DEF s
  <2>3. /\ Len(s) = 6 /\ s[1] = NoAccess /\ s[2] = NoAccess /\ s[3] = NoAccess
        /\ s[4] = ReadReg("ICR") /\ s[5] = WriteOld /\ s[6] = WriteNew
    <3>1. 1 \in 1..Len(r) /\ 2 \in 1..Len(r) /\ 3 \in 1..Len(r)
          /\ 3 + 1 = 4 /\ 3 + 2 = 5 /\ 3 + 3 = 6
      BY <2>1
    <3>2. s[3 + 1] = r[1] /\ s[3 + 2] = r[2] /\ s[3 + 3] = r[3]
      BY <2>2, <3>1
    <3> QED BY <2>1, <2>2, <3>1, <3>2
  <2>4. Orderly(s)
    <3>1. ASSUME NEW i \in 1..Len(s) - 1 PROVE s[i] \in Harmless
      <4>1. i = 1 \/ i = 2 \/ i = 3 \/ i = 4 \/ i = 5
        BY <2>3
      <4> QED BY <1>1, <2>3, <4>1
    <3>2. ASSUME NEW i \in 1..Len(s), s[i] = ReadReg("ICR"), NEW j \in 1..i - 1
          PROVE  s[j] = NoAccess
      <4>1. i \in {1, 2, 3, 4, 5, 6}
        BY <2>3
      <4>2. i = 4
        BY <1>1, <2>3, <3>2, <4>1
      <4>3. j \in {1, 2, 3}
        BY <4>2
      <4> QED BY <2>3, <4>3
    <3> QED BY <3>1, <3>2 DEF Orderly
  <2>5. Increment = s
    BY DEF Increment, s, r
  <2> QED BY <2>4, <2>5
<1> QED BY <1>2, <1>3, <1>4 DEF Instructions

LEMMA OrderlyGoesOn ==
  ASSUME cycles \in Seq(Accesses), cycles # <<>>, Orderly(cycles), cycles' = Tail(cycles)
  PROVE  /\ Orderly(cycles')
         /\ cycles' # <<>> => Head(cycles) \in Harmless
         /\ (\E i \in 1..Len(cycles') : cycles'[i] = ReadReg("ICR")) =>
              Head(cycles) = NoAccess /\ \E i \in 1..Len(cycles) : cycles[i] = ReadReg("ICR")
         /\ Head(cycles) = ReadReg("ICR") => \E i \in 1..Len(cycles) : cycles[i] = ReadReg("ICR")
<1>1. /\ Head(cycles) = cycles[1] /\ Len(cycles) \in Nat /\ Len(cycles) >= 1
      /\ cycles' \in Seq(Accesses) /\ Len(cycles') = Len(cycles) - 1
      /\ \A i \in 1..Len(cycles) - 1 : cycles'[i] = cycles[i + 1]
  OBVIOUS
<1>2. cycles' # <<>> => Len(cycles) - 1 >= 1
  BY <1>1
<1>3. cycles' # <<>> => Head(cycles) \in Harmless
  BY <1>1, <1>2 DEF Orderly
<1>4. \A i \in 1..Len(cycles') - 1 : cycles'[i] \in Harmless
  <2>1. ASSUME NEW i \in 1..Len(cycles') - 1 PROVE cycles'[i] \in Harmless
    <3>1. i + 1 \in 1..Len(cycles) - 1 /\ i \in 1..Len(cycles) - 1
      BY <1>1
    <3> QED BY <1>1, <3>1 DEF Orderly
  <2> QED BY <2>1
<1>5. ASSUME NEW i \in 1..Len(cycles'), cycles'[i] = ReadReg("ICR")
      PROVE  /\ \A j \in 1..i - 1 : cycles'[j] = NoAccess
             /\ Head(cycles) = NoAccess /\ \E k \in 1..Len(cycles) : cycles[k] = ReadReg("ICR")
  <2>1. i + 1 \in 1..Len(cycles) /\ cycles[i + 1] = ReadReg("ICR") /\ i \in Nat /\ i >= 1
    BY <1>1, <1>5
  <2>2. \A j \in 1..(i + 1) - 1 : cycles[j] = NoAccess
    BY <2>1 DEF Orderly
  <2>3. ASSUME NEW j \in 1..i - 1 PROVE cycles'[j] = NoAccess
    <3>1. j + 1 \in 1..(i + 1) - 1 /\ j \in 1..Len(cycles) - 1
      BY <1>1, <2>1
    <3> QED BY <1>1, <2>2, <3>1
  <2>4. 1 \in 1..(i + 1) - 1
    BY <2>1
  <2> QED BY <1>1, <2>1, <2>2, <2>3, <2>4
<1>6. Head(cycles) = ReadReg("ICR") => \E i \in 1..Len(cycles) : cycles[i] = ReadReg("ICR")
  BY <1>1
<1> QED BY <1>3, <1>4, <1>5, <1>6 DEF Orderly

-----------------------------------------------------------------------------
(* A cycle of the bus.                                                     *)
LEMMA OnBusIs ==
  /\ OnBus(NoAccess) = NoAccess
  /\ \A reg : OnBus(ReadReg(reg)) = ReadReg(reg)
  /\ \A reg, byte : OnBus(WriteReg(reg, byte)) = WriteReg(reg, byte)
  /\ OnBus(WriteOld) = WriteReg("ICR", cia.last_read.bits)
  /\ OnBus(WriteNew) = WriteReg("ICR", Incremented(cia.last_read.bits))
BY DEF OnBus, NoAccess, ReadReg, WriteReg, WriteOld, WriteNew

LEMMA WritesAreMasks ==
  ASSUME NEW c, NEW now
  PROVE  /\ \A byte : Access(c, WriteReg("ICR", byte), now) = WriteMask(c, byte, now)
         /\ Access(c, WriteOld, now) = WriteMask(c, c.last_read.bits, now)
         /\ Access(c, WriteNew, now) = WriteMask(c, Incremented(c.last_read.bits), now)
BY DEF Access, Written, WriteReg, WriteOld, WriteNew, Write

LEMMA HarmlessKinds ==
  /\ \A reg, byte : WriteReg(reg, byte) \notin Harmless /\ WriteReg(reg, byte) # NoAccess
  /\ WriteNew \notin Harmless /\ WriteNew # NoAccess /\ WriteOld # NoAccess
  /\ \A reg : ReadReg(reg) # NoAccess /\ (reg # "ICR" => ReadReg(reg) \notin Harmless)
BY DEF Harmless, NoAccess, ReadReg, WriteReg, WriteOld, WriteNew

LEMMA AccessGoes ==
  ASSUME NEW now \in 0..LastClk, now + 1 \in 0..LastClk, Sound(cia, now, ByteStates),
         Ready(cia, now), Still(cia), Joined(cia, now, chip), NEW a \in Accesses,
         a = WriteOld => cia.last_read.bits \subseteq Flags,
         a = ReadReg("ICR") => ReadLate(cia), ~KeepsStep(a)
  PROVE  LET f == Access(cia, a, now)
             e == Ideal!Access(chip, OnBus(a)) IN
         /\ Accessed(cia, f, now, chip, e)
         /\ a \in Harmless => Still(f)
         /\ a = NoAccess /\ ReadLate(cia) => ReadLate(f)
<1>1. CASE a = NoAccess
  <2>1. LET f == Access(cia, NoAccess, now)
            e == Ideal!Access(chip, NoAccess) IN
         Accessed(cia, f, now, chip, e) /\ (Still(cia) => Still(f))
    BY ONLY now \in 0..LastClk, Sound(cia, now, ByteStates), Ready(cia, now), NoAccessGoes
  <2>2. LET f == Access(cia, NoAccess, now) IN f.tb = cia.tb /\ f.rdi = cia.rdi
    BY DEF Access, NoAccess, Sound, Shapes
  <2>3. ReadLate(cia) => ReadLate(Access(cia, NoAccess, now))
    BY <2>2 DEF ReadLate
  <2>4. OnBus(a) = NoAccess
    BY <1>1, OnBusIs
  <2> QED BY <1>1, <2>1, <2>3, <2>4
<1>2. ASSUME NEW byte \in SUBSET Flags, OnBus(a) = WriteReg("ICR", byte),
             Access(cia, a, now) = WriteMask(cia, byte, now), a # NoAccess
      PROVE  LET f == Access(cia, a, now)
                 e == Ideal!Access(chip, OnBus(a)) IN
             /\ Accessed(cia, f, now, chip, e)
             /\ a \in Harmless => Still(f)
             /\ a = NoAccess /\ ReadLate(cia) => ReadLate(f)
  <2>1. LET f == WriteMask(cia, byte, now)
            e == Ideal!Access(chip, WriteReg("ICR", byte)) IN
         Accessed(cia, f, now, chip, e) /\ (Still(cia) => Still(f))
    BY ONLY now \in 0..LastClk, Sound(cia, now, ByteStates), Ready(cia, now),
            byte \in SUBSET Flags, WriteMaskGoes
  <2> QED BY <1>2, <2>1
<1>3. CASE a = WriteOld
  <2>1. cia.last_read.bits \in SUBSET Flags /\ a # NoAccess
    BY <1>3, HarmlessKinds
  <2>2. OnBus(a) = WriteReg("ICR", cia.last_read.bits)
        /\ Access(cia, a, now) = WriteMask(cia, cia.last_read.bits, now)
    BY <1>3, OnBusIs, WritesAreMasks
  <2> QED BY <1>2, <2>1, <2>2
<1>4. CASE a = WriteNew
  <2> DEFINE byte == Incremented(cia.last_read.bits)
  <2>1. byte \in SUBSET Flags /\ a # NoAccess
    BY <1>4, HarmlessKinds DEF Incremented, Flags, Sources
  <2>2. OnBus(a) = WriteReg("ICR", byte) /\ Access(cia, a, now) = WriteMask(cia, byte, now)
    BY <1>4, OnBusIs, WritesAreMasks
  <2> QED BY <1>2, <2>1, <2>2
<1>5. ASSUME NEW reg \in {"TAL", "TBL", "CRA", "CRB", "ICR"}, a = ReadReg(reg)
      PROVE  LET f == Access(cia, a, now)
                 e == Ideal!Access(chip, OnBus(a)) IN
             /\ Accessed(cia, f, now, chip, e)
             /\ a \in Harmless => Still(f)
             /\ a = NoAccess /\ ReadLate(cia) => ReadLate(f)
  <2>1. OnBus(a) = ReadReg(reg) /\ a # NoAccess
    BY <1>5, OnBusIs, HarmlessKinds
  <2>2. CASE reg \in {"TAL", "CRA"}
    <3>1. LET f == Access(cia, ReadReg(reg), now)
              e == Ideal!Access(chip, ReadReg(reg)) IN
          Accessed(cia, f, now, chip, e)
      BY ONLY now \in 0..LastClk, Sound(cia, now, ByteStates), Ready(cia, now), <2>2, ReadAGoes
    <3>2. a \notin Harmless
      BY <1>5, <2>2, HarmlessKinds
    <3> QED BY <1>5, <2>1, <3>1, <3>2
  <2>3. CASE reg \in {"TBL", "CRB"}
    <3>1. LET f == Access(cia, ReadReg(reg), now)
              e == Ideal!Access(chip, ReadReg(reg)) IN
          Accessed(cia, f, now, chip, e)
      BY ONLY now \in 0..LastClk, Sound(cia, now, ByteStates), Ready(cia, now), <2>3, ReadBGoes
    <3>2. a \notin Harmless
      BY <1>5, <2>3, HarmlessKinds
    <3> QED BY <1>5, <2>1, <3>1, <3>2
  <2>4. CASE reg = "ICR"
    <3>1. ReadLate(cia)
      BY <1>5, <2>4
    <3>2. LET f == Access(cia, ReadReg("ICR"), now)
              e == Ideal!Access(chip, ReadReg("ICR")) IN
          Accessed(cia, f, now, chip, e) /\ (Still(cia) => Still(f))
      BY ONLY now \in 0..LastClk, Sound(cia, now, ByteStates), Ready(cia, now), <3>1, ReadFlagsGoes
    <3> QED BY <1>5, <2>1, <2>4, <3>2
  <2> QED BY <2>2, <2>3, <2>4
<1>6. ASSUME NEW reg, NEW byte, a = WriteReg(reg, byte),
             \/ reg \in {"TAL", "TBL"} /\ byte \in 0..MaxLatch
             \/ reg \in {"TAH", "TBH"}
             \/ reg = "ICR" /\ byte \in SUBSET Flags
             \/ reg \in {"CRA", "CRB"} /\ byte \in SUBSET ControlBits
      PROVE  LET f == Access(cia, a, now)
                 e == Ideal!Access(chip, OnBus(a)) IN
             /\ Accessed(cia, f, now, chip, e)
             /\ a \in Harmless => Still(f)
             /\ a = NoAccess /\ ReadLate(cia) => ReadLate(f)
  <2>1. OnBus(a) = WriteReg(reg, byte) /\ a # NoAccess /\ a \notin Harmless
    BY <1>6, OnBusIs, HarmlessKinds
  <2>2. ASSUME LET f == Access(cia, WriteReg(reg, byte), now)
                   e == Ideal!Access(chip, WriteReg(reg, byte)) IN Accessed(cia, f, now, chip, e)
        PROVE  LET f == Access(cia, a, now)
                   e == Ideal!Access(chip, OnBus(a)) IN
               /\ Accessed(cia, f, now, chip, e)
               /\ a \in Harmless => Still(f)
               /\ a = NoAccess /\ ReadLate(cia) => ReadLate(f)
    BY <1>6, <2>1, <2>2
  <2>3. CASE reg = "ICR"
    <3>1. byte \in SUBSET Flags
      BY <1>6, <2>3
    <3>2. Access(cia, a, now) = WriteMask(cia, byte, now) /\ OnBus(a) = WriteReg("ICR", byte)
      BY <1>6, <2>1, <2>3, WritesAreMasks
    <3> QED BY <1>2, <2>1, <3>1, <3>2
  <2>4. CASE reg \in {"TAL", "TAH"}
    <3>1. reg = "TAL" => byte \in 0..MaxLatch
      BY <1>6, <2>4
    <3>2. LET f == Access(cia, WriteReg(reg, byte), now)
              e == Ideal!Access(chip, WriteReg(reg, byte)) IN Accessed(cia, f, now, chip, e)
      BY ONLY now \in 0..LastClk, now + 1 \in 0..LastClk, Sound(cia, now, ByteStates),
              Ready(cia, now), <2>4, <3>1, WriteTAGoes
    <3> QED BY <2>2, <3>2
  <2>5. CASE reg \in {"TBL", "TBH"}
    <3>1. reg = "TBL" => byte \in 0..MaxLatch
      BY <1>6, <2>5
    <3>2. LET f == Access(cia, WriteReg(reg, byte), now)
              e == Ideal!Access(chip, WriteReg(reg, byte)) IN Accessed(cia, f, now, chip, e)
      BY ONLY now \in 0..LastClk, now + 1 \in 0..LastClk, Sound(cia, now, ByteStates),
              Ready(cia, now), <2>5, <3>1, WriteTBGoes
    <3> QED BY <2>2, <3>2
  <2>6. CASE reg = "CRA"
    <3>1. byte \in SUBSET ControlBits
      BY <1>6, <2>6
    <3>2. LET f == Access(cia, WriteReg("CRA", byte), now)
              e == Ideal!Access(chip, WriteReg("CRA", byte)) IN Accessed(cia, f, now, chip, e)
      BY ONLY now \in 0..LastClk, now + 1 \in 0..LastClk, Sound(cia, now, ByteStates),
              Ready(cia, now), <3>1, WriteCRAGoes
    <3> QED BY <2>2, <2>6, <3>2
  <2>7. CASE reg = "CRB"
    <3>1. byte \in SUBSET ControlBits
      BY <1>6, <2>7
    <3>2. "START" \in byte \/ "STEP" \notin chip.tb.state
      BY <1>6, <2>7 DEF KeepsStep, WriteReg
    <3>3. LET f == Access(cia, WriteReg("CRB", byte), now) IN
          /\ "START" \in byte \/ "START" \notin cia.crb => Ready(f, now + 1) /\ Past(f, now)
          /\ \A q : Still(cia) /\ Joined(cia, now, q)
                      /\ ("START" \in byte \/ "STEP" \notin q.tb.state) =>
                    Accessed(cia, f, now, q, Ideal!Access(q, WriteReg("CRB", byte)))
      BY ONLY now \in 0..LastClk, now + 1 \in 0..LastClk, Sound(cia, now, ByteStates),
              Ready(cia, now), <3>1, WriteCRBGoes
    <3>4. LET f == Access(cia, WriteReg("CRB", byte), now)
              e == Ideal!Access(chip, WriteReg("CRB", byte)) IN Accessed(cia, f, now, chip, e)
      BY ONLY <3>2, <3>3, Still(cia), Joined(cia, now, chip)
    <3> QED BY <2>2, <2>7, <3>4
  <2> QED BY <1>6, <2>3, <2>4, <2>5, <2>6, <2>7
<1> QED BY <1>1, <1>3, <1>4, <1>5, <1>6, AccessesAre

-----------------------------------------------------------------------------
(* As long as timer B has not been stopped in a cycle it was stepped in,   *)
(* the two chips are in step: brought to the present tick the one is the   *)
(* other.                                                                  *)
ReadsFlags(s) == \E i \in 1..Len(s) : s[i] = ReadReg("ICR")

InStep ==
  /\ Ready(cia, clk) /\ Joined(cia, clk, chip) /\ SameByte(cia, chip)
  /\ IF Boundary THEN Halting(cia, clk) ELSE Still(cia)
  /\ ReadsFlags(cycles) => ReadLate(cia)

ComparisonInv == CiaInv /\ Orderly(cycles) /\ (stepKept \/ InStep)

LEMMA ClockIs ==
  ASSUME CiaInv
  PROVE  /\ clk \in 0..LastClk /\ clk \in 1..clk /\ clk \in 0..clk /\ clk \in Nat
         /\ Sound(cia, clk, ByteStates) /\ LastClk \in Nat
         /\ cycles \in Seq(Accesses) /\ (~Boundary => clk + 1 \in 0..LastClk)
<1>1. /\ Sound(cia, clk, ByteStates) /\ cycles \in Seq(Accesses)
      /\ clk \in 1..LastClk
      /\ clk + Len(cycles) + 6 * left.accesses + 3 * left.idle <= LastClk
      /\ left.accesses \in Nat /\ left.idle \in Nat /\ LastClk \in Nat
  BY CiaAssumption, CiaBusAssumption DEF CiaInv, ClockIsBounded, Bounds, LastClk, LastTick
<1>2. ~Boundary => Len(cycles) \in Nat /\ Len(cycles) >= 1
  BY <1>1 DEF Boundary
<1> QED BY <1>1, <1>2

LEMMA InStepCycle ==
  ASSUME CiaInv, Orderly(cycles), InStep, BusCycle, ~KeepsStep(Head(cycles)),
         Ideal!IdealCycle(OnBus(Head(cycles)))
  PROVE  InStep'
<1> DEFINE a == Head(cycles)
           f == Access(cia, a, clk)
           e == Ideal!Access(chip, OnBus(a))
           r == Ideal!Count(e)
<1>1. /\ cia' = f /\ clk' = clk + 1 /\ cycles' = Tail(cycles) /\ cycles # <<>> /\ ~Boundary
  BY DEF BusCycle, Boundary
<1>2. chip' = r
  BY DEF Ideal!IdealCycle
<1>3. /\ clk \in 0..LastClk /\ clk + 1 \in 0..LastClk /\ clk \in Nat /\ clk + 1 \in Nat
      /\ Sound(cia, clk, ByteStates) /\ cycles \in Seq(Accesses) /\ a \in Accesses
  BY <1>1, ClockIs
<1>4. /\ Ready(cia, clk) /\ Joined(cia, clk, chip) /\ SameByte(cia, chip) /\ Still(cia)
      /\ ReadsFlags(cycles) => ReadLate(cia)
  BY <1>1 DEF InStep
<1>5. /\ Orderly(cycles')
      /\ cycles' # <<>> => a \in Harmless
      /\ ReadsFlags(cycles') => a = NoAccess /\ ReadsFlags(cycles)
      /\ a = ReadReg("ICR") => ReadsFlags(cycles)
  BY <1>1, <1>3, OrderlyGoesOn DEF ReadsFlags
<1>6. a = WriteOld => cia.last_read.bits \subseteq Flags
  <2>1. a = cycles[1] /\ Len(cycles) >= 1 /\ Len(cycles) \in Nat
    BY <1>1, <1>3
  <2> QED BY <2>1 DEF CiaInv, WritesBackFlags
<1>7. /\ Accessed(cia, f, clk, chip, e)
      /\ a \in Harmless => Still(f)
      /\ a = NoAccess /\ ReadLate(cia) => ReadLate(f)
  BY ONLY <1>3, <1>4, <1>5, <1>6, ~KeepsStep(Head(cycles)), AccessGoes
<1>8. Sound(f, clk + 1, ByteStates)
  BY ONLY <1>3, <1>6, AccessIs
<1> HIDE DEF a, f, e
<1>9. Ready(f, clk + 1) /\ Past(f, clk) /\ Joined(f, clk, e) /\ SameByte(f, e)
  BY <1>4, <1>7 DEF Accessed
<1>10. /\ f \in Shapes(clk + 1, ByteStates) /\ f.ta.clk <= clk /\ f.tb.clk <= clk
       /\ f.rdi <= clk /\ f.rdi <= f.tb.clk
  <2>1. Aged(f) /\ f \in Shapes(clk + 1, ByteStates) /\ f.rdi \in 0..clk + 1 /\ f.rdi # clk + 1
    BY ONLY <1>3, <1>8, <1>9, ReadyIs
  <2> QED BY <1>3, <1>9, <2>1 DEF Past, Aged
<1>11. e \in IdealChips /\ Live(e) /\ Tracks(f, clk, e) /\ chip.model = e.model
  BY <1>9 DEF Joined
<1>12. r \in IdealChips /\ Live(r) /\ Tracks(f, clk + 1, r) /\ r.last_read = e.last_read
  BY ONLY <1>3, <1>10, <1>11, OneTick
<1> HIDE DEF r
<1>13. Joined(cia, clk, chip)'
  BY <1>1, <1>2, <1>12 DEF Joined
<1>14. SameByte(cia, chip)'
  BY <1>1, <1>2, <1>9, <1>12 DEF SameByte
<1>15. ~Boundary' => Still(cia')
  BY <1>1, <1>5, <1>7 DEF Boundary
<1>16. Halting(cia', clk')
  BY <1>1, <1>3, <1>8, <1>9, HaltsInTime
<1>17. ReadsFlags(cycles') => ReadLate(cia')
  BY <1>1, <1>4, <1>5, <1>7
<1> QED BY <1>1, <1>9, <1>13, <1>14, <1>15, <1>16, <1>17 DEF InStep

-----------------------------------------------------------------------------
(* The alarm of timer B, when that of timer A is not due before it.        *)
LEMMA AlarmTBGoes ==
  ASSUME NEW now \in 0..LastClk, NEW R, NEW c, Sound(c, now, R), Trim(c, now),
         c.tb.alarmclk <= now, c.tb.alarmclk <= c.ta.alarmclk
  PROVE  GoesA(c, IntTB(c, c.tb.alarmclk), now)
<1> DEFINE W == StepsB(c)
           tick == c.tb.alarmclk
           d == IntTB(c, tick)
<1>1. c \in Shapes(now, R) /\ Held(c.ta, c.cra, now) /\ Agreed(c.ta)
      /\ Held(c.tb, InputB(c.crb), now) /\ Agreed(c.tb)
  BY DEF Sound, SideA, SideB
<1>2. tick \in Nat /\ c.ta.alarmclk \in Nat /\ c.ta \in Timer /\ c.ta.clk \in Int
  BY <1>1, AlarmLies, HeldLies DEF Timer
<1>3. /\ W \subseteq Int
      /\ CountsTA(c) => c.ta.alarmclk = Upcoming(c.ta)
      /\ \A j \in W : CountsTA(c) /\ j >= Upcoming(c.ta)
  BY StepsLie
<1> HIDE DEF W
<1>4. \A j \in W : j >= tick
  <2>1. ASSUME NEW j \in W PROVE j >= tick
    <3>1. j \in Int /\ j >= c.ta.alarmclk
      BY <1>3
    <3> QED BY <1>2, <3>1
  <2> QED BY <2>1
<1>5. Sound(d, now, R) /\ d.ta = c.ta /\ SameControl(c, d) /\ d.tb.clk = tick
  BY IntTBIs
<1>6. Fit(c, now) /\ PausedBy(c.tb, c.ta.clk)
  BY DEF Trim
<1>7. GoesB(c, d, W, now)
  BY <1>3, <1>4, <1>6, IntTBGoes
<1> HIDE DEF d
<1>8. StepsB(d) = W
  BY <1>2, <1>5, StepsStay DEF W, SameControl
<1>9. Follows(d)
  BY <1>3, <1>5 DEF Follows, CountsTA, SameControl
<1>10. PausedBy(d.tb, d.ta.clk)
  BY <1>2, <1>5, <1>6, <1>7 DEF GoesB
<1>11. GoesA(c, d, now)
  BY <1>5, <1>7, <1>8, <1>9, <1>10 DEF GoesA, GoesB, Trim, Stops, W
<1> QED BY <1>11 DEF d

(* What happens to the chip between two instructions.                      *)
LEMMA InStepGoes ==
  ASSUME CiaInv, InStep, Boundary, cycles' = cycles, clk' = clk, chip' = chip,
         GoesA(cia, cia', clk)
  PROVE  InStep'
<1>1. clk \in 0..LastClk /\ Sound(cia, clk, ByteStates)
  BY ClockIs
<1>2. Ready(cia, clk) /\ Joined(cia, clk, chip) /\ SameByte(cia, chip) /\ Halting(cia, clk)
  BY DEF InStep
<1>3. Ready(cia', clk) /\ (Joined(cia, clk, chip) <=> Joined(cia', clk, chip))
  BY ONLY <1>1, <1>2, GoesA(cia, cia', clk), UpdatedStays
<1>4. Joined(cia, clk, chip)'
  BY <1>2, <1>3 DEF Joined
<1>5. SameByte(cia, chip)'
  BY <1>2 DEF SameByte, GoesA, Same, SameRest
<1>6. Halting(cia', clk)
  BY <1>2, HaltingStays
<1>7. Boundary' /\ ~ReadsFlags(cycles')
  BY DEF Boundary, ReadsFlags
<1> QED BY <1>3, <1>4, <1>5, <1>6, <1>7 DEF InStep

LEMMA InStepDispatch == ASSUME CiaInv, InStep, Dispatch, chip' = chip PROVE InStep'
<1>1. clk \in 0..LastClk /\ clk \in Nat /\ Sound(cia, clk, ByteStates) /\ Trim(cia, clk)
  BY ClockIs DEF InStep, Ready
<1>2. cia.ta.pending = cia.ta.alarmclk /\ cia.tb.pending = cia.tb.alarmclk
      /\ cia.ta.pending \in Nat /\ cia.tb.pending \in Nat
  BY <1>1, AlarmLies DEF Sound, SideA, SideB, Agreed
<1>3. Boundary /\ clk' = clk /\ cycles' = cycles /\ Due # {}
      /\ \/ cia.ta.pending = Earliest /\ cia' = IntTA(cia, Earliest)
         \/ cia.tb.pending = Earliest /\ cia' = IntTB(cia, Earliest)
  BY DEF Dispatch
<1>4. Earliest \in Due /\ \A p \in Due : Earliest <= p
  <2>1. \A p \in Due : p \in {cia.ta.pending, cia.tb.pending}
    BY DEF Due
  <2>2. \A p \in Due : p \in Nat
    BY <1>2, <2>1
  <2>3. \E p \in Due : \A q \in Due : p <= q
    <3>1. PICK p \in Due : TRUE
      BY <1>3
    <3>2. CASE \A q \in Due : p <= q
      BY <3>2
    <3>3. ASSUME NEW q \in Due, ~(p <= q) PROVE \A r \in Due : q <= r
      <4>1. p \in Nat /\ q \in Nat /\ q <= p /\ p # q
        BY <2>2, <3>3
      <4>2. \A r \in Due : r = p \/ r = q
        BY <2>1, <4>1
      <4> QED BY <4>1, <4>2
    <3> QED BY <3>2, <3>3
  <2> QED BY <2>3 DEF Earliest
<1>5. Earliest <= clk /\ (cia.ta.pending <= clk => Earliest <= cia.ta.pending)
  BY <1>4 DEF Due
<1>6. GoesA(cia, cia', clk)
  <2>1. ASSUME cia.ta.pending = Earliest, cia' = IntTA(cia, Earliest)
        PROVE  GoesA(cia, cia', clk)
    <3>1. Earliest = cia.ta.alarmclk /\ cia.ta.alarmclk <= clk
      BY <1>2, <1>5, <2>1
    <3>2. GoesA(cia, IntTA(cia, cia.ta.alarmclk), clk)
      BY <1>1, <3>1, IntTAGoes
    <3> QED BY <2>1, <3>1, <3>2
  <2>2. ASSUME cia.tb.pending = Earliest, cia' = IntTB(cia, Earliest)
        PROVE  GoesA(cia, cia', clk)
    <3>1. Earliest = cia.tb.alarmclk /\ cia.tb.alarmclk <= clk
          /\ cia.tb.alarmclk <= cia.ta.alarmclk
      BY <1>1, <1>2, <1>5, <2>2
    <3>2. GoesA(cia, IntTB(cia, cia.tb.alarmclk), clk)
      BY <1>1, <3>1, AlarmTBGoes
    <3> QED BY <2>2, <3>1, <3>2
  <2> QED BY <1>3, <2>1, <2>2
<1> QED BY <1>3, <1>6, InStepGoes

LEMMA InStepIdleUpdate == ASSUME CiaInv, InStep, IdleUpdate, chip' = chip PROVE InStep'
<1>1. clk \in 0..LastClk /\ clk \in 1..clk /\ Sound(cia, clk, ByteStates) /\ Trim(cia, clk)
  BY ClockIs DEF InStep, Ready
<1>2. PICK rclk \in {clk - 1, clk} : cia' = UpdateBoth(cia, rclk)
  BY DEF IdleUpdate
<1>3. rclk \in 0..clk
  BY <1>1, <1>2
<1>4. GoesA(cia, UpdateBoth(cia, rclk), clk)
  BY <1>1, <1>3, UpdateBothGoes
<1>5. Boundary /\ clk' = clk /\ cycles' = cycles
  BY DEF IdleUpdate
<1> QED BY <1>2, <1>4, <1>5, InStepGoes

(* No alarm is due when an instruction begins.                             *)
LEMMA InStepFetch == ASSUME CiaInv, InStep, Fetch, chip' = chip PROVE InStep'
<1>1. /\ cia' = cia /\ clk' = clk /\ Boundary /\ Due = {}
      /\ cycles' = IdleInstruction \/ cycles' \in Instructions
  BY DEF Fetch
<1>2. clk \in 0..LastClk /\ clk \in Nat /\ Sound(cia, clk, ByteStates)
  BY ClockIs
<1>3. Ready(cia, clk) /\ Joined(cia, clk, chip) /\ SameByte(cia, chip) /\ Halting(cia, clk)
  BY <1>1 DEF InStep
<1>4. cia.ta.pending = cia.ta.alarmclk /\ cia.tb.pending = cia.tb.alarmclk
      /\ cia.ta.pending \in Nat /\ cia.tb.pending \in Nat
  BY <1>2, AlarmLies DEF Sound, SideA, SideB, Agreed
<1>5. cia.ta.alarmclk > clk /\ cia.tb.alarmclk > clk
  <2>1. cia.ta.pending \notin Due /\ cia.tb.pending \notin Due
    BY <1>1
  <2>2. ~(cia.ta.pending <= clk) /\ ~(cia.tb.pending <= clk)
    BY <2>1 DEF Due
  <2> QED BY <1>2, <1>4, <2>2
<1>6. Still(cia)
  BY <1>2, <1>3, <1>4, <1>5 DEF Still, Halting
<1>7. ReadLate(cia)
  <2>1. Aged(cia) /\ cia.rdi \in 0..clk /\ cia.rdi # clk
    BY <1>2, <1>3, ReadyIs
  <2>2. cia.tb.clk = cia.rdi => Upcoming(cia.tb) = cia.tb.alarmclk
    BY <2>1 DEF Aged
  <2> QED BY <1>2, <1>4, <1>5, <2>1, <2>2 DEF ReadLate
<1>8. ~Boundary'
  <2>1. cycles' # <<>>
    <3>1. Len(IdleInstruction) = 3
      BY InstructionsAre
    <3>2. \A s \in Instructions : s # <<>>
      <4>1. ASSUME NEW s \in Instructions PROVE s # <<>>
        <5>1. PICK r \in Seq(Accesses) : s = Fetches(3) \o r
          <6>1. Increment = Fetches(3) \o <<ReadReg("ICR"), WriteOld, WriteNew>>
            BY DEF Increment
          <6>2. <<ReadReg("ICR"), WriteOld, WriteNew>> \in Seq(Accesses)
                /\ \A a \in Reads \cup Writes : <<a>> \in Seq(Accesses)
            BY DEF Accesses
          <6> QED BY <6>1, <6>2 DEF Instructions
        <5>2. Len(s) = 3 + Len(r) /\ Len(r) \in Nat
          BY <5>1, AfterFetches
        <5>3. Len(s) # 0
          BY <5>2
        <5> QED BY <5>3
      <4> QED BY <4>1
    <3> QED BY <1>1, <3>1, <3>2
  <2> QED BY <2>1 DEF Boundary
<1>9. Joined(cia, clk, chip)'
  BY <1>1, <1>3 DEF Joined
<1>10. SameByte(cia, chip)'
  BY <1>1, <1>3 DEF SameByte
<1> QED BY <1>1, <1>3, <1>6, <1>7, <1>8, <1>9, <1>10 DEF InStep

-----------------------------------------------------------------------------
(* Between two instructions a timer that is stopped and up to date has no  *)
(* alarm, wherever its clock is set to.                                    *)
LEMMA HaltedStays ==
  ASSUME NEW now \in 0..LastClk, NEW t, NEW ctl, Held(t, ctl, now), Agreed(t),
         t.alarmclk = ClockMax, t.alarmclk = Upcoming(t),
         NEW u \in Timer, u.state = t.state, u.cnt = t.cnt, u.latch = t.latch,
         u.alarmclk = Upcoming(u)
  PROVE  u.alarmclk = ClockMax
<1>1. Near(t) /\ t \in Timer /\ t.clk \in Nat /\ Regular(t) /\ Kept(t, ctl) /\ ClockMax \in Nat
  BY HeldIsNear, TimerAssumption
<1>2. \/ Upcoming(t) = ClockMax /\ Upcoming(u) = ClockMax
      \/ \E k \in 0..4 + MaxLatch : Upcoming(t) = t.clk + (k + 1)
  BY <1>1, UpcomingMoves
<1>3. ASSUME NEW k \in 0..4 + MaxLatch, Upcoming(t) = t.clk + (k + 1) PROVE FALSE
  BY <1>1, <1>3, CiaBusAssumption DEF Near
<1> QED BY <1>2, <1>3

(* A chip at rest, moved to another tick or loaded again.                  *)
Relocated(d, now, f, then) ==
  /\ SameControl(d, f) /\ f.model = d.model /\ f.last_read = d.last_read
  /\ f.tat = d.tat /\ f.tbt = d.tbt /\ f.irqflags = d.irqflags /\ f.line = d.line
  /\ f.ta.state = d.ta.state /\ f.ta.cnt = d.ta.cnt /\ f.ta.latch = d.ta.latch
  /\ f.tb.state = d.tb.state /\ f.tb.cnt = d.tb.cnt /\ f.tb.latch = d.tb.latch
  /\ f.rdi \in Nat /\ f.rdi < then
  /\ Least(then - f.rdi, 2) = Least(now - d.rdi, 2)

LEMMA RelocatedIs ==
  ASSUME NEW now \in 0..LastClk, NEW then \in 0..LastClk, NEW R,
         NEW d, Sound(d, now, R), Ready(d, now), Rests(d, now), Halting(d, now),
         d.ta.alarmclk > now, d.tb.alarmclk > now,
         NEW f, Sound(f, then, R), Rests(f, then), Relocated(d, now, f, then)
  PROVE  /\ Ready(f, then) /\ Halting(f, then)
         /\ \A q : Joined(d, now, q) => Joined(f, then, q)
<1>1. /\ d \in Shapes(now, R) /\ f \in Shapes(then, R)
      /\ Held(d.ta, d.cra, now) /\ Held(d.tb, InputB(d.crb), now)
      /\ Held(f.ta, f.cra, then) /\ Held(f.tb, InputB(f.crb), then)
      /\ Agreed(d.ta) /\ Agreed(d.tb)
  BY DEF Sound, SideA, SideB
<1>2. /\ f.ta \in Timer /\ f.tb \in Timer /\ d.ta \in Timer /\ d.tb \in Timer
      /\ Upcoming(f.ta) \in Int /\ Upcoming(f.ta) > f.ta.clk
      /\ now \in Nat /\ then \in Nat
  BY <1>1, HeldLies, ClkInNat
<1>3. Fit(f, then)
  <2>1. "STEP" \notin f.ta.state /\ StepIsLive(f.tb) /\ ("IR" \in f.irqflags => f.line)
    BY DEF Ready, Trim, Fit, StepIsLive, Relocated
  <2>2. Aged(f)
    BY <1>2 DEF Aged, Rests, Relocated
  <2> QED BY <2>1, <2>2 DEF Fit
<1>4. Follows(f) /\ PausedBy(f.tb, f.ta.clk)
  BY <1>2 DEF Follows, PausedBy, Rests
<1>5. Lit(f) /\ f.rdi < then
  BY DEF Ready, Lit, Relocated, SameControl
<1>6. Ready(f, then)
  BY <1>3, <1>4, <1>5 DEF Ready, Trim
<1>7. Halting(f, then)
  <2>1. ASSUME "START" \notin f.cra PROVE f.ta.alarmclk = ClockMax
    <3>1. "START" \notin d.cra /\ WantedA(d) /\ WantedA(f)
      BY <2>1 DEF Relocated, SameControl, WantedA
    <3>2. d.ta.alarmclk = Upcoming(d.ta) /\ f.ta.alarmclk = Upcoming(f.ta)
      BY <3>1 DEF Sound, SideA
    <3>3. d.ta.alarmclk = ClockMax
      <4>1. d.ta.alarmclk = ClockMax \/ d.ta.alarmclk <= now
        BY <3>1 DEF Halting
      <4>2. d.ta.alarmclk \in Nat
        BY <1>1, AlarmLies
      <4> QED BY <1>2, <4>1, <4>2
    <3> QED BY <1>1, <1>2, <3>2, <3>3, HaltedStays DEF Relocated
  <2>2. ASSUME "START" \notin f.crb PROVE f.tb.alarmclk = ClockMax
    <3>1. "START" \notin d.crb /\ WantedB(d) /\ WantedB(f)
      BY <2>2 DEF Relocated, SameControl, WantedB
    <3>2. d.tb.alarmclk = Upcoming(d.tb) /\ f.tb.alarmclk = Upcoming(f.tb)
      BY <3>1 DEF Sound, SideB
    <3>3. d.tb.alarmclk = ClockMax
      <4>1. d.tb.alarmclk = ClockMax \/ d.tb.alarmclk <= now
        BY <3>1 DEF Halting
      <4>2. d.tb.alarmclk \in Nat
        BY <1>1, AlarmLies
      <4> QED BY <1>2, <4>1, <4>2
    <3> QED BY <1>1, <1>2, <3>2, <3>3, HaltedStays DEF Relocated
  <2> QED BY <2>1, <2>2 DEF Halting
<1>8. ASSUME NEW q, Joined(d, now, q) PROVE Joined(f, then, q)
  <2>1. Tracks(d, now, q) <=> Is(d, now, q)
    BY <1>1, <1>2, RestingTracks
  <2>2. Is(d, now, q)
    BY <1>8, <2>1 DEF Joined
  <2>3. Core(f.ta) = Core(d.ta) /\ Core(f.tb) = Core(d.tb)
    BY DEF Core, Relocated
  <2>4. TracksRest(f, then, q)
    BY <2>2 DEF Is, TracksRest, Relocated, SameControl
  <2>5. Is(f, then, q)
    BY <2>2, <2>3, <2>4 DEF Is, Relocated, Pulled, SameControl
  <2>6. Tracks(f, then, q) <=> Is(f, then, q)
    BY <1>1, <1>2, RestingTracks
  <2> QED BY <1>8, <2>5, <2>6 DEF Joined
<1> QED BY <1>6, <1>7, <1>8

(* The chip before and after it has been moved back, or loaded.            *)
LEMMA AtRest ==
  ASSUME CiaInv, InStep, Boundary
  PROVE  LET d == UpdateBoth(cia, clk) IN
         /\ clk \in 0..LastClk /\ clk \in Nat /\ Sound(d, clk, ByteStates) /\ Ready(d, clk)
         /\ Rests(d, clk) /\ Halting(d, clk)
         /\ d.ta.alarmclk > clk /\ d.tb.alarmclk > clk /\ Joined(d, clk, chip)
         /\ d.last_read = cia.last_read /\ d.rdi \in Nat /\ d.rdi < clk
<1> DEFINE d == UpdateBoth(cia, clk)
<1>1. clk \in 0..LastClk /\ clk \in 0..clk /\ clk \in Nat /\ Sound(cia, clk, ByteStates)
  BY ClockIs
<1>2. Ready(cia, clk) /\ Joined(cia, clk, chip) /\ Halting(cia, clk)
  BY DEF InStep
<1>3. /\ Sound(d, clk, ByteStates) /\ GoesA(cia, d, clk) /\ Ready(d, clk)
      /\ Rests(d, clk) /\ d.last_read = cia.last_read /\ Joined(d, clk, chip)
  BY <1>1, <1>2, UpToDateBoth
<1>4. d.ta.alarmclk > clk /\ d.tb.alarmclk > clk
  BY <1>1, UpdateBothIs
<1> HIDE DEF d
<1>5. Halting(d, clk)
  BY <1>2, <1>3, HaltingStays
<1>6. d.rdi \in Nat /\ d.rdi < clk
  <2>1. d.rdi \in 0..clk
    BY <1>3 DEF Sound, Shapes
  <2> QED BY <1>1, <1>3, <2>1 DEF Ready
<1> QED BY <1>1, <1>3, <1>4, <1>5, <1>6 DEF d

LEMMA InStepRelocated ==
  ASSUME CiaInv, InStep, Boundary, cycles' = cycles, chip' = chip,
         clk' \in 0..LastClk, Sound(cia', clk', ByteStates), Rests(cia', clk'),
         Relocated(UpdateBoth(cia, clk), clk, cia', clk')
  PROVE  InStep'
<1> DEFINE d == UpdateBoth(cia, clk)
           then == clk'
           f == cia'
<1>1. /\ clk \in 0..LastClk /\ clk \in Nat /\ Sound(d, clk, ByteStates) /\ Ready(d, clk)
      /\ Rests(d, clk) /\ Halting(d, clk)
      /\ d.ta.alarmclk > clk /\ d.tb.alarmclk > clk /\ Joined(d, clk, chip)
      /\ d.last_read = cia.last_read
  BY AtRest
<1>2. /\ then \in 0..LastClk /\ Sound(f, then, ByteStates) /\ Rests(f, then)
      /\ Relocated(d, clk, f, then)
  OBVIOUS
<1>3. SameByte(cia, chip)' /\ Boundary' /\ ~ReadsFlags(cycles')
  <2>1. f.last_read = d.last_read
    BY <1>2 DEF Relocated
  <2>2. SameByte(cia, chip)
    BY DEF InStep
  <2> QED BY <1>1, <2>1, <2>2 DEF SameByte, Boundary, ReadsFlags
<1> HIDE DEF d, then, f
<1>4. Ready(f, then) /\ Halting(f, then) /\ Joined(f, then, chip)
  BY ONLY <1>1, <1>2, RelocatedIs
<1>5. Ready(cia', clk') /\ Halting(cia', clk') /\ Joined(cia, clk, chip)'
  BY <1>4 DEF f, then, Joined
<1> QED BY <1>3, <1>5 DEF InStep

-----------------------------------------------------------------------------
LEMMA MovedIs ==
  ASSUME NEW t \in Timer
  PROVE  LET m == Moved(t) IN
         /\ m.state = t.state /\ m.cnt = t.cnt /\ m.latch = t.latch
         /\ m.clk = t.clk - OverflowSub
  BY DEF Moved, WarpAlarm, PreventClockOverflow, Timer

(* The age of the last read is the same on both sides of an overflow.      *)
LEMMA AgeMoves ==
  ASSUME NEW now \in Nat, NEW rdi \in Nat, rdi < now, OverflowSub + 2 <= now
  PROVE  /\ Back(rdi) \in Nat /\ Back(rdi) < now - OverflowSub
         /\ Least((now - OverflowSub) - Back(rdi), 2) = Least(now - rdi, 2)
<1>1. OverflowSub \in Nat
  BY CiaAssumption
<1>2. CASE rdi > OverflowSub
  BY <1>1, <1>2 DEF Back, Least
<1>3. CASE ~(rdi > OverflowSub)
  BY <1>1, <1>3 DEF Back, Least
<1> QED BY <1>2, <1>3

LEMMA InStepOverflow == ASSUME CiaInv, InStep, ClkOverflow, chip' = chip PROVE InStep'
<1> DEFINE d == UpdateBoth(cia, clk)
           f == Callbacks(cia, clk)
           then == clk - OverflowSub
<1>1. /\ Boundary /\ cia' = f /\ clk' = then /\ cycles' = cycles /\ clk >= OverflowAt
      /\ OverflowSub \in Nat /\ OverflowAt \in Nat /\ OverflowSub + 2 <= OverflowAt
  BY CiaAssumption DEF ClkOverflow
<1>2. /\ clk \in 0..LastClk /\ clk \in Nat /\ Sound(d, clk, ByteStates)
      /\ Rests(d, clk) /\ d.last_read = cia.last_read /\ d.rdi \in Nat /\ d.rdi < clk
  BY <1>1, AtRest
<1>3. OverflowSub + 2 <= clk /\ OverflowSub < clk /\ then \in 0..LastClk /\ LastClk \in Nat
  BY <1>1, <1>2, ClockIs
<1>4. Sound(cia, clk, ByteStates)
  BY ClockIs
<1>5. Sound(f, then, ByteStates)
  BY <1>2, <1>3, <1>4, CallbacksIs
<1>6. f = [[d EXCEPT !.ta = PreventClockOverflow(@, OverflowSub),
                     !.tb = PreventClockOverflow(@, OverflowSub), !.rdi = Back(@)]
             EXCEPT !.ta = WarpAlarm(@), !.tb = WarpAlarm(@), !.int_clk = Back(@)]
  BY DEF Callbacks, MachineMoved, ChipMoved
<1> HIDE DEF d, f, then
<1>7. d \in Shapes(clk, ByteStates) /\ d.ta \in Timer /\ d.tb \in Timer
  BY <1>2 DEF Sound, Shapes
<1>8. /\ f.ta = Moved(d.ta) /\ f.tb = Moved(d.tb) /\ f.rdi = Back(d.rdi)
      /\ SameControl(d, f) /\ f.model = d.model /\ f.last_read = d.last_read
      /\ f.tat = d.tat /\ f.tbt = d.tbt /\ f.irqflags = d.irqflags /\ f.line = d.line
  BY <1>6, <1>7 DEF Shapes, SameControl, Moved
<1>9. /\ f.rdi \in Nat /\ f.rdi < then
      /\ Least(then - f.rdi, 2) = Least(clk - d.rdi, 2)
  BY <1>2, <1>3, <1>8, AgeMoves DEF then
<1>10. Rests(f, then)
  BY <1>2, <1>7, <1>8, MovedIs DEF Rests, then
<1>11. Relocated(d, clk, f, then)
  BY <1>7, <1>8, <1>9, MovedIs DEF Relocated
<1>12. /\ clk' \in 0..LastClk /\ Sound(cia', clk', ByteStates) /\ Rests(cia', clk')
       /\ Relocated(UpdateBoth(cia, clk), clk, cia', clk')
  BY <1>1, <1>3, <1>5, <1>10, <1>11 DEF d
<1> QED BY <1>1, <1>12, InStepRelocated

LEMMA InStepSnapshot == ASSUME CiaInv, InStep, Snapshot, chip' = chip PROVE InStep'
<1> DEFINE d == UpdateBoth(cia, clk)
           f == Restored(d, clk)
           x == IF clk - d.rdi > 120 THEN 0 ELSE d.rdi
<1>1. Boundary /\ cia' = f /\ clk' = clk /\ cycles' = cycles
  BY DEF Snapshot, Restored, LoadTimer
<1>2. /\ clk \in 0..LastClk /\ clk \in Nat /\ Sound(d, clk, ByteStates)
      /\ Rests(d, clk) /\ d.last_read = cia.last_read /\ d.rdi \in Nat /\ d.rdi < clk
  BY <1>1, AtRest
<1>3. Sound(cia, clk, ByteStates)
  BY ClockIs
<1>4. Sound(f, clk, ByteStates)
  BY <1>2, <1>3, RestoredIs
<1>5. f = [d EXCEPT !.ta = LoadSnapshot(@, clk), !.tb = LoadSnapshot(@, clk),
                    !.rdi = IF clk - @ > 120 THEN 0 ELSE @]
  BY DEF Restored
<1> HIDE DEF d, f, x
<1>6. d \in Shapes(clk, ByteStates) /\ d.ta \in Timer /\ d.tb \in Timer
      /\ f \in Shapes(clk, ByteStates) /\ Held(d.ta, d.cra, clk) /\ Held(d.tb, InputB(d.crb), clk)
  BY <1>2, <1>4 DEF Sound, Shapes, SideA, SideB
<1>7. /\ f.ta = LoadSnapshot(d.ta, clk) /\ f.tb = LoadSnapshot(d.tb, clk)
      /\ f.rdi = x
      /\ SameControl(d, f) /\ f.model = d.model /\ f.last_read = d.last_read
      /\ f.tat = d.tat /\ f.tbt = d.tbt /\ f.irqflags = d.irqflags /\ f.line = d.line
  BY <1>5, <1>6 DEF Shapes, SameControl, x
<1>8. [d.ta EXCEPT !.clk = clk] = d.ta /\ [d.tb EXCEPT !.clk = clk] = d.tb
  BY <1>2, <1>6 DEF Rests, Timer
<1>9. f.ta = SetAlarm(d.ta) /\ f.tb = SetAlarm(d.tb)
  BY <1>7, <1>8 DEF LoadSnapshot
<1>10. /\ f.ta.state = d.ta.state /\ f.ta.cnt = d.ta.cnt /\ f.ta.latch = d.ta.latch
       /\ f.tb.state = d.tb.state /\ f.tb.cnt = d.tb.cnt /\ f.tb.latch = d.tb.latch
       /\ f.ta.clk = d.ta.clk /\ f.tb.clk = d.tb.clk
  BY <1>2, <1>6, <1>9, SetAlarmIs
<1>11. f.rdi \in Nat /\ f.rdi < clk /\ Least(clk - f.rdi, 2) = Least(clk - d.rdi, 2)
  BY <1>2, <1>7 DEF x, Least
<1>12. Rests(f, clk)
  BY <1>2, <1>10 DEF Rests
<1>13. Relocated(d, clk, f, clk)
  BY <1>7, <1>10, <1>11 DEF Relocated
<1>14. /\ clk' \in 0..LastClk /\ Sound(cia', clk', ByteStates) /\ Rests(cia', clk')
       /\ Relocated(UpdateBoth(cia, clk), clk, cia', clk')
  BY <1>1, <1>2, <1>4, <1>12, <1>13 DEF d
<1> QED BY <1>1, <1>14, InStepRelocated

-----------------------------------------------------------------------------
(* Serving both alarms at their ticks, however many are due.               *)
LEMMA ServedNextGoes ==
  ASSUME clk \in 0..LastClk, NEW R, NEW c, Sound(c, clk, R), Trim(c, clk)
  PROVE  Sound(ServedNext(c), clk, R) /\ GoesA(c, ServedNext(c), clk)
<1>1. c.ta.pending = c.ta.alarmclk /\ c.tb.pending = c.tb.alarmclk
      /\ c.ta.pending \in Nat /\ c.tb.pending \in Nat
  BY AlarmLies DEF Sound, SideA, SideB, Agreed
<1>2. CASE c.ta.pending <= clk /\ c.ta.pending <= c.tb.pending
  <2>1. ServedNext(c) = IntTA(c, c.ta.alarmclk)
    BY <1>1, <1>2 DEF ServedNext
  <2>2. Sound(IntTA(c, c.ta.alarmclk), clk, R)
    BY <1>1, <1>2, IntTAIs
  <2>3. GoesA(c, IntTA(c, c.ta.alarmclk), clk)
    BY <1>1, <1>2, IntTAGoes
  <2> QED BY <2>1, <2>2, <2>3
<1>3. CASE c.tb.pending <= clk /\ c.tb.pending < c.ta.pending
  <2>1. ~(c.ta.pending <= clk /\ c.ta.pending <= c.tb.pending)
        /\ c.tb.alarmclk <= c.ta.alarmclk
    BY <1>1, <1>3
  <2>2. ServedNext(c) = IntTB(c, c.tb.alarmclk)
    BY <1>1, <1>3, <2>1 DEF ServedNext
  <2>3. Sound(IntTB(c, c.tb.alarmclk), clk, R)
    BY <1>1, <1>3, IntTBIs
  <2>4. GoesA(c, IntTB(c, c.tb.alarmclk), clk)
    BY <1>1, <1>3, <2>1, AlarmTBGoes
  <2> QED BY <2>2, <2>3, <2>4
<1>4. CASE /\ ~(c.ta.pending <= clk /\ c.ta.pending <= c.tb.pending)
           /\ ~(c.tb.pending <= clk /\ c.tb.pending < c.ta.pending)
  <2>1. ServedNext(c) = c
    BY <1>4 DEF ServedNext
  <2> QED BY <2>1, GoesASelf
<1> QED BY <1>2, <1>3, <1>4

LEMMA ServeBothStays ==
  ASSUME NEW c, NEW S, c \in S, \A s \in S : ServedNext(s) \in S, NEW k \in Nat
  PROVE  ServeBoth(c)[k] \in S
<1> DEFINE F == [s \in S |-> ServedNext(s)]
           Serves(f) == f = [i \in Nat |-> IF i = 0 THEN c ELSE ServedNext(f[i - 1])]
           h == CHOOSE f : Serves(f)
<1>1. c \in S /\ F \in [S -> S]
  OBVIOUS
<1> DEFINE g == Orbit(S, c, F)
<1>2. g \in [Nat -> S] /\ g[0] = c /\ \A n \in Nat : g[n + 1] = F[g[n]]
  <2> HIDE DEF F
  <2> QED BY ONLY <1>1, OrbitIs
<1> HIDE DEF g
<1>3. Serves(g)
  <2>1. ASSUME NEW i \in Nat PROVE g[i] = IF i = 0 THEN c ELSE ServedNext(g[i - 1])
    <3>1. CASE i = 0
      BY <1>2, <3>1
    <3>2. CASE i # 0
      <4>1. i - 1 \in Nat /\ i - 1 + 1 = i
        BY <3>2
      <4> QED BY <1>2, <3>2, <4>1
    <3> QED BY <3>1, <3>2
  <2> QED BY <1>2, <2>1
<1>4. ServeBoth(c) = h
  BY DEF ServeBoth
<1>5. Serves(h)
  BY <1>3
<1> HIDE DEF h, F
<1>6. h[0] = c /\ \A i \in Nat : h[i + 1] = ServedNext(h[i])
  BY <1>5
<1> HIDE DEF Serves
<1> DEFINE A == {i \in Nat : h[i] \in S}
<1>7. 0 \in A /\ \A i \in A : i + 1 \in A
  BY <1>1, <1>6
<1>8. A = Nat
  <2>1. A \in SUBSET Nat
    OBVIOUS
  <2> HIDE DEF A
  <2> QED BY <1>7, <2>1, Inductive
<1> QED BY <1>4, <1>8

(* The chip that somebody sees is the chip at rest, and both tell the same. *)
LEMMA ServedGoes ==
  ASSUME clk \in 0..LastClk, NEW R, NEW c, Sound(c, clk, R), Trim(c, clk)
  PROVE  LET d == Served(c) IN
         Sound(d, clk, R) /\ GoesA(c, d, clk) /\ Rests(d, clk)
<1> DEFINE S == {s \in Shapes(clk, R) : Sound(s, clk, R) /\ GoesA(c, s, clk)}
           k == Passes(c.ta, clk) + Passes(c.tb, clk)
           b == ServeBoth(c)[k]
           d == UpdateBoth(b, clk)
<1>1. clk \in Nat /\ clk \in 0..clk /\ c.ta.alarmclk \in Nat /\ c.tb.alarmclk \in Nat
  BY ClkInNat, AlarmLies DEF Sound, SideA, SideB
<1>2. k \in Nat
  <2>1. Passes(c.ta, clk) \in Nat /\ Passes(c.tb, clk) \in Nat
    BY <1>1, PassesInNat
  <2> QED BY <2>1
<1>3. c \in S
  BY GoesASelf DEF Sound
<1>4. ASSUME NEW s \in S PROVE ServedNext(s) \in S
  <2>1. Sound(s, clk, R) /\ GoesA(c, s, clk) /\ Trim(s, clk)
    BY DEF GoesA
  <2>2. Sound(ServedNext(s), clk, R) /\ GoesA(s, ServedNext(s), clk)
    BY <2>1, ServedNextGoes
  <2>3. GoesA(c, ServedNext(s), clk)
    BY <2>1, <2>2, GoesATrans
  <2> QED BY <2>2, <2>3 DEF Sound
<1>5. b \in S
  <2> HIDE DEF S, k
  <2> QED BY <1>2, <1>3, <1>4, ServeBothStays
<1>6. Served(c) = d
  BY DEF Served
<1>7. Sound(b, clk, R) /\ GoesA(c, b, clk) /\ Trim(b, clk)
  BY <1>5 DEF GoesA
<1> HIDE DEF b
<1>8. Sound(d, clk, R) /\ d.ta.clk >= clk /\ d.tb.clk >= clk
  BY <1>1, <1>7, UpdateBothIs
<1>9. GoesA(b, d, clk)
  BY <1>1, <1>7, UpdateBothGoes
<1> HIDE DEF d
<1>10. d.ta.clk = clk /\ d.tb.clk = clk
  BY <1>8, UpToDate
<1>11. GoesA(c, d, clk)
  BY <1>7, <1>9, GoesATrans
<1> QED BY <1>6, <1>8, <1>10, <1>11 DEF Rests

(* What is seen of it.                                                     *)
LEMMA ViewIs ==
  ASSUME clk \in Nat, NEW R, NEW n \in Shapes(clk, R), Rests(n, clk)
  PROVE  LET v == View(n) IN
         /\ v.model = n.model /\ v.mask = n.mask /\ v.cra = n.cra /\ v.crb = n.crb
         /\ v.tat = n.tat /\ v.tbt = n.tbt /\ v.last_read = n.last_read
         /\ v.age = Least(clk - n.rdi, 2) /\ v.age \in 0..2
         /\ Core(v.ta) = Core(n.ta) /\ Core(v.tb) = Core(n.tb)
         /\ v.ta \in Plain /\ v.tb \in Plain
         /\ v.ta.state = n.ta.state /\ v.tb.state = n.tb.state
         /\ v.int_in \in {-1} \cup Nat /\ (v.int_in # -1 <=> n.line)
         /\ v.flags \subseteq IdealFlags
         /\ "TA" \in v.flags <=> "TA" \in n.irqflags
         /\ v.flags \cap {"TB", "TBB"} = IF n.line /\ "TBB" \in n.irqflags THEN {}
                                         ELSE n.irqflags \cap {"TB", "TBB"}
<1> DEFINE in == IF ~n.line THEN -1 ELSE IF n.int_clk > clk THEN n.int_clk - clk ELSE 0
           f == n.irqflags \ {"IR"}
           x == Least(clk - n.rdi, 2)
           g == IF n.line /\ "TBB" \in f THEN f \ {"TB", "TBB"} ELSE f
           v == View(n)
<1>1. v = [model |-> n.model, ta |-> Chip(n.ta), tb |-> Chip(n.tb),
           mask |-> n.mask, cra |-> n.cra, crb |-> n.crb, tat |-> n.tat,
           tbt |-> n.tbt, age |-> x, int_in |-> in, last_read |-> n.last_read,
           flags |-> g]
  BY DEF View
<1>2. /\ n.ta \in Timer /\ n.tb \in Timer /\ n.rdi \in 0..clk /\ n.int_clk \in 0..clk + 3
      /\ n.line \in BOOLEAN /\ n.irqflags \subseteq Flags \cup {"TBB"}
      /\ n.ta.clk = clk /\ n.tb.clk = clk
  BY DEF Shapes, Rests
<1>3. Chip(n.ta) \in Plain /\ Chip(n.tb) \in Plain
      /\ Core(Chip(n.ta)) = Core(n.ta) /\ Core(Chip(n.tb)) = Core(n.tb)
      /\ Chip(n.ta).state = n.ta.state /\ Chip(n.tb).state = n.tb.state
  BY <1>2 DEF Chip, Plain, Core, Timer
<1>4. x \in 0..2
  BY <1>2 DEF Least
<1>5. in \in {-1} \cup Nat /\ (in # -1 <=> n.line)
  <2>1. CASE ~n.line
    BY <2>1
  <2>2. CASE n.line
    BY <1>2, <2>2
  <2> QED BY <2>1, <2>2
<1>6. /\ g \subseteq IdealFlags /\ ("TA" \in g <=> "TA" \in n.irqflags)
      /\ g \cap {"TB", "TBB"} = IF n.line /\ "TBB" \in n.irqflags THEN {}
                                ELSE n.irqflags \cap {"TB", "TBB"}
  BY <1>2 DEF IdealFlags, Flags, Sources
<1> HIDE DEF in, f, x, g, v
<1> QED BY <1>1, <1>3, <1>4, <1>5, <1>6 DEF v, x

-----------------------------------------------------------------------------
(* The chip after a reset and the two stores of the program.               *)
LEMMA FreshReady ==
  ASSUME NEW model \in Models, NEW setup \in Setups
  PROVE  Ready(Fresh(model, setup), 1)
<1> DEFINE c == Fresh(model, setup)
<1>1. Sound(c, 1, ByteStates) /\ 1 \in 0..LastClk
  BY FreshIs, CiaAssumption, CiaBusAssumption DEF LastClk, LastTick
<1>2. /\ c.ta.state = {} /\ c.tb.state = {} /\ c.ta.clk = 1 /\ c.tb.clk = 1
      /\ c.irqflags = {} /\ c.rdi = 0 /\ c.crb = {}
  BY DEF Fresh, Idle
<1> HIDE DEF c
<1>3. Fit(c, 1) /\ Lit(c) /\ Follows(c) /\ PausedBy(c.tb, c.ta.clk)
  BY <1>2 DEF Fit, StepIsLive, Aged, Lit, Follows, CountsTA, PausedBy
<1> QED BY <1>2, <1>3 DEF Ready, Trim, c

LEMMA SetUpReady ==
  ASSUME NEW model \in Models, NEW setup \in Setups
  PROVE  LET f == Write(Write(Fresh(model, setup), "CRB", setup.crb, 1),
                        "CRA", setup.cra, 5) IN
         Ready(f, 6) /\ Past(f, 5) /\ Sound(f, 6, ByteStates)
<1> DEFINE c == Fresh(model, setup)
           d == Write(c, "CRB", setup.crb, 1)
           f == Write(d, "CRA", setup.cra, 5)
<1>1. setup.cra \in SUBSET ControlBits /\ setup.crb \in SUBSET ControlBits
  BY CiaBusAssumption
<1>2. LastClk \in Nat /\ 6 <= LastClk
  BY CiaAssumption, CiaBusAssumption DEF LastClk, LastTick
<1>3. Sound(c, 1, ByteStates) /\ Ready(c, 1) /\ c.crb = {}
  BY FreshIs, FreshReady DEF Fresh
<1> HIDE DEF c
<1>4. 1 \in 0..LastClk /\ 1 + 1 \in 0..LastClk /\ 1 + 1 = 2
  BY <1>2
<1>5. Access(c, WriteReg("CRB", setup.crb), 1) = d
  BY DEF Access, WriteReg, Written
<1>6. Ready(d, 2)
  <2> DEFINE e == Access(c, WriteReg("CRB", setup.crb), 1)
  <2>1. "START" \in setup.crb \/ "START" \notin c.crb => Ready(e, 1 + 1) /\ Past(e, 1)
    BY ONLY <1>1, <1>3, <1>4, WriteCRBGoes
  <2> QED BY <1>3, <1>4, <1>5, <2>1
<1>7. Sound(d, 2, ByteStates)
  <2>1. Sound(d, 1 + 1, ByteStates)
    BY <1>1, <1>3, <1>4, WriteIs
  <2> QED BY <1>4, <2>1
<1> HIDE DEF d
<1>8. Sound(d, 5, ByteStates) /\ Ready(d, 5)
  <2>1. 2 \in 0..LastClk /\ 3 \in 0..LastClk /\ 4 \in 0..LastClk
        /\ 2 + 1 = 3 /\ 3 + 1 = 4 /\ 4 + 1 = 5
    BY <1>2
  <2>2. Sound(d, 2 + 1, ByteStates) /\ Ready(d, 2 + 1)
    BY <1>6, <1>7, <2>1, SoundLater, ReadyLater
  <2>3. Sound(d, 3 + 1, ByteStates) /\ Ready(d, 3 + 1)
    BY <2>1, <2>2, SoundLater, ReadyLater
  <2>4. Sound(d, 4 + 1, ByteStates) /\ Ready(d, 4 + 1)
    BY <2>1, <2>3, SoundLater, ReadyLater
  <2> QED BY <2>1, <2>4
<1>9. 5 \in 0..LastClk /\ 5 + 1 \in 0..LastClk /\ 5 + 1 = 6
  BY <1>2
<1>10. Ready(f, 6) /\ Past(f, 5)
  <2> DEFINE q == CHOOSE q : TRUE
             g == Access(d, WriteReg("CRA", setup.cra), 5)
             e == Ideal!Access(q, WriteReg("CRA", setup.cra))
  <2>1. Accessed(d, g, 5, q, e)
    <3> HIDE DEF q
    <3> QED BY ONLY <1>1, <1>8, <1>9, WriteCRAGoes
  <2>2. g = f
    BY DEF Access, WriteReg, Written
  <2> HIDE DEF q, g, e
  <2>3. Ready(g, 5 + 1) /\ Past(g, 5)
    BY <2>1 DEF Accessed
  <2> QED BY <1>9, <2>2, <2>3
<1> QED BY <1>10, SetUpIs DEF c, d

LEMMA InStepInit == ComparisonInit => ComparisonInv
<1> SUFFICES ASSUME ComparisonInit PROVE ComparisonInv
  OBVIOUS
<1> DEFINE n == Now
           v == View(n)
<1>1. Init /\ chip = v /\ CiaInv
  BY InitHolds DEF ComparisonInit, shown
<1>2. clk = 6 /\ cycles = <<>>
  BY <1>1 DEF Init
<1>3. Ready(cia, clk) /\ Past(cia, 5) /\ Sound(cia, clk, ByteStates)
  <2>1. PICK model \in Models, setup \in Setups :
          cia = Write(Write(Fresh(model, setup), "CRB", setup.crb, 1), "CRA", setup.cra, 5)
    BY <1>1 DEF Init
  <2> QED BY <1>2, <2>1, SetUpReady
<1>4. clk \in 0..LastClk /\ clk \in Nat /\ 5 \in 0..LastClk /\ 5 + 1 \in 0..LastClk /\ 5 + 1 = 6
  <2>1. clk \in 0..LastClk /\ clk \in Nat /\ LastClk \in Nat
    BY <1>1, ClockIs
  <2> QED BY <1>2, <2>1
<1>5. Halting(cia, clk)
  <2>1. Sound(cia, 5 + 1, ByteStates)
    BY <1>2, <1>3, <1>4
  <2>2. Halting(cia, 5 + 1)
    BY <1>3, <1>4, <2>1, HaltsInTime
  <2> QED BY <1>2, <1>4, <2>2
<1>6. Sound(n, clk, ByteStates) /\ GoesA(cia, n, clk) /\ Rests(n, clk)
  BY <1>3, <1>4, ServedGoes DEF Ready, Now
<1> HIDE DEF n
<1>7. Ready(n, clk) /\ n \in Shapes(clk, ByteStates) /\ Held(n.tb, InputB(n.crb), clk)
  BY <1>3, <1>4, <1>6, UpdatedStays DEF Sound, SideB
<1> HIDE DEF v
<1>8. /\ v.model = n.model /\ v.mask = n.mask /\ v.cra = n.cra /\ v.crb = n.crb
      /\ v.tat = n.tat /\ v.tbt = n.tbt /\ v.last_read = n.last_read
      /\ v.age = Least(clk - n.rdi, 2) /\ v.age \in 0..2
      /\ Core(v.ta) = Core(n.ta) /\ Core(v.tb) = Core(n.tb)
      /\ v.ta \in Plain /\ v.tb \in Plain
      /\ v.ta.state = n.ta.state /\ v.tb.state = n.tb.state
      /\ v.int_in \in {-1} \cup Nat /\ (v.int_in # -1 <=> n.line)
      /\ v.flags \subseteq IdealFlags
      /\ "TA" \in v.flags <=> "TA" \in n.irqflags
      /\ v.flags \cap {"TB", "TBB"} = IF n.line /\ "TBB" \in n.irqflags THEN {}
                                      ELSE n.irqflags \cap {"TB", "TBB"}
  BY <1>4, <1>6, <1>7, ViewIs DEF v
<1>9. Pulled(n) <=> n.line
  BY <1>7 DEF Ready, Lit, Pulled
<1>10. Is(n, clk, v)
  <2>1. TracksRest(n, clk, v)
    BY <1>8 DEF TracksRest
  <2> QED BY <1>8, <1>9, <2>1 DEF Is
<1>11. v \in IdealChips
  <2>1. v.last_read \in IdealBytes
    <3>1. n.last_read \in ByteStates
      BY <1>7 DEF Shapes
    <3> QED BY <1>8, <3>1, CiaBusAssumption DEF ByteStates, IdealBytes
  <2>2. v = [model |-> v.model, ta |-> v.ta, tb |-> v.tb,
             mask |-> v.mask, cra |-> v.cra, crb |-> v.crb, tat |-> v.tat,
             tbt |-> v.tbt, age |-> v.age, int_in |-> v.int_in, last_read |-> v.last_read,
             flags |-> v.flags]
    BY DEF v, View
  <2>3. v.model \in Models /\ v.mask \in SUBSET Sources /\ v.cra \in SUBSET ControlBits
        /\ v.crb \in SUBSET ControlBits /\ v.tat \in {0, 1} /\ v.tbt \in {0, 1}
    BY <1>7, <1>8 DEF Shapes
  <2> QED BY <1>8, <2>1, <2>2, <2>3 DEF IdealChips
<1>12. Live(v)
  <2>1. "STEP" \notin n.ta.state /\ StepIsLive(n.tb)
    BY <1>7 DEF Ready, Trim, Fit
  <2>2. "COUNTTA" \in n.crb => "PHI2IN" \notin n.tb.state
    <3>1. Kept(n.tb, InputB(n.crb))
      BY <1>7 DEF Held
    <3>2. "COUNTTA" \in n.crb => "CNT" \in InputB(n.crb)
      BY DEF InputB
    <3> QED BY <3>1, <3>2 DEF Kept
  <2> QED BY <1>8, <2>1, <2>2 DEF Live, StepIsLive
<1>13. Joined(cia, clk, v)
  <2>1. Tracks(n, clk, v) <=> Is(n, clk, v)
    BY <1>4, <1>6, <1>7, RestingTracks
  <2>2. Tracks(cia, clk, v) <=> Tracks(n, clk, v)
    BY <1>6, SameTracks DEF GoesA
  <2> QED BY <1>1, <1>10, <1>11, <1>12, <2>1, <2>2 DEF Joined
<1>14. SameByte(cia, chip)
  BY <1>1, <1>6, <1>8 DEF SameByte, GoesA, Same, SameRest
<1>15. Boundary /\ ~ReadsFlags(cycles) /\ Orderly(cycles)
  BY <1>2 DEF Boundary, ReadsFlags, Orderly
<1> QED BY <1>1, <1>3, <1>5, <1>13, <1>14, <1>15 DEF ComparisonInv, InStep

-----------------------------------------------------------------------------
(* Every step of the two chips keeps them in step.                         *)
LEMMA ComparisonKeeps ==
  ComparisonInv /\ [ComparisonNext]_<<vars, chip, overtaken, stepKept>> => ComparisonInv'
<1> SUFFICES ASSUME ComparisonInv, [ComparisonNext]_<<vars, chip, overtaken, stepKept>>
             PROVE  ComparisonInv'
  OBVIOUS
<1>1. CiaInv /\ Orderly(cycles) /\ (stepKept \/ InStep) /\ cycles \in Seq(Accesses)
  BY ClockIs DEF ComparisonInv
<1>2. CASE UNCHANGED <<vars, chip, overtaken, stepKept>>
  <2>1. cia' = cia /\ clk' = clk /\ cycles' = cycles /\ left' = left /\ chip' = chip
        /\ stepKept' = stepKept
    BY <1>2 DEF vars
  <2>2. CiaInv'
    BY <1>1, <2>1, NextKeeps DEF vars
  <2>3. Orderly(cycles') /\ (ReadsFlags(cycles') <=> ReadsFlags(cycles))
        /\ (Boundary' <=> Boundary)
    BY <1>1, <2>1 DEF Boundary
  <2>4. InStep => InStep'
    <3>1. Joined(cia, clk, chip)' <=> Joined(cia, clk, chip)
      BY <2>1 DEF Joined
    <3>2. SameByte(cia, chip)' <=> SameByte(cia, chip)
      BY <2>1 DEF SameByte
    <3> QED BY <2>1, <2>3, <3>1, <3>2 DEF InStep
  <2> QED BY <1>1, <2>1, <2>2, <2>3, <2>4 DEF ComparisonInv
<1>3. CASE ComparisonNext
  <2>1. CASE ~Boundary /\ ComparedCycle(Head(cycles))
    <3>1. /\ BusCycle /\ Ideal!IdealCycle(OnBus(Head(cycles)))
          /\ stepKept' = (stepKept \/ KeepsStep(Head(cycles)))
      BY <2>1 DEF ComparedCycle
    <3>2. CiaInv'
      BY <1>1, <3>1, NextKeeps DEF Next
    <3>3. cycles' = Tail(cycles) /\ cycles # <<>>
      BY <3>1 DEF BusCycle, Boundary
    <3>4. Orderly(cycles')
      BY <1>1, <3>3, OrderlyGoesOn
    <3>5. ASSUME ~stepKept' PROVE InStep'
      <4>1. ~stepKept /\ ~KeepsStep(Head(cycles))
        BY <3>1, <3>5
      <4> QED BY <1>1, <3>1, <4>1, InStepCycle
    <3> QED BY <3>2, <3>4, <3>5 DEF ComparisonInv
  <2>2. CASE ClkOverflow /\ chip' = chip /\ stepKept' = stepKept
    <3>1. CiaInv' /\ cycles' = cycles
      BY <1>1, <2>2, NextKeeps DEF Next, ClkOverflow
    <3>2. InStep => InStep'
      BY <1>1, <2>2, InStepOverflow
    <3> QED BY <1>1, <2>2, <3>1, <3>2 DEF ComparisonInv
  <2>3. CASE (Dispatch \/ IdleUpdate \/ Snapshot) /\ chip' = chip /\ stepKept' = stepKept
    <3>1. CiaInv' /\ cycles' = cycles
      BY <1>1, <2>3, NextKeeps DEF Next, Dispatch, IdleUpdate, Snapshot
    <3>2. InStep => InStep'
      BY <1>1, <2>3, InStepDispatch, InStepIdleUpdate, InStepSnapshot
    <3> QED BY <1>1, <2>3, <3>1, <3>2 DEF ComparisonInv
  <2>4. CASE Fetch /\ chip' = chip /\ stepKept' = stepKept
    <3>1. CiaInv' /\ (cycles' = IdleInstruction \/ cycles' \in Instructions)
      BY <1>1, <2>4, NextKeeps DEF Next, Fetch
    <3>2. Orderly(cycles')
      BY <3>1, InstructionsAreOrderly
    <3>3. InStep => InStep'
      BY <1>1, <2>4, InStepFetch
    <3> QED BY <1>1, <2>4, <3>1, <3>2, <3>3 DEF ComparisonInv
  <2>5. CASE Done /\ UNCHANGED <<chip, overtaken, stepKept>>
    <3>1. UNCHANGED <<vars, chip, overtaken, stepKept>>
      BY <2>5 DEF Done
    <3> QED BY <1>2, <3>1
  <2> QED BY <1>3, <2>1, <2>2, <2>3, <2>4, <2>5 DEF ComparisonNext
<1> QED BY <1>2, <1>3

(* Replayed late or early, with alarms skipped, called late or one before  *)
(* the other, moved back with the clock and loaded from snapshots, the     *)
(* chip of the emulator goes on in step with the one that counts every     *)
(* cycle, for every program of the bus, as long as no program stops timer  *)
(* B in a cycle it was stepped in.                                         *)
THEOREM ChipsInStep == ComparisonSpec => []ComparisonInv
<1>1. ComparisonInit => ComparisonInv
  BY InStepInit
<1>2. ComparisonInv /\ [ComparisonNext]_<<vars, chip, overtaken, stepKept>> => ComparisonInv'
  BY ComparisonKeeps
<1> QED BY <1>1, <1>2, PTL DEF ComparisonSpec

(* Brought to the present tick the chip is what the other is.              *)
LEMMA InStepIsSame == ASSUME CiaInv, InStep PROVE SameChip
<1> DEFINE n == Now
           v == View(n)
           s == InCore(v)
           r == InCore(chip)
<1>1. clk \in 0..LastClk /\ clk \in Nat /\ Sound(cia, clk, ByteStates)
  BY ClockIs
<1>2. Ready(cia, clk) /\ Joined(cia, clk, chip)
  BY DEF InStep
<1>3. Sound(n, clk, ByteStates) /\ GoesA(cia, n, clk) /\ Rests(n, clk)
  BY <1>1, <1>2, ServedGoes DEF Ready, Now
<1>4. shown = v
  BY DEF shown
<1> HIDE DEF n
<1>5. Ready(n, clk) /\ Joined(n, clk, chip)
  BY ONLY <1>1, <1>2, <1>3, UpdatedStays
<1>6. n \in Shapes(clk, ByteStates) /\ (Pulled(n) <=> n.line)
  BY <1>3, <1>5 DEF Sound, Ready, Lit, Pulled
<1>7. Is(n, clk, chip) /\ chip \in IdealChips
  <2>1. Tracks(n, clk, chip) <=> Is(n, clk, chip)
    BY <1>1, <1>3, <1>6, RestingTracks
  <2> QED BY <1>5, <2>1 DEF Joined
<1>8. DOMAIN v = {"model", "ta", "tb", "mask", "cra", "crb", "tat", "tbt", "age", "int_in",
                  "last_read", "flags"}
      /\ DOMAIN chip = DOMAIN v
  BY <1>7 DEF View, IdealChips
<1> HIDE DEF v
<1>9. /\ v.model = n.model /\ v.mask = n.mask /\ v.cra = n.cra /\ v.crb = n.crb
      /\ v.tat = n.tat /\ v.tbt = n.tbt /\ v.age = Least(clk - n.rdi, 2)
      /\ Core(v.ta) = Core(n.ta) /\ Core(v.tb) = Core(n.tb)
      /\ v.flags \subseteq IdealFlags
      /\ "TA" \in v.flags <=> "TA" \in n.irqflags
      /\ v.flags \cap {"TB", "TBB"} = IF n.line /\ "TBB" \in n.irqflags THEN {}
                                      ELSE n.irqflags \cap {"TB", "TBB"}
  BY <1>1, <1>3, <1>6, ViewIs DEF v
<1>10. v.flags = chip.flags
  <2>1. chip.flags \subseteq IdealFlags
    BY <1>7 DEF IdealChips
  <2>2. chip.flags \cap {"TB", "TBB"} = v.flags \cap {"TB", "TBB"}
        /\ ("TA" \in chip.flags <=> "TA" \in v.flags)
    BY <1>6, <1>7, <1>9 DEF Is
  <2> QED BY <1>9, <2>1, <2>2 DEF IdealFlags
<1>11. /\ v.model = chip.model /\ v.mask = chip.mask /\ v.cra = chip.cra /\ v.crb = chip.crb
       /\ v.tat = chip.tat /\ v.tbt = chip.tbt /\ v.age = chip.age
       /\ Core(v.ta) = Core(chip.ta) /\ Core(v.tb) = Core(chip.tb)
  BY <1>7, <1>9 DEF Is, TracksRest
<1>12. /\ s = [v EXCEPT !.ta = Core(v.ta), !.tb = Core(v.tb)]
       /\ r = [chip EXCEPT !.ta = Core(chip.ta), !.tb = Core(chip.tb)]
  <2>1. \A c : InCore(c) = [c EXCEPT !.ta = Core(c.ta), !.tb = Core(c.tb)]
    BY Zenon DEF InCore
  <2> QED BY <2>1
<1> HIDE DEF s, r
<1>13. DOMAIN s = DOMAIN v
  BY <1>12
<1>14. ASSUME NEW field \in DOMAIN s \ {"int_in", "last_read"} PROVE s[field] = r[field]
  <2>1. field \in {"model", "ta", "tb", "mask", "cra", "crb", "tat", "tbt", "age", "flags"}
    BY <1>8, <1>13
  <2>2. field \in DOMAIN v /\ field \in DOMAIN chip
    BY <1>8, <1>13
  <2>3. CASE field = "ta"
    BY <1>8, <1>11, <1>12, <2>3
  <2>4. CASE field = "tb"
    BY <1>8, <1>11, <1>12, <2>4
  <2>5. CASE field \notin {"ta", "tb"}
    <3>1. s[field] = v[field] /\ r[field] = chip[field]
      BY <1>12, <2>2, <2>5
    <3>2. v[field] = chip[field]
      BY <1>10, <1>11, <2>1, <2>5
    <3> QED BY <3>1, <3>2
  <2> QED BY <2>3, <2>4, <2>5
<1> QED BY <1>4, <1>14 DEF SameChip, s, r

(* SameChip: in every state, the counters, latches, pipelines, flags and   *)
(* masks that a program would find in the emulator's chip are those of the *)
(* chip that counts every cycle, unless timer B has been stopped in a      *)
(* cycle it was stepped in.                                                *)
THEOREM ChipIsTheOther == ComparisonSpec => []SameChip
<1>1. ComparisonInv => SameChip
  BY InStepIsSame DEF ComparisonInv, SameChip
<1> QED BY <1>1, ChipsInStep, PTL

(* Whatever byte of the chip the program reads, at whatever cycle and      *)
(* however late the alarms are, it gets the byte that the chip counting    *)
(* every cycle gives, but for bit 7 of the flags.                          *)
THEOREM ProgramsReadTheSame ==
  ComparisonSpec => [](stepKept \/ WithoutIR(cia.last_read) = WithoutIR(chip.last_read))
<1>1. ComparisonInv => stepKept \/ WithoutIR(cia.last_read) = WithoutIR(chip.last_read)
  BY DEF ComparisonInv, InStep, SameByte
<1> QED BY <1>1, ChipsInStep, PTL

(* No interrupt is lost, and none is made up: in every state the line of   *)
(* the emulator's chip, brought to the present, is asserted exactly if the *)
(* line of the chip that counts every cycle is.                            *)
THEOREM LinesAreTheSame ==
  ComparisonSpec => [](stepKept \/ (shown.int_in = -1 <=> chip.int_in = -1))
<1>1. ASSUME CiaInv, InStep PROVE shown.int_in = -1 <=> chip.int_in = -1
  <2> DEFINE n == Now
             v == View(n)
  <2>1. clk \in 0..LastClk /\ clk \in Nat /\ Sound(cia, clk, ByteStates)
    BY <1>1, ClockIs
  <2>2. Ready(cia, clk) /\ Joined(cia, clk, chip)
    BY <1>1 DEF InStep
  <2>3. Sound(n, clk, ByteStates) /\ GoesA(cia, n, clk) /\ Rests(n, clk)
    BY <2>1, <2>2, ServedGoes DEF Ready, Now
  <2>4. shown = v
    BY DEF shown
  <2> HIDE DEF n
  <2>5. Ready(n, clk) /\ Joined(n, clk, chip)
    BY ONLY <2>1, <2>2, <2>3, UpdatedStays
  <2>6. n \in Shapes(clk, ByteStates) /\ (Pulled(n) <=> n.line)
    BY <2>3, <2>5 DEF Sound, Ready, Lit, Pulled
  <2>7. Is(n, clk, chip)
    <3>1. Tracks(n, clk, chip) <=> Is(n, clk, chip)
      BY <2>1, <2>3, <2>6, RestingTracks
    <3> QED BY <2>5, <3>1 DEF Joined
  <2> HIDE DEF v
  <2>8. v.int_in # -1 <=> n.line
    BY <2>1, <2>3, <2>6, ViewIs DEF v
  <2> QED BY <2>4, <2>6, <2>7, <2>8 DEF Is
<1>2. ComparisonInv => stepKept \/ (shown.int_in = -1 <=> chip.int_in = -1)
  BY <1>1 DEF ComparisonInv
<1> QED BY <1>2, ChipsInStep, PTL
=============================================================================
