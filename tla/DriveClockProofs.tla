-------------------------- MODULE DriveClockProofs --------------------------
(***************************************************************************)
(* Proofs about the clock of a drive.  It wraps at its width and is        *)
(* compared by signed differences, but the guard of the drive looks in     *)
(* time: nothing ever wraps, apart from the next tick of a context in      *)
(* which nothing is pending.                                               *)
(***************************************************************************)
EXTENDS DriveClock, TLAPS

(* The latest that the drive is past stop_clk when it sleeps.              *)
Lateness == IrqCycles + MaxInsn + 6

(* Where stop_clk comes to when all that is to be converted has been, and  *)
(* all that may still be given, in units of 1 / One.                       *)
Converting == One * stop_clk + cycle_accum + SyncFactor * todo
Final == One * stop_clk + cycle_accum + SyncFactor * (todo + left)

(* The drive is given little between two looks of the guard,               *)
Budget == /\ todo + left <= MaxGap
          /\ at # "convert" => todo = 0
          /\ Final <= One * GuardMax + SyncFactor * MaxGap

(* and has not run since the guard looked if it may be given all of it.    *)
JustLooked == left = MaxGap => /\ todo = 0 /\ clk < GuardMax /\ stop_clk <= clk
                               /\ at \in {"asleep", "convert", "loop"}

(* The clock is not far from stop_clk.                                     *)
Distance ==
  /\ at = "asleep" => stop_clk <= clk
  /\ at # "asleep" => Converting <= One * clk + SyncFactor * MaxGap + One - 1
  /\ at \in {"asleep", "convert", "loop"} => clk <= stop_clk + Lateness
  /\ at = "check" => clk < stop_clk
  /\ at = "insn" => clk < stop_clk + IrqCycles + 6

(* A drive that is to be reset has not run.                                *)
NotRun == reset => clk = 0 /\ at # "insn"

DriveInv == /\ TypeOK /\ NoDrift /\ TimerOnTime
            /\ Budget /\ JustLooked /\ Distance /\ NotRun

-----------------------------------------------------------------------------
(* Arithmetic.  A wrapped difference tells its sign if it is small.        *)
LEMMA WrapStays == ASSUME NEW n \in Clock PROVE Wrap(n) = n
  BY DriveAssumption DEF DriveAssumption, Clock, Wrap

LEMMA WrapNegative ==
  ASSUME NEW n \in Int, -ClockMax <= n, n < 0
  PROVE  Wrap(n) = n + ClockMax + 1
  BY DriveAssumption DEF DriveAssumption, Wrap

LEMMA WrapIsATick == ASSUME NEW n \in Int PROVE Wrap(n) \in Clock
  BY DriveAssumption DEF DriveAssumption, Clock, Wrap

LEMMA Division ==
  ASSUME NEW n \in Nat, NEW d \in Nat \ {0}
  PROVE  /\ n \div d \in Nat
         /\ n % d \in 0..(d - 1)
         /\ d * (n \div d) + (n % d) = n
  OBVIOUS

LEMMA Product == ASSUME NEW a \in Nat, NEW b \in Nat PROVE a * b \in Nat
  OBVIOUS

LEMMA Distributes ==
  ASSUME NEW a \in Nat, NEW b \in Int, NEW c \in Int
  PROVE  a * (b + c) = a * b + a * c
  OBVIOUS

LEMMA ProductGrows ==
  ASSUME NEW a \in Nat, NEW b \in Int, NEW c \in Int, b <= c
  PROVE  a * b <= a * c
  OBVIOUS

LEMMA Unscaled ==
  ASSUME NEW b \in Int, NEW c \in Int, One * b < One * c
  PROVE  b < c
  BY DriveAssumption DEF DriveAssumption

(* What the assumptions say of the widths.                                 *)
LEMMA Widths ==
  /\ ClockMax \in Nat /\ SubMin \in Nat /\ GuardMax \in Nat /\ ClockSub \in Nat
  /\ One \in Nat \ {0} /\ SyncFactor \in Nat /\ Chunk \in Nat \ {0}
  /\ MaxGap \in Nat /\ MaxInsn \in Nat \ {0} /\ IrqCycles \in Nat /\ MaxAhead \in Nat
  /\ GuardMax + SubMin = ClockMax /\ ClockSub + SubMin = GuardMax
  /\ 3 * SubMin <= GuardMax
  /\ GapCycles \in Nat \ {0}
  /\ GapCycles + Lateness + MaxAhead <= SubMin
  /\ Lateness = IrqCycles + MaxInsn + 6 /\ Lateness \in Nat
<1>1. SyncFactor * MaxGap \in Nat
  BY DriveAssumption, Product DEF DriveAssumption
<1>2. (SyncFactor * MaxGap) \div One \in Nat
  BY <1>1, Division, DriveAssumption DEF DriveAssumption
<1> QED
  BY <1>2, DriveAssumption, RoomAssumption
     DEF DriveAssumption, RoomAssumption, GuardMax, ClockSub, GapCycles, Lateness

LEMMA GapIsRoom == SyncFactor * MaxGap < One * GapCycles
<1> DEFINE q == (SyncFactor * MaxGap) \div One
<1>1. SyncFactor * MaxGap \in Nat
  BY Widths, Product
<1>2. /\ q \in Nat /\ (SyncFactor * MaxGap) % One < One
      /\ One * q + ((SyncFactor * MaxGap) % One) = SyncFactor * MaxGap
      /\ (SyncFactor * MaxGap) % One \in Int
  BY <1>1, Division, Widths
<1>3. One * (q + 1) = One * q + One * 1
  BY <1>2, Widths, Distributes
<1>4. One * q \in Int /\ GapCycles = q + 1
  BY <1>2, Widths DEF GapCycles
<1> HIDE DEF q
<1> QED
  BY <1>1, <1>2, <1>3, <1>4, Widths

(* A tick that is scaled below the guard's bound and a gap.                *)
LEMMA BelowGap ==
  ASSUME NEW n \in Int, NEW b \in Int, One * n <= One * b + SyncFactor * MaxGap
  PROVE  n < b + GapCycles
<1>1. One * (b + GapCycles) = One * b + One * GapCycles
  BY Widths, Distributes
<1>2. One * n \in Int /\ One * b \in Int /\ SyncFactor * MaxGap \in Int /\ One * GapCycles \in Int
  BY Widths
<1>3. One * n < One * (b + GapCycles)
  BY <1>1, <1>2, GapIsRoom
<1> QED
  BY <1>3, Unscaled, Widths

-----------------------------------------------------------------------------
(* What the invariant says of the ticks: nothing comes near the width.     *)
LEMMA Products ==
  ASSUME TypeOK
  PROVE  /\ One * stop_clk \in Nat /\ SyncFactor * todo \in Nat
         /\ SyncFactor * left \in Nat /\ One * clk \in Nat
         /\ SyncFactor * MaxGap \in Nat /\ One * GuardMax \in Nat
         /\ SyncFactor * (todo + left) = SyncFactor * todo + SyncFactor * left
         /\ cycle_accum \in 0..(One - 1)
         /\ Final = Converting + SyncFactor * left /\ Converting \in Nat
<1>1. stop_clk \in Nat /\ todo \in Nat /\ left \in Nat /\ clk \in Nat /\ cycle_accum \in 0..(One - 1)
  BY Widths DEF TypeOK, Clock
<1>2. /\ One * stop_clk \in Nat /\ SyncFactor * todo \in Nat
      /\ SyncFactor * left \in Nat /\ One * clk \in Nat
      /\ SyncFactor * MaxGap \in Nat /\ One * GuardMax \in Nat
  BY <1>1, Widths, Product
<1>3. SyncFactor * (todo + left) = SyncFactor * todo + SyncFactor * left
  BY <1>1, Widths, Distributes
<1> QED
  BY <1>1, <1>2, <1>3, Widths DEF Final, Converting

LEMMA StopIsBounded ==
  ASSUME TypeOK, Budget
  PROVE  stop_clk < GuardMax + GapCycles
<1>1. One * stop_clk <= One * GuardMax + SyncFactor * MaxGap
  BY Products, Widths DEF Budget, Converting
<1>2. stop_clk \in Int
  BY Widths DEF TypeOK, Clock
<1> QED
  BY <1>1, <1>2, BelowGap, Widths

LEMMA ClockIsBounded ==
  ASSUME TypeOK, Budget, Distance
  PROVE  /\ clk < GuardMax + GapCycles + Lateness
         /\ clk + MaxAhead \in Clock
         /\ at = "insn" => clk + MaxInsn < GuardMax + GapCycles + Lateness
<1>1. stop_clk < GuardMax + GapCycles
  BY StopIsBounded
<1>2. clk \in Nat /\ stop_clk \in Nat
      /\ at \in {"asleep", "convert", "loop", "check", "insn"}
  BY Widths DEF TypeOK, Clock
<1>3. clk <= stop_clk + Lateness /\ (at = "insn" => clk + MaxInsn <= stop_clk + Lateness)
  BY <1>2, Widths DEF Distance
<1> QED
  BY <1>1, <1>2, <1>3, Widths DEF Clock

(* While the drive runs stop_clk is no more than a gap away.               *)
LEMMA StopIsNear ==
  ASSUME TypeOK, Distance, at \in {"loop", "check", "insn"}, todo = 0
  PROVE  stop_clk <= clk + GapCycles
<1>1. stop_clk \in Int /\ clk \in Int /\ stop_clk - 1 \in Int
  BY Widths DEF TypeOK, Clock
<1>2. SyncFactor * todo = 0
  BY Widths
<1>3. One * stop_clk <= One * clk + SyncFactor * MaxGap + One - 1
  BY <1>2, Products, Widths DEF Distance, Converting
<1>4. One * (stop_clk + (-1)) = One * stop_clk + One * (-1)
  BY <1>1, Widths, Distributes
<1>5. One * (stop_clk - 1) <= One * clk + SyncFactor * MaxGap
  BY <1>1, <1>3, <1>4, Products, Widths
<1>6. stop_clk - 1 < clk + GapCycles
  BY <1>1, <1>5, BelowGap
<1> QED
  BY <1>1, <1>6, Widths

(* The condition of the loop is the comparison it stands for.              *)
LEMMA ReachedTells ==
  ASSUME TypeOK, Budget, Distance, at = "loop"
  PROVE  Reached <=> stop_clk <= clk
<1>1. clk \in Clock /\ stop_clk \in Clock /\ clk \in Nat /\ stop_clk \in Nat
  BY Widths DEF TypeOK, Clock
<1>2. stop_clk <= clk + GapCycles /\ clk <= stop_clk + Lateness
  BY StopIsNear DEF Budget, Distance
<1>3. CASE stop_clk <= clk
  <2>1. clk - stop_clk \in Clock
    BY <1>1, <1>3, Widths DEF Clock
  <2>2. Wrap(clk - stop_clk) = clk - stop_clk
    BY <2>1, WrapStays
  <2> QED
    BY <2>2, <1>1, <1>2, <1>3, Widths DEF Reached
<1>4. CASE clk < stop_clk
  <2>1. Wrap(clk - stop_clk) = clk - stop_clk + ClockMax + 1
    BY <1>1, <1>4, WrapNegative, Widths DEF Clock
  <2> QED
    BY <2>1, <1>1, <1>2, <1>4, Widths DEF Reached
<1> QED
  BY <1>1, <1>3, <1>4

-----------------------------------------------------------------------------
LEMMA InitInv == Init => DriveInv
<1> SUFFICES ASSUME Init PROVE DriveInv
  OBVIOUS
<1>1. TypeOK
  <2>1. /\ clk \in Clock /\ stop_clk \in Clock /\ next_clk \in Clock
        /\ cycle_accum \in 0..(One - 1) /\ todo \in 0..MaxGap /\ left \in 0..MaxGap
        /\ drift \in Int
    BY Widths DEF Init, Clock
  <2>2. reset \in BOOLEAN /\ pending \in BOOLEAN
    BY DEF Init
  <2> QED
    BY <2>1, <2>2 DEF Init, TypeOK
<1>2. Budget
  <2>1. One * 0 = 0 /\ SyncFactor * (0 + MaxGap) = SyncFactor * MaxGap
    BY Widths
  <2> QED
    BY <1>1, <2>1, Products, Widths DEF Init, Budget, Final
<1>3. NoDrift /\ TimerOnTime /\ JustLooked /\ Distance /\ NotRun
  BY Widths DEF Init, NoDrift, TimerOnTime, JustLooked, Distance, NotRun
<1> QED
  BY <1>1, <1>2, <1>3 DEF DriveInv

(* A call of the drive begins: some of what it may be given.               *)
LEMMA ExecuteStep == DriveInv /\ Execute => DriveInv'
<1> SUFFICES ASSUME DriveInv, NEW cycles \in 0..left,
                    at = "asleep", todo' = cycles, left' = left - cycles,
                    at' = "convert", UNCHANGED <<clk, stop_clk, cycle_accum, reset, alarm, drift>>
             PROVE  DriveInv'
  BY DEF Execute, Goto
<1>1. TypeOK'
  BY Widths DEF DriveInv, TypeOK, alarm
<1>2. todo = 0 /\ todo' + left' = todo + left /\ left \in Nat /\ todo' <= MaxGap /\ todo' \in Nat
  BY Widths DEF DriveInv, Budget, TypeOK
<1>3. Budget'
  BY <1>2 DEF DriveInv, Budget, Final
<1>4. JustLooked'
  BY <1>2, Widths DEF DriveInv, JustLooked, Budget
<1>5. Distance'
  <2>1. SyncFactor * todo' <= SyncFactor * MaxGap
    BY <1>2, Widths, ProductGrows
  <2>2. One * stop_clk <= One * clk
    BY Widths, ProductGrows DEF DriveInv, Distance, TypeOK, Clock
  <2>3. /\ One * stop_clk \in Nat /\ One * clk \in Nat /\ cycle_accum \in 0..(One - 1)
        /\ SyncFactor * MaxGap \in Nat /\ SyncFactor * todo' \in Nat
    BY <1>2, Products, Product, Widths DEF DriveInv
  <2>4. Converting' <= One * clk + SyncFactor * MaxGap + One - 1
    BY <2>1, <2>2, <2>3, Widths DEF Converting
  <2> QED
    BY <2>4 DEF DriveInv, Distance
<1> QED
  BY <1>1, <1>3, <1>4, <1>5
     DEF DriveInv, NoDrift, TimerOnTime, NotRun, alarm

(* Some of the main cycles become drive cycles; what does not make a whole *)
(* one stays in cycle_accum.                                               *)
LEMMA ConvertStep == DriveInv /\ Convert => DriveInv'
<1> SUFFICES ASSUME DriveInv, Convert PROVE DriveInv'
  OBVIOUS
<1> DEFINE given == SyncFactor * Tcycles
           total == cycle_accum + given
           whole == total \div One
<1>a. /\ TypeOK /\ todo \in Nat \ {0} /\ todo <= MaxGap /\ left \in Nat
      /\ stop_clk \in Nat /\ cycle_accum \in 0..(One - 1)
  BY Widths DEF DriveInv, TypeOK, Convert, Clock
<1>b. Tcycles \in Nat /\ Tcycles <= Chunk /\ Tcycles <= todo /\ Tcycles # 0
  BY <1>a, Widths DEF Tcycles
<1>1. given \in Nat /\ total \in Nat /\ total <= ClockMax
  <2>1. given <= SyncFactor * Chunk /\ SyncFactor * Chunk \in Nat /\ given \in Nat
    BY <1>b, Widths, ProductGrows, Product
  <2>2. SyncFactor * Chunk + One - 1 <= ClockMax
    BY DriveAssumption DEF DriveAssumption
  <2> HIDE DEF given
  <2> QED
    BY <2>1, <2>2, <1>a, Widths
<1>2. Wrap(total) = total
  BY <1>1, WrapStays, Widths DEF Clock
<1>3. /\ whole \in Nat /\ total % One \in 0..(One - 1)
      /\ One * whole + (total % One) = total /\ One * whole \in Nat
  <2> HIDE DEF total
  <2> QED
    BY <1>1, Division, Product, Widths
<1>4. /\ stop_clk' = Wrap(stop_clk + whole)
      /\ cycle_accum' = total % One
      /\ todo' = todo - Tcycles /\ todo' \in Nat
      /\ drift' = drift + cycle_accum + given - One * whole - (total % One)
      /\ UNCHANGED <<clk, at, reset, alarm, left>> /\ at = "convert"
  BY <1>a, <1>b, <1>2 DEF Convert, Leftover
<1>5. SyncFactor * todo = given + SyncFactor * todo' /\ SyncFactor * todo' \in Nat
  <2>1. SyncFactor * (Tcycles + todo') = given + SyncFactor * todo'
    BY <1>b, <1>4, Widths, Distributes
  <2>2. Tcycles + todo' = todo
    BY <1>a, <1>b, <1>4
  <2> QED
    BY <2>1, <2>2, <1>4, Product, Widths
<1>6. One * (stop_clk + whole) = One * stop_clk + One * whole
  BY <1>3, <1>a, Widths, Distributes
<1> HIDE DEF given, total, whole
<1>c. total = cycle_accum + given
  BY DEF total
<1>7. One * (stop_clk + whole) + (total % One) + SyncFactor * todo' = Converting
  BY <1>a, <1>c, <1>1, <1>3, <1>5, <1>6, Products DEF Converting
<1>8. stop_clk + whole < GuardMax + GapCycles
  <2>1. Converting <= One * GuardMax + SyncFactor * MaxGap
    BY <1>a, Products DEF DriveInv, Budget
  <2>2. One * (stop_clk + whole) <= One * GuardMax + SyncFactor * MaxGap
    BY <2>1, <1>7, <1>a, <1>3, <1>5, <1>6, Products, Widths
  <2>3. stop_clk + whole \in Int /\ GuardMax \in Int
    BY <1>a, <1>3, Widths
  <2> QED
    BY <2>2, <2>3, BelowGap
<1>9. stop_clk' = stop_clk + whole /\ stop_clk' \in Clock
  <2>1. stop_clk + whole \in Clock
    BY <1>8, <1>a, <1>3, Widths DEF Clock
  <2> QED
    BY <2>1, <1>4, WrapStays
<1>10. Converting' = Converting
  BY <1>4, <1>7, <1>9 DEF Converting
<1>11. TypeOK'
  BY <1>4, <1>9, <1>3, <1>a, <1>b, Widths DEF DriveInv, TypeOK, alarm
<1>12. NoDrift'
  BY <1>c, <1>3, <1>4, <1>1, <1>a DEF DriveInv, NoDrift
<1>13. Budget'
  <2>1. Final' = Converting' + SyncFactor * left' /\ Final = Converting + SyncFactor * left
    <3>1. Final = Converting + SyncFactor * left
      BY <1>a, Products
    <3>2. SyncFactor * (todo' + left') = SyncFactor * todo' + SyncFactor * left'
      BY <1>4, <1>a, Widths, Distributes
    <3>3. /\ One * stop_clk' \in Nat /\ cycle_accum' \in Nat
          /\ SyncFactor * todo' \in Nat /\ SyncFactor * left' \in Nat
      BY <1>3, <1>4, <1>9, <1>5, <1>a, Products, Product, Widths DEF Clock
    <3> QED
      BY <3>1, <3>2, <3>3 DEF Final, Converting
  <2>2. Final' = Final
    BY <2>1, <1>10, <1>4
  <2> QED
    BY <2>2, <1>4, <1>a, <1>b, Widths DEF DriveInv, Budget
<1>14. JustLooked'
  BY <1>4, <1>a DEF DriveInv, JustLooked
<1>15. Distance'
  <2>1. clk <= stop_clk' + Lateness
    BY <1>9, <1>4, <1>3, <1>a, Widths DEF DriveInv, Distance, TypeOK, Clock
  <2>2. Converting' <= One * clk' + SyncFactor * MaxGap + One - 1
    BY <1>10, <1>4 DEF DriveInv, Distance
  <2> QED
    BY <2>1, <2>2, <1>4 DEF Distance
<1>16. TimerOnTime' /\ NotRun'
  BY <1>4 DEF DriveInv, TimerOnTime, NotRun, alarm
<1> QED
  BY <1>11, <1>12, <1>13, <1>14, <1>15, <1>16 DEF DriveInv

LEMMA ConvertedStep == DriveInv /\ Converted => DriveInv'
<1> SUFFICES ASSUME DriveInv, Converted PROVE DriveInv'
  OBVIOUS
<1>1. /\ todo = 0 /\ at = "convert" /\ at' = "loop"
      /\ UNCHANGED <<clk, stop_clk, cycle_accum, todo, reset, pending, next_clk, left, drift>>
  BY DEF Converted, Goto, alarm
<1> QED
  BY <1>1 DEF DriveInv, TypeOK, NoDrift, TimerOnTime, Budget, Final, JustLooked,
              Distance, Converting, NotRun

-----------------------------------------------------------------------------
(* The loop of the drive CPU.                                              *)
LEMMA EndExecuteStep == DriveInv /\ EndExecute => DriveInv'
<1> SUFFICES ASSUME DriveInv, EndExecute PROVE DriveInv'
  OBVIOUS
<1>1. /\ at = "loop" /\ at' = "asleep"
      /\ UNCHANGED <<clk, stop_clk, cycle_accum, todo, reset, pending, next_clk, left, drift>>
  BY DEF EndExecute, Goto, alarm
<1>2. stop_clk <= clk
  BY <1>1, ReachedTells DEF DriveInv, EndExecute
<1> QED
  BY <1>1, <1>2 DEF DriveInv, TypeOK, NoDrift, TimerOnTime, Budget, Final, JustLooked,
                    Distance, Converting, NotRun

LEMMA BeginInsnStep == DriveInv /\ BeginInsn => DriveInv'
<1> SUFFICES ASSUME DriveInv, BeginInsn PROVE DriveInv'
  OBVIOUS
<1>1. /\ at = "loop" /\ at' = "check"
      /\ UNCHANGED <<clk, stop_clk, cycle_accum, todo, reset, pending, next_clk, left, drift>>
  BY DEF BeginInsn, Goto, alarm
<1>2. clk < stop_clk
  BY <1>1, ReachedTells, Widths DEF DriveInv, BeginInsn, TypeOK, Clock
<1>3. left # MaxGap
  BY <1>1, <1>2, Widths DEF DriveInv, JustLooked, TypeOK, Clock
<1> QED
  BY <1>1, <1>2, <1>3
     DEF DriveInv, TypeOK, NoDrift, TimerOnTime, Budget, Final, JustLooked,
         Distance, Converting, NotRun

(* The timer's alarm.  It is set again less than the room that is left     *)
(* after the clock.                                                        *)
LEMMA SetTimerStaysAhead ==
  ASSUME DriveInv, NEW from \in Nat, from <= clk,
         NEW ahead \in 1..MaxAhead, SetTimer(Wrap(from + ahead))
  PROVE  pending' = TRUE /\ next_clk' = from + ahead /\ next_clk' \in Clock
<1>1. clk + MaxAhead \in Clock /\ clk \in Nat
  BY ClockIsBounded, Widths DEF DriveInv, TypeOK, Clock
<1>2. from + ahead \in Clock
  BY <1>1, Widths DEF Clock
<1>3. Wrap(from + ahead) = from + ahead
  BY <1>2, WrapStays
<1> QED
  BY <1>2, <1>3 DEF SetTimer

LEMMA DispatchStep == DriveInv /\ Dispatch => DriveInv'
<1> SUFFICES ASSUME DriveInv, Dispatch PROVE DriveInv'
  OBVIOUS
<1>1. /\ at \in {"check", "insn"} /\ clk >= next_clk
      /\ UNCHANGED <<clk, stop_clk, cycle_accum, at, todo, reset, left, drift>>
  BY DEF Dispatch, AlarmIsDue
<1>2. /\ pending' \in BOOLEAN /\ next_clk' \in Clock
      /\ pending' => next_clk' >= next_clk
  <2>1. CASE UnsetTimer
    <3>1. ~pending' /\ pending' \in BOOLEAN /\ next_clk' = ClockMax
      BY <2>1 DEF UnsetTimer
    <3>2. ClockMax \in Clock
      BY Widths DEF Clock
    <3> QED
      BY <3>1, <3>2
  <2>2. ASSUME NEW period \in 1..MaxAhead, SetTimer(Wrap(next_clk + period))
        PROVE  pending' = TRUE /\ next_clk' \in Clock /\ next_clk' >= next_clk
    <3>1. next_clk \in Nat /\ next_clk <= clk
      BY <1>1, Widths DEF DriveInv, TypeOK, Clock
    <3>2. pending' = TRUE /\ next_clk' = next_clk + period /\ next_clk' \in Clock
      BY <3>1, <2>2, SetTimerStaysAhead
    <3> QED
      BY <3>1, <3>2, Widths
  <2> QED
    BY <2>1, <2>2 DEF Dispatch
<1>3. TypeOK'
  BY <1>1, <1>2 DEF DriveInv, TypeOK
<1>4. TimerOnTime'
  <2>1. ASSUME pending' PROVE clk < next_clk' + IrqCycles + MaxInsn
    <3>1. clk < next_clk + IrqCycles + MaxInsn
      BY <1>1 DEF DriveInv, TimerOnTime, Dispatch
    <3>2. next_clk' >= next_clk
      BY <2>1, <1>2
    <3>3. clk \in Int /\ next_clk \in Int /\ next_clk' \in Int
      BY <1>2, Widths DEF DriveInv, TypeOK, Clock
    <3>4. \A tick \in Int : tick >= next_clk => clk < tick + IrqCycles + MaxInsn
      BY <3>1, <3>3, Widths
    <3> QED
      BY <3>2, <3>3, <3>4
  <2> QED
    BY <2>1, <1>1 DEF TimerOnTime
<1> QED
  BY <1>1, <1>3, <1>4 DEF DriveInv, NoDrift, Budget, Final, JustLooked,
                          Distance, Converting, NotRun

(* The steps of the loop leave alone what the drive is given; the clock    *)
(* only goes on, so that stop_clk does not get farther away.               *)
LEMMA ClockGoesOn ==
  ASSUME DriveInv, at \in {"check", "insn"},
         at' \in {"loop", "insn"}, clk' \in Nat, clk' >= clk,
         UNCHANGED <<stop_clk, cycle_accum, todo, left, drift>>
  PROVE  NoDrift' /\ Budget' /\ JustLooked'
         /\ Converting' <= One * clk' + SyncFactor * MaxGap + One - 1
<1>0. clk \in Int /\ clk' \in Int /\ One \in Nat
  BY Widths DEF DriveInv, TypeOK, Clock
<1>1. One * clk <= One * clk' /\ One * clk' \in Nat
  BY <1>0, ProductGrows, Product
<1>2. Converting <= One * clk + SyncFactor * MaxGap + One - 1
  BY DEF DriveInv, Distance
<1>3. Converting' = Converting
  BY DEF Converting
<1>4. Converting' <= One * clk' + SyncFactor * MaxGap + One - 1
  BY <1>1, <1>2, <1>3, Products, Widths DEF DriveInv
<1>5. left # MaxGap
  BY DEF DriveInv, JustLooked
<1> QED
  BY <1>4, <1>5 DEF DriveInv, NoDrift, Budget, Final, JustLooked

LEMMA AckResetStep == DriveInv /\ AckReset => DriveInv'
<1> SUFFICES ASSUME DriveInv, AckReset PROVE DriveInv'
  OBVIOUS
<1>1. /\ at = "check" /\ at' = "insn" /\ reset /\ clk' = 6 /\ ~reset' /\ reset' \in BOOLEAN
      /\ ~pending' /\ pending' \in BOOLEAN /\ next_clk' = ClockMax
      /\ UNCHANGED <<stop_clk, cycle_accum, todo, left, drift>>
  BY DEF AckReset, Goto, UnsetTimer
<1>2. clk = 0 /\ clk < stop_clk /\ stop_clk \in Nat
  BY <1>1, Widths DEF DriveInv, NotRun, Distance, TypeOK, Clock
<1>3. NoDrift' /\ Budget' /\ JustLooked'
      /\ Converting' <= One * clk' + SyncFactor * MaxGap + One - 1
  BY <1>1, <1>2, ClockGoesOn
<1>4. clk' < stop_clk' + IrqCycles + 6
  BY <1>1, <1>2, Widths
<1>5. TypeOK'
  <2>1. clk' \in Clock /\ next_clk' \in Clock
    BY <1>1, Widths DEF Clock
  <2> QED
    BY <2>1, <1>1 DEF DriveInv, TypeOK
<1> QED
  BY <1>1, <1>3, <1>4, <1>5 DEF DriveInv, TimerOnTime, Distance, NotRun

LEMMA IrqSequenceStep == DriveInv /\ IrqSequence => DriveInv'
<1> SUFFICES ASSUME DriveInv, IrqSequence PROVE DriveInv'
  OBVIOUS
<1>1. /\ at = "check" /\ at' = "insn" /\ ~reset /\ clk < next_clk
      /\ clk' = Wrap(clk + IrqCycles)
      /\ UNCHANGED <<stop_clk, cycle_accum, todo, reset, pending, next_clk, left, drift>>
  BY Widths DEF IrqSequence, Goto, AlarmIsDue, alarm, DriveInv, TypeOK, Clock
<1>2. clk < stop_clk /\ stop_clk < GuardMax + GapCycles /\ clk \in Nat /\ stop_clk \in Nat
  BY <1>1, StopIsBounded, Widths DEF DriveInv, Distance, TypeOK, Clock
<1>3. clk + IrqCycles \in Clock
  BY <1>2, Widths DEF Clock
<1>4. clk' = clk + IrqCycles /\ clk' \in Clock /\ clk' \in Nat /\ clk' >= clk
  BY <1>1, <1>2, <1>3, WrapStays, Widths DEF Clock
<1>5. NoDrift' /\ Budget' /\ JustLooked'
      /\ Converting' <= One * clk' + SyncFactor * MaxGap + One - 1
  BY <1>1, <1>4, ClockGoesOn
<1>6. clk' < stop_clk' + IrqCycles + 6 /\ clk' < next_clk' + IrqCycles + MaxInsn
  BY <1>1, <1>2, <1>4, Widths DEF DriveInv, TypeOK, Clock
<1>7. TypeOK'
  BY <1>1, <1>4 DEF DriveInv, TypeOK
<1> QED
  BY <1>1, <1>5, <1>6, <1>7 DEF DriveInv, TimerOnTime, Distance, NotRun

LEMMA NoInterruptStep == DriveInv /\ NoInterrupt => DriveInv'
<1> SUFFICES ASSUME DriveInv, NoInterrupt PROVE DriveInv'
  OBVIOUS
<1>1. /\ at = "check" /\ at' = "insn" /\ ~reset
      /\ UNCHANGED <<clk, stop_clk, cycle_accum, todo, reset, pending, next_clk, left, drift>>
  BY DEF NoInterrupt, Goto, alarm
<1>2. clk < stop_clk /\ clk' \in Nat /\ clk' >= clk /\ stop_clk \in Nat
  BY <1>1, Widths DEF DriveInv, Distance, TypeOK, Clock
<1>3. NoDrift' /\ Budget' /\ JustLooked'
      /\ Converting' <= One * clk' + SyncFactor * MaxGap + One - 1
  BY <1>1, <1>2, ClockGoesOn
<1>4. clk' < stop_clk' + IrqCycles + 6
  BY <1>1, <1>2, Widths
<1>5. TypeOK' /\ TimerOnTime'
  BY <1>1 DEF DriveInv, TypeOK, TimerOnTime
<1> QED
  BY <1>1, <1>3, <1>4, <1>5 DEF DriveInv, Distance, NotRun

LEMMA InsnStep == DriveInv /\ Insn => DriveInv'
<1> SUFFICES ASSUME DriveInv, Insn PROVE DriveInv'
  OBVIOUS
<1>1. /\ at = "insn" /\ at' = "loop" /\ clk < next_clk
      /\ UNCHANGED <<stop_clk, cycle_accum, todo, reset, left, drift>>
  BY Widths DEF Insn, Goto, AlarmIsDue, DriveInv, TypeOK, Clock
<1>2. PICK n \in 1..MaxInsn : clk' = Wrap(clk + n)
  BY DEF Insn
<1>3. /\ clk < stop_clk + IrqCycles + 6 /\ clk + MaxInsn < GuardMax + GapCycles + Lateness
      /\ clk \in Nat /\ stop_clk \in Nat
  BY <1>1, ClockIsBounded, Widths DEF DriveInv, Distance, TypeOK, Clock
<1>4. clk + n \in Clock
  BY <1>2, <1>3, Widths DEF Clock
<1>5. clk' = clk + n /\ clk' \in Clock /\ clk' \in Nat /\ clk' >= clk
  BY <1>2, <1>3, <1>4, WrapStays, Widths DEF Clock
<1>6. NoDrift' /\ Budget' /\ JustLooked'
      /\ Converting' <= One * clk' + SyncFactor * MaxGap + One - 1
  BY <1>1, <1>5, ClockGoesOn
<1>7. clk' <= stop_clk' + Lateness
  BY <1>1, <1>2, <1>3, <1>5, Widths
<1>8. /\ pending' \in BOOLEAN /\ next_clk' \in Clock
      /\ next_clk' > clk
  <2>1. CASE UNCHANGED alarm
    BY <2>1, <1>1 DEF alarm, DriveInv, TypeOK
  <2>2. ASSUME NEW ahead \in 1..MaxAhead, SetTimer(Wrap(clk + ahead))
        PROVE  pending' = TRUE /\ next_clk' \in Clock /\ next_clk' > clk
    <3>1. pending' = TRUE /\ next_clk' = clk + ahead /\ next_clk' \in Clock
      <4>1. clk <= clk
        BY <1>3
      <4> QED
        BY <4>1, <2>2, <1>3, SetTimerStaysAhead
    <3> QED
      BY <3>1, <1>3, Widths
  <2> QED
    BY <2>1, <2>2 DEF Insn
<1>9. TypeOK'
  BY <1>1, <1>5, <1>8 DEF DriveInv, TypeOK
<1>10. TimerOnTime'
  BY <1>2, <1>3, <1>5, <1>8, Widths DEF TimerOnTime, Clock
<1>11. NotRun'
  BY <1>1 DEF DriveInv, NotRun
<1> QED
  BY <1>1, <1>6, <1>7, <1>9, <1>10, <1>11 DEF DriveInv, Distance

(* The idle trap: up to the next event, whichever it is.                   *)
LEMMA TrapIdleStep == DriveInv /\ TrapIdle => DriveInv'
<1> SUFFICES ASSUME DriveInv, TrapIdle PROVE DriveInv'
  OBVIOUS
<1>1. /\ at = "check" /\ at' = "loop" /\ ~reset /\ clk < next_clk
      /\ clk' = IdleUntil
      /\ UNCHANGED <<stop_clk, cycle_accum, todo, reset, pending, next_clk, left, drift>>
  BY Widths DEF TrapIdle, Goto, AlarmIsDue, alarm, DriveInv, TypeOK, Clock
<1>2. clk < stop_clk /\ clk \in Nat /\ stop_clk \in Clock /\ next_clk \in Clock
  BY <1>1, Widths DEF DriveInv, Distance, TypeOK, Clock
<1>3. clk' \in Clock /\ clk' >= clk /\ clk' <= stop_clk /\ clk' <= next_clk /\ clk' \in Nat
  BY <1>1, <1>2, Widths DEF IdleUntil, Clock
<1>4. NoDrift' /\ Budget' /\ JustLooked'
      /\ Converting' <= One * clk' + SyncFactor * MaxGap + One - 1
  BY <1>1, <1>3, ClockGoesOn
<1>5. clk' <= stop_clk' + Lateness /\ clk' < next_clk' + IrqCycles + MaxInsn
  BY <1>1, <1>2, <1>3, Widths DEF Clock
<1>6. TypeOK'
  BY <1>1, <1>3 DEF DriveInv, TypeOK
<1> QED
  BY <1>1, <1>4, <1>5, <1>6 DEF DriveInv, TimerOnTime, Distance, NotRun

-----------------------------------------------------------------------------
(* A look of the guard, and enabling the drive, leave stop_clk below the   *)
(* guard's bound: the drive may be given a whole gap again.                *)
LEMMA FullBudgetFits ==
  ASSUME TypeOK, NEW stop \in Nat, stop < GuardMax
  PROVE  One * stop + cycle_accum + SyncFactor * MaxGap
           <= One * GuardMax + SyncFactor * MaxGap
<1>0. stop + 1 <= GuardMax /\ GuardMax \in Int /\ One \in Nat
  BY Widths
<1>1. One * (stop + 1) <= One * GuardMax
  BY <1>0, ProductGrows
<1>2. One * (stop + 1) = One * stop + One * 1
  BY <1>0, Distributes
<1>3. /\ cycle_accum \in 0..(One - 1) /\ One * stop \in Nat /\ One * GuardMax \in Nat
      /\ SyncFactor * MaxGap \in Nat /\ One * 1 = One
  BY Products, Product, Widths
<1> QED
  BY <1>0, <1>1, <1>2, <1>3

LEMMA FullBudget ==
  ASSUME TypeOK, stop_clk' \in Nat, stop_clk' < GuardMax, cycle_accum' = cycle_accum,
         at' = "asleep", todo' = 0, left' = MaxGap
  PROVE  Budget'
<1>1. 0 + MaxGap = MaxGap /\ MaxGap <= MaxGap
  BY Widths
<1>2. Final' = One * stop_clk' + cycle_accum + SyncFactor * MaxGap
  BY <1>1 DEF Final
<1>3. Final' <= One * GuardMax + SyncFactor * MaxGap
  BY <1>2, FullBudgetFits
<1> QED
  BY <1>1, <1>3 DEF Budget

(* The guard: nothing that is pending wraps, and stop_clk does not either. *)
LEMMA GuardTripsStep == DriveInv /\ GuardTrips => DriveInv'
<1> SUFFICES ASSUME DriveInv, GuardTrips PROVE DriveInv'
  OBVIOUS
<1>1. /\ at = "asleep" /\ clk >= GuardMax /\ clk' = clk - ClockSub
      /\ stop_clk' = Wrap(stop_clk - ClockSub) /\ next_clk' = Wrap(next_clk - ClockSub)
      /\ left' = MaxGap
      /\ UNCHANGED <<cycle_accum, at, todo, reset, pending, drift>>
  BY DEF GuardTrips, StopWarped, Warped
<1>2. /\ clk \in Nat /\ stop_clk \in Nat /\ next_clk \in Nat /\ clk <= ClockMax
      /\ stop_clk <= clk /\ clk <= stop_clk + Lateness /\ next_clk <= ClockMax
  BY <1>1, Widths DEF DriveInv, Distance, TypeOK, Clock
<1>3. clk' \in Clock /\ clk' < GuardMax /\ clk' \in Nat
  BY <1>1, <1>2, Widths DEF Clock
<1>4. stop_clk - ClockSub \in Clock
  BY <1>1, <1>2, Widths DEF Clock
<1>5. stop_clk' = stop_clk - ClockSub /\ stop_clk' \in Clock
      /\ stop_clk' <= clk' /\ clk' <= stop_clk' + Lateness
  BY <1>1, <1>2, <1>4, WrapStays, Widths
<1>6. next_clk' \in Clock
  BY <1>1, <1>2, WrapIsATick, Widths
<1>7. TypeOK'
  BY <1>1, <1>3, <1>5, <1>6, Widths DEF DriveInv, TypeOK
<1>8. todo = 0 /\ todo' = 0
  BY <1>1 DEF DriveInv, Budget
<1>9. Budget'
  <2>1. stop_clk' \in Nat /\ stop_clk' < GuardMax
    BY <1>3, <1>5, Widths DEF Clock
  <2> QED
    BY <2>1, <1>1, <1>8, FullBudget DEF DriveInv
<1>10. JustLooked' /\ Distance'
  BY <1>1, <1>3, <1>5, <1>8 DEF JustLooked, Distance
<1>11. TimerOnTime'
  <2>1. ASSUME pending PROVE clk' < next_clk' + IrqCycles + MaxInsn
    <3>1. clk < next_clk + IrqCycles + MaxInsn
      BY <2>1 DEF DriveInv, TimerOnTime
    <3>2. next_clk - ClockSub \in Clock
      BY <3>1, <1>1, <1>2, Widths DEF Clock
    <3> QED
      BY <3>1, <3>2, <1>1, <1>2, WrapStays, Widths
  <2> QED
    BY <2>1, <1>1 DEF TimerOnTime
<1>12. NotRun'
  <2>1. clk # 0
    BY <1>1, <1>2, Widths
  <2> QED
    BY <2>1, <1>1 DEF DriveInv, NotRun
<1> QED
  BY <1>1, <1>7, <1>9, <1>10, <1>11, <1>12 DEF DriveInv, NoDrift

LEMMA GuardPassesStep == DriveInv /\ GuardPasses => DriveInv'
<1> SUFFICES ASSUME DriveInv, GuardPasses PROVE DriveInv'
  OBVIOUS
<1>1. /\ at = "asleep" /\ clk < GuardMax /\ left' = MaxGap
      /\ UNCHANGED <<clk, stop_clk, cycle_accum, at, todo, reset, pending, next_clk, drift>>
  BY DEF GuardPasses, alarm
<1>2. /\ clk \in Nat /\ stop_clk \in Nat /\ stop_clk <= clk /\ todo = 0
  BY <1>1, Widths DEF DriveInv, Distance, Budget, TypeOK, Clock
<1>3. TypeOK'
  BY <1>1, Widths DEF DriveInv, TypeOK
<1>4. Budget'
  BY <1>1, <1>2, FullBudget, Widths DEF DriveInv
<1>5. JustLooked' /\ Distance'
  BY <1>1, <1>2 DEF DriveInv, JustLooked, Distance
<1> QED
  BY <1>1, <1>3, <1>4, <1>5 DEF DriveInv, NoDrift, TimerOnTime, NotRun

LEMMA DrivecpuResetStep == DriveInv /\ DrivecpuReset => DriveInv'
<1> SUFFICES ASSUME DriveInv, DrivecpuReset PROVE DriveInv'
  OBVIOUS
<1>1. /\ at = "asleep" /\ clk' = 0 /\ stop_clk' = 0 /\ reset' = TRUE
      /\ UNCHANGED <<cycle_accum, at, todo, pending, next_clk, left, drift>>
  BY DEF DrivecpuReset, alarm
<1>2. todo = 0 /\ left \in Nat /\ left <= MaxGap
  BY <1>1, Widths DEF DriveInv, Budget, TypeOK
<1>3. TypeOK'
  <2>1. 0 \in Clock
    BY Widths DEF Clock
  <2> QED
    BY <2>1, <1>1 DEF DriveInv, TypeOK
<1>4. Budget'
  <2>1. SyncFactor * (todo' + left') <= SyncFactor * MaxGap
    BY <1>1, <1>2, Widths, ProductGrows
  <2>2. One <= One * GuardMax
    <3>1. One * 1 <= One * GuardMax
      BY Widths, ProductGrows
    <3> QED
      BY <3>1, Widths
  <2>3. /\ cycle_accum' \in 0..(One - 1) /\ One * stop_clk' = 0 /\ One * GuardMax \in Nat
        /\ SyncFactor * MaxGap \in Nat /\ SyncFactor * (todo' + left') \in Int
    BY <1>1, <1>2, Products, Product, Widths DEF DriveInv
  <2>4. Final' <= One * GuardMax + SyncFactor * MaxGap
    BY <2>1, <2>2, <2>3, Widths DEF Final
  <2> QED
    BY <2>4, <1>1 DEF DriveInv, Budget
<1>5. JustLooked' /\ Distance' /\ NotRun'
  BY <1>1, <1>2, Widths DEF JustLooked, Distance, NotRun
<1>6. TimerOnTime'
  BY <1>1, Widths DEF DriveInv, TypeOK, TimerOnTime, Clock
<1> QED
  BY <1>1, <1>3, <1>4, <1>5, <1>6 DEF DriveInv, NoDrift

LEMMA EnableStep == DriveInv /\ Enable => DriveInv'
<1> SUFFICES ASSUME DriveInv, Enable PROVE DriveInv'
  OBVIOUS
<1>1. /\ at = "asleep" /\ left = MaxGap /\ stop_clk' = clk
      /\ UNCHANGED <<clk, cycle_accum, at, todo, reset, pending, next_clk, left, drift>>
  BY DEF Enable, alarm
<1>2. todo = 0 /\ clk < GuardMax /\ clk \in Nat
  BY <1>1, Widths DEF DriveInv, JustLooked, TypeOK, Clock
<1>3. TypeOK'
  BY <1>1 DEF DriveInv, TypeOK
<1>4. Budget'
  BY <1>1, <1>2, FullBudget, Widths DEF DriveInv
<1>5. JustLooked' /\ Distance'
  BY <1>1, <1>2, Widths DEF JustLooked, Distance
<1> QED
  BY <1>1, <1>3, <1>4, <1>5 DEF DriveInv, NoDrift, TimerOnTime, NotRun

-----------------------------------------------------------------------------
LEMMA InvStep == DriveInv /\ [Next]_vars => DriveInv'
<1> SUFFICES ASSUME DriveInv, [Next]_vars PROVE DriveInv'
  OBVIOUS
<1>1. CASE UNCHANGED vars
  BY <1>1 DEF vars, alarm, DriveInv, TypeOK, NoDrift, TimerOnTime, Budget, Final,
              JustLooked, Distance, Converting, NotRun
<1> QED
  BY <1>1, ExecuteStep, ConvertStep, ConvertedStep, EndExecuteStep, BeginInsnStep,
     DispatchStep, AckResetStep, IrqSequenceStep, NoInterruptStep, InsnStep,
     TrapIdleStep, GuardTripsStep, GuardPassesStep, DrivecpuResetStep, EnableStep
     DEF Next

LEMMA DriveInvariant == Spec => []DriveInv
  BY InitInv, InvStep, PTL DEF Spec

(* For any factor, any lengths and any width that leaves its guard room,   *)
(* no tick of the drive leaves the range of its type.                      *)
THEOREM DriveIsTyped == Spec => []TypeOK
<1>1. DriveInv => TypeOK
  BY DEF DriveInv
<1> QED
  BY <1>1, DriveInvariant, PTL

(* A drive gets exactly its share of the main cycles, however they are cut *)
(* up, and the accumulator never overflows (drivecpu_execute).             *)
THEOREM DriveKeepsItsShare == Spec => []NoDrift
<1>1. DriveInv => NoDrift
  BY DEF DriveInv
<1> QED
  BY <1>1, DriveInvariant, PTL

(* A sleeping drive is past stop_clk by an instruction, an interrupt       *)
(* sequence and a reset at most, whatever the guard has taken.             *)
THEOREM DriveStopsOnTime == Spec => []StopsOnTime
<1>1. DriveInv => StopsOnTime
  <2> SUFFICES ASSUME DriveInv, at = "asleep"
               PROVE  Wrap(clk - stop_clk) <= IrqCycles + MaxInsn + 6
    BY DEF StopsOnTime
  <2>1. clk \in Nat /\ stop_clk \in Nat /\ stop_clk <= clk /\ clk <= stop_clk + Lateness
        /\ clk <= ClockMax
    BY Widths DEF DriveInv, Distance, TypeOK, Clock
  <2>2. clk - stop_clk \in Clock
    BY <2>1, Widths DEF Clock
  <2> QED
    BY <2>1, <2>2, WrapStays, Widths
<1> QED
  BY <1>1, DriveInvariant, PTL

(* Neither the idle trap nor the guard skips the timer's alarm.            *)
THEOREM TimerIsNotSkipped == Spec => []TimerOnTime
<1>1. DriveInv => TimerOnTime
  BY DEF DriveInv
<1> QED
  BY <1>1, DriveInvariant, PTL

(* The clock of a drive never overflows: the guard looks in time, and      *)
(* nothing else moves it back but a reset.                                 *)
THEOREM DriveNeverOverflows == Spec => NeverOverflows
<1>1. DriveInv /\ [Next]_vars => [clk' >= clk \/ GuardTrips \/ DrivecpuReset \/ AckReset]_vars
  <2> SUFFICES ASSUME DriveInv, Next, ~(GuardTrips \/ DrivecpuReset \/ AckReset)
               PROVE  clk' >= clk
    OBVIOUS
  <2>1. clk \in Nat /\ stop_clk \in Nat /\ next_clk \in Nat
    BY Widths DEF DriveInv, TypeOK, Clock
  <2>2. CASE UNCHANGED clk
    BY <2>1, <2>2
  <2>3. CASE IrqSequence
    <3>1. clk < stop_clk /\ stop_clk < GuardMax + GapCycles /\ clk' = Wrap(clk + IrqCycles)
      BY <2>3, StopIsBounded DEF DriveInv, Distance, IrqSequence
    <3>2. clk + IrqCycles \in Clock
      BY <3>1, <2>1, Widths DEF Clock
    <3> QED
      BY <3>1, <3>2, <2>1, WrapStays, Widths
  <2>4. CASE Insn
    <3>1. PICK n \in 1..MaxInsn : clk' = Wrap(clk + n)
      BY <2>4 DEF Insn
    <3>2. clk + MaxInsn < GuardMax + GapCycles + Lateness
      BY <2>4, ClockIsBounded DEF DriveInv, Insn
    <3>3. clk + n \in Clock
      BY <3>1, <3>2, <2>1, Widths DEF Clock
    <3> QED
      BY <3>1, <3>3, <2>1, WrapStays, Widths
  <2>5. CASE TrapIdle
    <3>1. clk < stop_clk /\ clk < next_clk /\ clk' = IdleUntil
      BY <2>5, <2>1 DEF DriveInv, Distance, TrapIdle, AlarmIsDue
    <3> QED
      BY <3>1, <2>1 DEF IdleUntil
  <2> QED
    BY <2>2, <2>3, <2>4, <2>5
       DEF Next, Execute, Convert, Converted, EndExecute, BeginInsn, Dispatch,
           NoInterrupt, GuardPasses, Enable
<1> QED
  BY <1>1, DriveInvariant, PTL DEF Spec, NeverOverflows
=============================================================================
