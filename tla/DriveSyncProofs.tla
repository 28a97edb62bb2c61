-------------------------- MODULE DriveSyncProofs --------------------------
(***************************************************************************)
(* The drives follow the main clock: what last_clk means in every state,   *)
(* for any number of drives, any frame and any width of the clock.         *)
(***************************************************************************)
EXTENDS DriveSync, TLAPS

(* The clock stays in range because the guard looks at it every frame.     *)
ClockBound ==
  /\ at = "run" => /\ clk + left < GuardMax + Frame
                   /\ sub = 0 /\ unit = 1
  /\ at = "guard" => /\ clk < GuardMax + Frame /\ left = Frame
                     /\ sub = 0 /\ unit = 1
  /\ at = "drives" => /\ clk + sub < GuardMax + Frame /\ left = Frame
                      /\ sub = ClockSub /\ clk >= GuardMax - ClockSub

SafeInv == TypeOK /\ ClockBound

(* The drives that do not skip cycles.                                     *)
Steady == enable \ MaySkip

(* What last_clk means for them: the cycle up to which the drive has been  *)
(* emulated, of the old clock until the drive has followed the guard.      *)
Aligned ==
  /\ at = "run" => \A d \in Steady : /\ last_clk[d] = clk - lag[d]
                                     /\ lag[d] >= 0 /\ lag[d] <= Frame - left
  /\ at = "guard" => \A d \in Steady : last_clk[d] = clk /\ lag[d] = 0
  /\ at = "drives" => \A d \in Steady : /\ d < unit => last_clk[d] = clk
                                        /\ d >= unit => last_clk[d] = clk + sub
                                        /\ lag[d] = 0

Inv == SafeInv /\ Aligned

-----------------------------------------------------------------------------
(* What the guard takes is a whole number of frames and leaves more than   *)
(* SubMin cycles.                                                          *)
LEMMA ClockSubFacts ==
  /\ GuardMax \in Nat /\ ClockSub \in Nat
  /\ ClockSub <= GuardMax - SubMin
  /\ ClockSub >= GuardMax - 2 * SubMin
  /\ GuardMax + Frame <= ClockMax
  /\ GuardMax >= 3 * SubMin
  /\ Frame < SubMin
  /\ ClockMax + 1 - ClockSub <= SkipAfter
<1> USE SyncAssumption
<1> DEFINE whole == GuardMax - SubMin
           quo == whole \div Frame
<1>1. GuardMax \in Nat /\ whole \in Nat /\ Frame < SubMin
  BY DEF GuardMax, RESET_CLK
<1>2. \A n \in Nat, b \in Nat \ {0} :
        /\ (n \div b) * b \in Nat
        /\ (n \div b) * b <= n
        /\ (n \div b) * b > n - b
  OBVIOUS
<1>3. ClockSub = quo * Frame
  BY DEF ClockSub
<1> HIDE DEF whole
<1>4. quo * Frame \in Nat /\ quo * Frame <= whole /\ quo * Frame > whole - Frame
  BY <1>1, <1>2
<1> HIDE DEF quo
<1>5. whole = GuardMax - SubMin /\ GuardMax = ClockMax - SubMin
  BY DEF whole, GuardMax
<1> QED
  BY <1>1, <1>3, <1>4, <1>5

LEMMA InitInv == Init => Inv
<1> SUFFICES ASSUME Init PROVE Inv
  OBVIOUS
<1> USE SyncAssumption, ClockSubFacts DEF Init, RESET_CLK
<1>1. TypeOK
  BY DEF TypeOK, Clock, Drives
<1>2. ClockBound
  <2>1. RESET_CLK < GuardMax
    OBVIOUS
  <2> QED BY <2>1 DEF ClockBound
<1>3. Aligned
  BY DEF Aligned, Steady
<1> QED
  BY <1>1, <1>2, <1>3 DEF Inv, SafeInv

-----------------------------------------------------------------------------
(* Executing drives up to a tick of the clock keeps the types; a drive     *)
(* that is exactly behind by its lag is afterwards in step.                *)
LEMMA LagIsANumber ==
  ASSUME TypeOK, NEW d \in Drives, NEW grown, NEW v \in Clock
  PROVE  LagAfter(d, grown, v) \in Int
<1>1. Cycles(d, grown, v) \in Int
  BY DEF Cycles, TypeOK, Clock
<1> QED
  BY <1>1, SyncAssumption DEF LagAfter, TypeOK

LEMMA ExecuteTypes ==
  ASSUME TypeOK, NEW U, NEW v \in Clock, Execute(U, v)
  PROVE  last_clk' \in [Drives -> Clock] /\ lag' \in [Drives -> Int]
  BY LagIsANumber DEF Execute, TypeOK

LEMMA InStepAfter ==
  ASSUME TypeOK, NEW d \in Drives, NEW grown,
         last_clk[d] = clk - lag[d], lag[d] >= 0
  PROVE  LagAfter(d, grown, clk) = 0
<1>1. clk \in Nat /\ last_clk[d] \in Nat /\ lag[d] \in Nat /\ ClockMax \in Nat
  BY SyncAssumption DEF TypeOK, Clock
<1>2. CASE Skips(d, grown)
  <2>1. Cycles(d, grown, clk) = 0
    BY <1>1, <1>2 DEF Cycles
  <2> QED BY <1>1, <1>2, <2>1 DEF LagAfter
<1>3. CASE ~Skips(d, grown)
  <2>1. Cycles(d, grown, clk) = lag[d]
    BY <1>1, <1>3 DEF Cycles
  <2> QED BY <1>1, <1>3, <2>1 DEF LagAfter
<1> QED
  BY <1>2, <1>3

(* A drive that is already in step with the clock the guard has moved is   *)
(* not far enough from the new one to skip anything.                       *)
LEMMA StillInStepAfter ==
  ASSUME TypeOK, sub = ClockSub, NEW d \in Drives, NEW grown,
         last_clk[d] = clk + sub, lag[d] = 0
  PROVE  LagAfter(d, grown, clk + sub) = 0
<1>1. clk \in Nat /\ sub \in Nat /\ ClockMax \in Nat /\ sub > 0 /\ sub <= ClockMax
  BY SyncAssumption, ClockSubFacts DEF TypeOK, Clock
<1>2. Behind(d) = ClockMax + 1 - sub
  <2>1. \A n, m \in Nat : n > 0 /\ n < m => (0 - n) % m = m - n
    OBVIOUS
  <2>2. clk - last_clk[d] = 0 - sub
    BY <1>1
  <2> DEFINE range == ClockMax + 1
  <2>3. range \in Nat /\ sub < range
    BY <1>1
  <2>4. Behind(d) = (0 - sub) % range
    BY <2>2 DEF Behind
  <2> HIDE DEF range
  <2>5. (0 - sub) % range = range - sub
    BY <1>1, <2>1, <2>3
  <2>6. Behind(d) = range - sub
    BY <2>4, <2>5
  <2> QED
    BY <1>1, <2>6 DEF range
<1>3. ~Skips(d, grown)
  BY <1>1, <1>2, ClockSubFacts, SyncAssumption DEF Skips
<1>4. Cycles(d, grown, clk + sub) = 0
  BY <1>1, <1>3 DEF Cycles
<1> QED
  BY <1>1, <1>3, <1>4 DEF LagAfter

-----------------------------------------------------------------------------
LEMMA TypeStep == SafeInv /\ [Next]_vars => SafeInv'
<1> SUFFICES ASSUME SafeInv, [Next]_vars PROVE SafeInv'
  OBVIOUS
<1>a. TypeOK /\ ClockBound
  BY DEF SafeInv
<1>b. /\ clk \in Nat /\ left \in Nat /\ sub \in Nat /\ ClockSub \in Nat /\ Frame \in Nat
      /\ ClockMax \in Nat /\ SubMin \in Nat
  BY <1>a, ClockSubFacts, SyncAssumption DEF TypeOK, Clock
<1>1. CASE Run
  <2>1. PICK n \in 1..left : /\ clk' = clk + n /\ left' = left - n
                             /\ lag' = [d \in Drives |-> IF d \in enable THEN lag[d] + n ELSE 0]
    BY <1>1 DEF Run
  <2>2. clk' \in Clock /\ left' \in 0..Frame /\ clk' + left' = clk + left
    BY <2>1, <1>a, <1>b, <1>1, ClockSubFacts DEF Run, ClockBound, TypeOK, Clock
  <2>3. lag' \in [Drives -> Int]
    BY <2>1, <1>a, <1>b DEF TypeOK
  <2> QED
    BY <2>2, <2>3, <1>a, <1>1 DEF Run, SafeInv, TypeOK, ClockBound
<1>2. CASE BusAccess
  <2>1. last_clk' \in [Drives -> Clock] /\ lag' \in [Drives -> Int]
    BY <1>2, <1>a, ExecuteTypes DEF BusAccess, TypeOK
  <2> QED
    BY <2>1, <1>2, <1>a DEF BusAccess, SafeInv, TypeOK, ClockBound
<1>3. CASE DriveVsyncHook
  <2>1. last_clk' \in [Drives -> Clock] /\ lag' \in [Drives -> Int]
    BY <1>3, <1>a, ExecuteTypes DEF DriveVsyncHook, TypeOK
  <2>2. left' \in 0..Frame
    BY <1>3, <1>b DEF DriveVsyncHook
  <2>3. clk' < GuardMax + Frame
    BY <1>3, <1>a, <1>b DEF DriveVsyncHook, ClockBound
  <2> QED
    BY <2>1, <2>2, <2>3, <1>3, <1>a DEF DriveVsyncHook, SafeInv, TypeOK, ClockBound
<1>4. CASE GuardPasses
  <2>1. clk' + left' < GuardMax + Frame
    BY <1>4, <1>a, <1>b, ClockSubFacts DEF GuardPasses, ClockBound
  <2> QED
    BY <2>1, <1>4, <1>a DEF GuardPasses, SafeInv, TypeOK, ClockBound, drives
<1>5. CASE GuardTrips
  <2>1. clk' \in Clock /\ clk' + sub' = clk /\ clk' >= GuardMax - ClockSub
    BY <1>5, <1>a, <1>b, ClockSubFacts DEF GuardTrips, TypeOK, Clock
  <2>2. 1 \in 1..(Units + 1)
    BY SyncAssumption
  <2> QED
    BY <2>1, <2>2, <1>5, <1>a DEF GuardTrips, SafeInv, TypeOK, ClockBound, drives
<1>6. CASE FollowUnits
  <2>1. unit \in Drives /\ unit' \in 1..(Units + 1)
    BY <1>6, <1>a, SyncAssumption DEF FollowUnits, NextUnit, TypeOK, Drives
  <2>2. last_clk' \in [Drives -> Clock]
    BY <2>1, <1>6, <1>a, <1>b DEF FollowUnits, Follow, TypeOK, Clock
  <2> QED
    BY <2>1, <2>2, <1>6, <1>a DEF FollowUnits, NextUnit, SafeInv, TypeOK, ClockBound
<1>7. CASE CatchUpUnits
  <2>1. unit \in Drives /\ unit' \in 1..(Units + 1)
    BY <1>7, <1>a, SyncAssumption DEF CatchUpUnits, NextUnit, TypeOK, Drives
  <2>2. clk + sub \in Clock
    BY <1>7, <1>a, <1>b, ClockSubFacts DEF CatchUpUnits, ClockBound, Clock
  <2>3. last_clk' \in [Drives -> Clock]
    <3> DEFINE from == [d \in Drives |-> IF d \in enable THEN clk + sub ELSE last_clk[d]]
    <3>1. from \in [Drives -> Clock] /\ from[unit] - sub = clk
      BY <2>1, <2>2, <1>7, <1>a, <1>b DEF CatchUpUnits, TypeOK
    <3>2. last_clk' = [from EXCEPT ![unit] = @ - sub]
      BY <1>7 DEF CatchUpUnits, Follow
    <3> HIDE DEF from
    <3> QED
      BY <3>1, <3>2, <2>1, <1>a DEF TypeOK
  <2>4. lag' \in [Drives -> Int]
    <3>1. PICK grown \in SUBSET enable :
            lag' = [d \in Drives |-> IF d \in enable THEN LagAfter(d, grown, clk + sub) ELSE lag[d]]
      BY <1>7 DEF CatchUpUnits
    <3>2. \A d \in Drives : LagAfter(d, grown, clk + sub) \in Int
      BY <2>2, <1>a, LagIsANumber
    <3> QED
      BY <3>1, <3>2, <1>a DEF TypeOK
  <2> QED
    BY <2>1, <2>3, <2>4, <1>7, <1>a DEF CatchUpUnits, NextUnit, SafeInv, TypeOK, ClockBound
<1>8. CASE SkipUnits
  <2>1. unit \in Drives /\ unit' \in 1..(Units + 1)
    BY <1>8, <1>a, SyncAssumption DEF SkipUnits, NextUnit, TypeOK, Drives
  <2>2. last_clk' \in [Drives -> Clock]
    BY <2>1, <1>8, <1>a DEF SkipUnits, TypeOK
  <2> QED
    BY <2>1, <2>2, <1>8, <1>a DEF SkipUnits, NextUnit, SafeInv, TypeOK, ClockBound
<1>9. CASE GuardDone
  <2>1. clk' + left' < GuardMax + Frame
    BY <1>9, <1>a, <1>b, ClockSubFacts DEF GuardDone, ClockBound
  <2>2. 1 \in 1..(Units + 1)
    BY SyncAssumption
  <2> QED
    BY <2>1, <2>2, <1>9, <1>a DEF GuardDone, SafeInv, TypeOK, ClockBound, drives
<1>10. CASE MachineReset
  <2>1. RESET_CLK \in Clock /\ RESET_CLK < GuardMax /\ 0 \in Int
    BY SyncAssumption, ClockSubFacts DEF RESET_CLK, Clock
  <2>2. clk' \in Clock /\ last_clk' \in [Drives -> Clock] /\ lag' \in [Drives -> Int]
    BY <2>1, <1>10 DEF MachineReset
  <2>3. left' \in 0..Frame /\ clk' + left' < GuardMax + Frame
    BY <2>1, <1>10, <1>b, ClockSubFacts DEF MachineReset, RESET_CLK
  <2> QED
    BY <2>2, <2>3, <1>10, <1>a DEF MachineReset, SafeInv, TypeOK, ClockBound
<1>11. ASSUME NEW d \in Drives, Enable(d)
       PROVE  SafeInv'
  BY <1>11, <1>a DEF Enable, SafeInv, TypeOK, ClockBound
<1>12. ASSUME NEW d \in Drives, Disable(d)
       PROVE  SafeInv'
  BY <1>12, <1>a DEF Disable, SafeInv, TypeOK, ClockBound
<1>13. CASE UNCHANGED vars
  BY <1>13, <1>a DEF vars, drives, SafeInv, TypeOK, ClockBound
<1> QED
  BY <1>1, <1>2, <1>3, <1>4, <1>5, <1>6, <1>7, <1>8, <1>9, <1>10, <1>11, <1>12, <1>13
     DEF Next

LEMMA SpecTypes == Spec => []SafeInv
<1>1. Init => SafeInv
  BY InitInv DEF Inv
<1> QED
  BY <1>1, TypeStep, PTL DEF Spec

(* The main clock and every last_clk stay within a CLOCK, through every    *)
(* overflow, whichever drives are enabled and whichever skip cycles.       *)
THEOREM SyncIsTyped == Spec => []TypeOK
<1>1. SafeInv => TypeOK
  BY DEF SafeInv
<1> QED
  BY <1>1, SpecTypes, PTL

-----------------------------------------------------------------------------
(* The drives that do not skip cycles stay aligned: the hook brings all of *)
(* them up to the clock before the guard may move it.  A unit that was     *)
(* asleep has all units emulated to the old clock, which does no harm to   *)
(* those that have not yet followed: the units after it.                   *)
SkippersComeFirst == \A s \in MaySkip, d \in Drives \ MaySkip : s < d

LEMMA AlignedStep ==
  ASSUME SkippersComeFirst, Inv, [Next]_vars
  PROVE  Aligned'
<1>a. TypeOK /\ ClockBound /\ Aligned
  BY DEF Inv, SafeInv
<1>b. /\ clk \in Nat /\ left \in Nat /\ sub \in Nat /\ Frame \in Nat /\ unit \in Nat
      /\ left <= Frame /\ enable \subseteq Drives
      /\ \A d \in Drives : last_clk[d] \in Nat /\ lag[d] \in Int /\ d \in Nat
  BY <1>a, SyncAssumption, ClockSubFacts DEF TypeOK, Clock, Drives
<1>c. /\ Steady \subseteq enable /\ Steady \subseteq Drives
      /\ Steady = enable \ MaySkip /\ Steady' = enable' \ MaySkip
  BY <1>b DEF Steady
<1>1. CASE Run
  <2>1. PICK n \in 1..left : /\ clk' = clk + n /\ left' = left - n
                             /\ lag' = [d \in Drives |-> IF d \in enable THEN lag[d] + n ELSE 0]
    BY <1>1 DEF Run
  <2>2. \A d \in Steady : lag'[d] = lag[d] + n
    BY <2>1, <1>b, <1>c
  <2>3. \A d \in Steady : last_clk[d] = clk - lag[d] /\ lag[d] >= 0 /\ lag[d] <= Frame - left
    BY <1>1, <1>a DEF Run, Aligned
  <2>4. \A d \in Steady : last_clk[d] = clk' - lag'[d] /\ lag'[d] >= 0 /\ lag'[d] <= Frame - left'
    BY <2>1, <2>2, <2>3, <1>b, <1>c
  <2> QED
    BY <2>4, <1>1, <1>c DEF Run, Aligned
<1>2. ASSUME at = "run", NEW U \in SUBSET enable, Steady \subseteq U, Execute(U, clk)
      PROVE  \A d \in Steady : last_clk'[d] = clk /\ lag'[d] = 0
  <2>1. \A d \in Steady : last_clk[d] = clk - lag[d] /\ lag[d] >= 0
    BY <1>2, <1>a DEF Aligned
  <2>2. PICK grown \in SUBSET U :
          /\ last_clk' = [d \in Drives |-> IF d \in U THEN clk ELSE last_clk[d]]
          /\ lag' = [d \in Drives |-> IF d \in U THEN LagAfter(d, grown, clk) ELSE lag[d]]
    BY <1>2 DEF Execute
  <2>3. \A d \in Steady : LagAfter(d, grown, clk) = 0
    BY <2>1, <1>a, <1>c, InStepAfter
  <2> QED
    BY <2>2, <2>3, <1>2, <1>c
<1>3. CASE BusAccess
  <2>1. \A d \in Steady : last_clk'[d] = clk /\ lag'[d] = 0
    BY <1>2, <1>3, <1>c DEF BusAccess
  <2>2. at' = "run" /\ enable' = enable /\ clk' = clk /\ left' = left
    BY <1>3 DEF BusAccess
  <2>3. \A d \in Steady' : last_clk'[d] = clk' - lag'[d] /\ lag'[d] >= 0 /\ lag'[d] <= Frame - left'
    BY <2>1, <2>2, <1>b, <1>c
  <2> QED
    BY <2>2, <2>3 DEF Aligned
<1>4. CASE DriveVsyncHook
  <2>1. VsyncRuns = Steady /\ VsyncRuns \subseteq enable
    BY <1>c DEF VsyncRuns
  <2>2. \A d \in Steady : last_clk'[d] = clk /\ lag'[d] = 0
    BY <1>2, <1>4, <2>1 DEF DriveVsyncHook
  <2> QED
    BY <2>2, <1>4, <1>c DEF DriveVsyncHook, Aligned
<1>5. CASE GuardPasses
  <2>1. \A d \in Steady : last_clk[d] = clk /\ lag[d] = 0
    BY <1>5, <1>a DEF GuardPasses, Aligned
  <2>2. \A d \in Steady : last_clk[d] = clk - lag[d] /\ lag[d] >= 0 /\ lag[d] <= Frame - left
    BY <2>1, <1>b, <1>c
  <2> QED
    BY <2>2, <1>5, <1>c DEF GuardPasses, drives, Aligned
<1>6. CASE GuardTrips
  <2>1. \A d \in Steady : last_clk[d] = clk /\ lag[d] = 0
    BY <1>6, <1>a DEF GuardTrips, Aligned
  <2>2. clk = clk' + sub' /\ unit' = 1
    BY <1>6, <1>b, ClockSubFacts DEF GuardTrips
  <2>3. \A d \in Steady : d >= 1
    BY <1>c, SyncAssumption DEF Drives
  <2>4. \A d \in Steady : ~(d < unit') /\ last_clk[d] = clk' + sub'
    BY <2>1, <2>2, <2>3, <1>b, <1>c
  <2> QED
    BY <2>1, <2>4, <1>6, <1>c DEF GuardTrips, drives, Aligned
<1>7. ASSUME at = "drives"
      PROVE  \A d \in Steady : /\ d < unit => last_clk[d] = clk
                               /\ d >= unit => last_clk[d] = clk + sub
                               /\ lag[d] = 0
  BY <1>7, <1>a DEF Aligned
<1>8. CASE FollowUnits
  <2>1. unit \in Steady => last_clk[unit] = clk + sub
    BY <1>7, <1>8, <1>b, <1>c DEF FollowUnits
  <2>2. /\ unit \in Steady => last_clk'[unit] = clk
        /\ \A d \in Drives : d # unit => last_clk'[d] = last_clk[d]
    BY <2>1, <1>8, <1>a, <1>b, <1>c DEF FollowUnits, Follow, TypeOK
  <2>3. unit' = unit + 1 /\ clk' = clk /\ sub' = sub /\ enable' = enable /\ lag' = lag
        /\ at' = "drives"
    BY <1>8 DEF FollowUnits, NextUnit
  <2>4. \A d \in Steady : /\ d < unit + 1 => last_clk'[d] = clk
                          /\ d >= unit + 1 => last_clk'[d] = clk + sub
    BY <2>1, <2>2, <1>7, <1>8, <1>b, <1>c DEF FollowUnits
  <2> QED
    BY <2>3, <2>4, <1>7, <1>8, <1>c DEF FollowUnits, Aligned
<1>9. CASE CatchUpUnits
  <2>1. unit \in MaySkip
    <3>1. unit \in enable /\ last_clk[unit] < sub
      BY <1>9 DEF CatchUpUnits
    <3>2. unit \in Steady => last_clk[unit] = clk + sub
      BY <1>7, <1>9, <1>b, <1>c DEF CatchUpUnits
    <3> QED
      BY <3>1, <3>2, <1>b, <1>c
  <2>2. \A d \in Steady : d > unit
    BY <2>1, <1>b, <1>c DEF SkippersComeFirst
  <2>3. \A d \in Steady : last_clk[d] = clk + sub /\ lag[d] = 0
    BY <2>2, <1>7, <1>9, <1>b, <1>c DEF CatchUpUnits
  <2>4. PICK grown \in SUBSET enable :
          /\ Follow(unit, [d \in Drives |-> IF d \in enable THEN clk + sub ELSE last_clk[d]])
          /\ lag' = [d \in Drives |-> IF d \in enable THEN LagAfter(d, grown, clk + sub) ELSE lag[d]]
    BY <1>9 DEF CatchUpUnits
  <2>5. sub = ClockSub
    BY <1>9, <1>a DEF CatchUpUnits, ClockBound
  <2>6. \A d \in Steady : LagAfter(d, grown, clk + sub) = 0
    BY <2>3, <2>5, <1>a, <1>c, StillInStepAfter
  <2>7. \A d \in Steady : lag'[d] = 0
    BY <2>4, <2>6, <1>c
  <2>8. \A d \in Steady : last_clk'[d] = clk + sub
    BY <2>2, <2>4, <1>b, <1>c DEF Follow
  <2>9. \A d \in Steady : d >= unit + 1 /\ ~(d < unit + 1)
    BY <2>2, <1>b, <1>c
  <2>10. unit' = unit + 1 /\ clk' = clk /\ sub' = sub /\ enable' = enable /\ at' = "drives"
    BY <1>9 DEF CatchUpUnits, NextUnit
  <2> QED
    BY <2>7, <2>8, <2>9, <2>10, <1>c DEF Aligned
<1>10. CASE SkipUnits
  <2>1. unit \notin enable /\ unit \in Drives
    BY <1>10 DEF SkipUnits
  <2>2. \A d \in Steady : last_clk'[d] = last_clk[d] /\ d # unit
    BY <2>1, <1>10, <1>a, <1>b, <1>c DEF SkipUnits, TypeOK
  <2>3. unit' = unit + 1 /\ clk' = clk /\ sub' = sub /\ enable' = enable /\ lag' = lag
        /\ at' = "drives"
    BY <1>10 DEF SkipUnits, NextUnit
  <2>4. \A d \in Steady : /\ d < unit + 1 => last_clk'[d] = clk
                          /\ d >= unit + 1 => last_clk'[d] = clk + sub
    BY <2>2, <1>7, <1>10, <1>b, <1>c DEF SkipUnits
  <2> QED
    BY <2>3, <2>4, <1>7, <1>10, <1>c DEF SkipUnits, Aligned
<1>11. CASE GuardDone
  <2>1. \A d \in Steady : d < unit
    BY <1>11, <1>b, <1>c, SyncAssumption DEF GuardDone, Drives
  <2>2. \A d \in Steady : last_clk[d] = clk - lag[d] /\ lag[d] >= 0 /\ lag[d] <= Frame - left
    BY <2>1, <1>7, <1>11, <1>b, <1>c DEF GuardDone
  <2> QED
    BY <2>2, <1>11, <1>c DEF GuardDone, drives, Aligned
<1>12. CASE MachineReset
  <2>1. \A d \in Steady' : last_clk'[d] = clk' - lag'[d] /\ lag'[d] >= 0 /\ lag'[d] <= Frame - left'
    BY <1>12, <1>b, <1>c DEF MachineReset, RESET_CLK
  <2> QED
    BY <2>1, <1>12 DEF MachineReset, Aligned
<1>13. ASSUME NEW e \in Drives, Enable(e)
       PROVE  Aligned'
  <2>1. last_clk'[e] = clk /\ lag'[e] = 0
    BY <1>13, <1>a DEF Enable, TypeOK
  <2>2. \A d \in Steady : last_clk'[d] = last_clk[d] /\ lag'[d] = lag[d]
    BY <1>13, <1>a, <1>c DEF Enable, TypeOK
  <2>3. \A d \in Steady : last_clk[d] = clk - lag[d] /\ lag[d] >= 0 /\ lag[d] <= Frame - left
    BY <1>13, <1>a DEF Enable, Aligned
  <2>4. \A d \in Steady' : last_clk'[d] = clk - lag'[d] /\ lag'[d] >= 0 /\ lag'[d] <= Frame - left
    BY <2>1, <2>2, <2>3, <1>13, <1>b, <1>c DEF Enable
  <2> QED
    BY <2>4, <1>13 DEF Enable, Aligned
<1>14. ASSUME NEW e \in Drives, Disable(e)
       PROVE  Aligned'
  <2>1. \A d \in Steady' : d \in Steady /\ lag'[d] = lag[d]
    BY <1>14, <1>a, <1>c DEF Disable, TypeOK
  <2> QED
    BY <2>1, <1>14, <1>a DEF Disable, Aligned
<1>15. CASE UNCHANGED vars
  BY <1>15, <1>a, <1>c DEF vars, drives, Aligned
<1> QED
  BY <1>1, <1>3, <1>4, <1>5, <1>6, <1>8, <1>9, <1>10, <1>11, <1>12, <1>13, <1>14, <1>15
     DEF Next

LEMMA AlignedIsInStep == Inv => InStep
<1> SUFFICES ASSUME Inv PROVE InStep
  OBVIOUS
<1>a. TypeOK /\ Aligned
  BY DEF Inv, SafeInv
<1>1. \A d \in Steady : lag[d] \in Int
  BY <1>a DEF TypeOK, Steady
<1>2. Frame \in Nat /\ left \in Nat
  BY <1>a, SyncAssumption DEF TypeOK
<1>3. \A d \in Steady : lag[d] >= 0 /\ lag[d] <= Frame
  <2>1. CASE at = "run"
    BY <2>1, <1>1, <1>2, <1>a DEF Aligned
  <2>2. CASE at = "guard"
    BY <2>2, <1>2, <1>a DEF Aligned
  <2>3. CASE at = "drives"
    BY <2>3, <1>2, <1>a DEF Aligned
  <2> QED
    BY <2>1, <2>2, <2>3, <1>a DEF TypeOK
<1> QED
  BY <1>3 DEF InStep, OthersNeverAhead, KeepsUp, Steady

(* If the units that skip cycles come before the others (or there are none)*)
(* no other drive is ever given a cycle that has not passed, nor is it more*)
(* than a frame behind: the guard of the main CPU, which moves the clock   *)
(* they follow, does not disturb them (drivecpu_prevent_clk_overflow).     *)
THEOREM DrivesKeepInStep ==
  ASSUME SkippersComeFirst
  PROVE  Spec => []InStep
<1>1. Inv /\ [Next]_vars => Inv'
  BY TypeStep, AlignedStep DEF Inv
<1> QED
  BY <1>1, InitInv, AlignedIsInStep, PTL DEF Spec

-----------------------------------------------------------------------------
(* Where every drive stands, those that skip cycles too.  The drives that  *)
(* have followed the guard are in the new era of the clock.                *)
Past ==
  /\ at \in {"run", "guard"} => \A d \in enable : last_clk[d] <= clk
  /\ at = "drives" => \A d \in enable : /\ d < unit => last_clk[d] <= clk
                                        /\ d >= unit => last_clk[d] <= clk + sub

(* Only the first unit can then be too far behind to follow.               *)
OnlyFirstSkips == MaySkip \subseteq {1}

LEMMA PastStep ==
  ASSUME OnlyFirstSkips, Inv, Past, [Next]_vars
  PROVE  Past'
<1>a. TypeOK /\ ClockBound /\ Aligned
  BY DEF Inv, SafeInv
<1>b. /\ clk \in Nat /\ left \in Nat /\ sub \in Nat /\ unit \in Nat /\ ClockSub \in Nat
      /\ enable \subseteq Drives
      /\ \A d \in Drives : last_clk[d] \in Nat /\ d \in Nat
  BY <1>a, ClockSubFacts, SyncAssumption DEF TypeOK, Clock, Drives
<1>1. CASE Run
  BY <1>1, <1>b DEF Run, Past
<1>2. CASE BusAccess
  <2>1. \A d \in enable : last_clk'[d] = clk
    BY <1>2, <1>b DEF BusAccess, Execute
  <2> QED BY <2>1, <1>2, <1>b DEF BusAccess, Past
<1>3. CASE DriveVsyncHook
  <2>1. \A d \in enable : last_clk'[d] = clk \/ last_clk'[d] = last_clk[d]
    BY <1>3, <1>b DEF DriveVsyncHook, Execute
  <2>2. \A d \in enable : last_clk'[d] <= clk
    BY <2>1, <1>3, <1>b DEF DriveVsyncHook, Past
  <2> QED BY <2>2, <1>3 DEF DriveVsyncHook, Past
<1>4. CASE GuardPasses
  BY <1>4 DEF GuardPasses, Past, drives
<1>5. CASE GuardTrips
  <2>1. /\ clk' + sub' = clk /\ unit' = 1 /\ at' = "drives"
        /\ last_clk' = last_clk /\ enable' = enable
    BY <1>5, <1>b DEF GuardTrips, drives
  <2>2. \A d \in enable : last_clk[d] <= clk /\ ~(d < 1)
    BY <1>5, <1>b, SyncAssumption DEF GuardTrips, Past, Drives
  <2> QED BY <2>1, <2>2 DEF Past
<1>6. CASE FollowUnits
  <2>1. \A d \in enable : last_clk'[d] = IF d = unit THEN last_clk[d] - sub ELSE last_clk[d]
    BY <1>6, <1>a, <1>b DEF FollowUnits, Follow, TypeOK
  <2>2. \A d \in enable : /\ d < unit + 1 => last_clk'[d] <= clk
                          /\ d >= unit + 1 => last_clk'[d] <= clk + sub
    BY <2>1, <1>6, <1>b DEF FollowUnits, Past
  <2> QED BY <2>2, <1>6 DEF FollowUnits, NextUnit, Past
<1>7. CASE CatchUpUnits
  <2> DEFINE from == [d \in Drives |-> IF d \in enable THEN clk + sub ELSE last_clk[d]]
  <2>1. unit = 1
    <3>1. ASSUME unit \in Steady PROVE last_clk[unit] = clk + sub
      BY <3>1, <1>7, <1>a, <1>b DEF CatchUpUnits, Aligned
    <3>2. unit \notin Steady
      BY <3>1, <1>7, <1>b DEF CatchUpUnits
    <3> QED BY <3>2, <1>7 DEF CatchUpUnits, Steady, OnlyFirstSkips
  <2>2. last_clk' = [from EXCEPT ![unit] = from[unit] - sub]
    BY <1>7 DEF CatchUpUnits, Follow
  <2>3. \A d \in enable : last_clk'[d] = IF d = unit THEN clk + sub - sub ELSE clk + sub
    BY <2>2, <1>7, <1>b DEF CatchUpUnits
  <2> HIDE DEF from
  <2>4. \A d \in enable : /\ d < unit + 1 => last_clk'[d] <= clk
                          /\ d >= unit + 1 => last_clk'[d] <= clk + sub
    <3> SUFFICES ASSUME NEW d \in enable
                 PROVE  /\ d < unit + 1 => last_clk'[d] <= clk
                        /\ d >= unit + 1 => last_clk'[d] <= clk + sub
      OBVIOUS
    <3>1. d \in Drives /\ d >= 1
      BY <1>b, SyncAssumption DEF Drives
    <3> QED BY <2>1, <2>3, <3>1, <1>b
  <2> QED BY <2>4, <1>7 DEF CatchUpUnits, NextUnit, Past
<1>8. CASE SkipUnits
  <2>1. \A d \in enable : last_clk'[d] = last_clk[d] /\ d # unit
    BY <1>8, <1>a, <1>b DEF SkipUnits, TypeOK
  <2>2. \A d \in enable : /\ d < unit + 1 => last_clk'[d] <= clk
                          /\ d >= unit + 1 => last_clk'[d] <= clk + sub
    BY <2>1, <1>8, <1>b DEF SkipUnits, Past
  <2> QED BY <2>2, <1>8 DEF SkipUnits, NextUnit, Past
<1>9. CASE GuardDone
  <2>1. \A d \in enable : d < unit
    BY <1>9, <1>b, SyncAssumption DEF GuardDone, Drives
  <2> QED BY <2>1, <1>9 DEF GuardDone, Past, drives
<1>10. CASE MachineReset
  BY <1>10, <1>b DEF MachineReset, RESET_CLK, Past
<1>11. ASSUME NEW d \in Drives, Enable(d) PROVE Past'
  <2>1. \A e \in enable' : last_clk'[e] = IF e = d THEN clk ELSE last_clk[e]
    BY <1>11, <1>a, <1>b DEF Enable, TypeOK
  <2> QED BY <2>1, <1>11, <1>b DEF Enable, Past
<1>12. ASSUME NEW d \in Drives, Disable(d) PROVE Past'
  BY <1>12 DEF Disable, Past
<1>13. CASE UNCHANGED vars
  BY <1>13 DEF vars, drives, Past
<1> QED
  BY <1>1, <1>2, <1>3, <1>4, <1>5, <1>6, <1>7, <1>8, <1>9, <1>10, <1>11, <1>12, <1>13
     DEF Next

(* If no unit but the first skips cycles, no drive is left with a last_clk *)
(* of before the guard, that is in the future of the clock                 *)
(* (drivecpu_prevent_clk_overflow).                                        *)
THEOREM NoDriveWaitsForTheClock ==
  ASSUME OnlyFirstSkips
  PROVE  Spec => []LastClkIsPast
<1>1. SkippersComeFirst
  BY SyncAssumption DEF OnlyFirstSkips, SkippersComeFirst, Drives
<1>2. Init => Past
  BY DEF Init, Past
<1>3. Inv /\ Past /\ [Next]_vars => Inv' /\ Past'
  BY <1>1, TypeStep, AlignedStep, PastStep DEF Inv
<1>4. Past => LastClkIsPast
  BY DEF Past, LastClkIsPast
<1> QED BY <1>2, <1>3, <1>4, InitInv, PTL DEF Spec
=============================================================================
