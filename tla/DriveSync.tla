----------------------------- MODULE DriveSync -----------------------------
(***************************************************************************)
(* The disk drives follow the main CPU (drive.c, drivecpu.c).  A drive is  *)
(* not emulated in step: it is given the cycles it is behind when the CPU  *)
(* touches the bus, and once per frame.  last_clk tells up to which cycle  *)
(* of the main clock it has been emulated, and must follow when the guard  *)
(* of the main CPU moves that clock back.                                  *)
(***************************************************************************)
EXTENDS Integers

CONSTANTS
  Units,      \* DRIVE_NUM: the drives are the units 1..Units
  MaySkip,    \* the drives whose user chooses DRIVE_IDLE_SKIP_CYCLES
  ClockMax,   \* CLOCK_MAX
  SubMin,     \* CLKGUARD_SUB_MIN
  Frame,      \* cycles per frame, the base of the guard
  SkipAfter   \* a drive this far behind is not emulated (0xffffff)

Drives == 1..Units
Clock  == 0..ClockMax

RESET_CLK == 6  \* # of clock cycles needed for RESET.
GuardMaxIsAll == ClockMax
GuardMax == ClockMax - SubMin
ClockSub == ((GuardMax - SubMin) \div Frame) * Frame

ASSUME SyncAssumption ==
  /\ Units \in Nat /\ MaySkip \subseteq Drives
  /\ ClockMax \in Nat /\ SubMin \in Nat /\ SkipAfter \in Nat
  /\ Frame \in Nat \ {0}
  /\ RESET_CLK + Frame < SubMin
  /\ GuardMax >= 3 * SubMin              \* checked by clk_guard_init
  /\ SkipAfter >= 2 * SubMin + Frame     \* 0xffffff and 0xfffff

VARIABLES
  clk,       \* maincpu_clk
  left,      \* cycles until the next vsync
  at,        \* where the main CPU is
  sub,       \* what the guard has taken from clk in this vsync
  unit,      \* the drive drive_cpu_prevent_clk_overflow_all is at
  enable,    \* the drives emulated
  last_clk,  \* the cycle of the main clock each drive has been emulated to
  lag        \* history: how many cycles of real time each drive is behind

drives == <<enable, last_clk, lag>>
vars == <<clk, left, at, sub, unit, drives>>

Init == /\ clk = RESET_CLK /\ left = Frame
        /\ at = "run" /\ sub = 0 /\ unit = 1
        /\ enable = {}
        /\ last_clk = [d \in Drives |-> RESET_CLK]
        /\ lag = [d \in Drives |-> 0]

-----------------------------------------------------------------------------
(* drive_wake_up: a drive that has been asleep for long does not make up   *)
(* for it.  Its own clock must be past 934639, too: it is in grown.        *)
Behind(d) == (clk - last_clk[d]) % (ClockMax + 1)

Skips(d, grown) == d \in grown /\ Behind(d) > SkipAfter

(* drivecpu_execute(d, clk_value): the cycles it calculates for the drive  *)
Cycles(d, grown, clk_value) ==
  LET since == IF Skips(d, grown) THEN clk ELSE last_clk[d]
  IN  IF clk_value > since THEN clk_value - since ELSE 0

(* A drive that is ahead is not emulated until real time catches up; by    *)
(* how much it is ahead matters only up to the range of the clock.         *)
LagAfter(d, grown, clk_value) ==
  LET behind == (IF Skips(d, grown) THEN 0 ELSE lag[d]) - Cycles(d, grown, clk_value)
  IN  IF behind < -ClockMax THEN -ClockMax ELSE behind

Execute(U, clk_value) ==
  \E grown \in SUBSET U :
    /\ last_clk' = [d \in Drives |-> IF d \in U THEN clk_value ELSE last_clk[d]]
    /\ lag' = [d \in Drives |-> IF d \in U THEN LagAfter(d, grown, clk_value) ELSE lag[d]]

(* The main CPU runs; a bus access first brings all drives up to date.     *)
Run == /\ at = "run"
       /\ \E n \in 1..left : /\ clk' = clk + n
                             /\ left' = left - n
                             /\ lag' = [d \in Drives |-> IF d \in enable THEN lag[d] + n ELSE 0]
       /\ UNCHANGED <<at, sub, unit, enable, last_clk>>

BusAccess == /\ at = "run"
             /\ Execute(enable, clk)
             /\ UNCHANGED <<clk, left, at, sub, unit, enable>>

-----------------------------------------------------------------------------
(* machine_vsync_hook: drive_vsync_hook, then the guard of the main CPU,   *)
(* then every drive (drivecpu_prevent_clk_overflow).                       *)
VsyncRuns == enable \ MaySkip

DriveVsyncHook == /\ at = "run" /\ left = 0
                  /\ Execute(VsyncRuns, clk)
                  /\ left' = Frame
                  /\ at' = "guard"
                  /\ UNCHANGED <<clk, sub, unit, enable>>

GuardPasses == /\ at = "guard" /\ clk < GuardMax
               /\ at' = "run"
               /\ UNCHANGED <<clk, left, sub, unit, drives>>

GuardTrips == /\ at = "guard" /\ clk >= GuardMax
              /\ clk' = clk - ClockSub /\ sub' = ClockSub
              /\ at' = "drives" /\ unit' = 1
              /\ UNCHANGED <<left, drives>>

NextUnit == /\ unit' = unit + 1
            /\ UNCHANGED <<clk, left, at, sub, enable>>

(* The drive follows the clock.                                            *)
FollowForgotten(d, from) == last_clk' = from
Follow(d, from) == last_clk' = [from EXCEPT ![d] = @ - sub]

FollowUnits == /\ at = "drives" /\ unit \in enable
               /\ last_clk[unit] >= sub
               /\ Follow(unit, last_clk)
               /\ UNCHANGED lag
               /\ NextUnit

(* Hm, this is kludgy.  :-(  A drive too far behind gets all drives        *)
(* emulated up to the old clock first.                                     *)
CatchUpUnits ==
  /\ at = "drives" /\ unit \in enable
  /\ last_clk[unit] < sub
  /\ \E grown \in SUBSET enable :
       /\ Follow(unit, [d \in Drives |-> IF d \in enable THEN clk + sub ELSE last_clk[d]])
       /\ lag' = [d \in Drives |-> IF d \in enable THEN LagAfter(d, grown, clk + sub) ELSE lag[d]]
  /\ NextUnit

SkipUnits == /\ at = "drives" /\ unit \in Drives \ enable
             /\ last_clk' = [last_clk EXCEPT ![unit] = clk]
             /\ UNCHANGED lag
             /\ NextUnit

GuardDone == /\ at = "drives" /\ unit = Units + 1
             /\ at' = "run" /\ sub' = 0 /\ unit' = 1
             /\ UNCHANGED <<clk, left, drives>>

-----------------------------------------------------------------------------
(* The user enables a drive (drivecpu_reset_clk) or disables it.           *)
Enable(d) == /\ at = "run" /\ d \notin enable
             /\ enable' = enable \cup {d}
             /\ last_clk' = [last_clk EXCEPT ![d] = clk]
             /\ lag' = [lag EXCEPT ![d] = 0]
             /\ UNCHANGED <<clk, left, at, sub, unit>>

Disable(d) == /\ at = "run" /\ d \in enable
              /\ enable' = enable \ {d}
              /\ lag' = [lag EXCEPT ![d] = 0]
              /\ UNCHANGED <<clk, left, at, sub, unit, last_clk>>

(* cpu_reset of the main CPU: the clock starts again, for every drive too  *)
(* (drive_reset).                                                          *)
MachineReset == /\ at = "run"
                /\ clk' = RESET_CLK /\ left' = Frame
                /\ last_clk' = [d \in Drives |-> RESET_CLK]
                /\ lag' = [d \in Drives |-> 0]
                /\ UNCHANGED <<at, sub, unit, enable>>

Next == \/ Run \/ BusAccess \/ DriveVsyncHook \/ GuardPasses \/ GuardTrips
        \/ FollowUnits \/ CatchUpUnits \/ SkipUnits \/ GuardDone
        \/ MachineReset
        \/ \E d \in Drives : Enable(d) \/ Disable(d)

Spec == Init /\ [][Next]_vars

-----------------------------------------------------------------------------
TypeOK == /\ clk \in Clock /\ left \in 0..Frame
          /\ at \in {"run", "guard", "drives"}
          /\ sub \in {0, ClockSub} /\ unit \in 1..(Units + 1)
          /\ enable \subseteq Drives
          /\ last_clk \in [Drives -> Clock]
          /\ lag \in [Drives -> Int]

(* drivecpu_execute: "Execute up to the current main CPU clock value."  No *)
(* drive is ever given cycles that have not passed.                        *)
NeverAhead == \A d \in enable : lag[d] >= 0

(* The same of the drives that do not skip cycles.                         *)
OthersNeverAhead == \A d \in enable \ MaySkip : lag[d] >= 0

(* A drive that does not skip cycles is never more than a frame behind,    *)
(* whatever the guard does to the clock it is compared with.               *)
KeepsUp == \A d \in enable \ MaySkip : lag[d] <= Frame

(* A drive that does not skip cycles is in step with the main CPU: it gets *)
(* no cycle that has not passed, and misses none for longer than a frame.  *)
InStep == OthersNeverAhead /\ KeepsUp

(* Between vsyncs no drive has been emulated to a cycle that is still to   *)
(* come: such a drive stands still until the main clock gets there.        *)
LastClkIsPast == at = "run" => \A d \in enable : last_clk[d] <= clk
=============================================================================
