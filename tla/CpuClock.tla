------------------------------ MODULE CpuClock ------------------------------
(***************************************************************************)
(* The clock of the main CPU: its alarm context, the instruction loop that *)
(* dispatches the alarms (6510core.c), and the overflow guard (clkguard.c) *)
(* that moves the 32-bit clock and every tick derived from it back when    *)
(* the clock nears the end of its range.  The guard looks at the clock     *)
(* only once per frame, in the vsync hook, that is from inside the         *)
(* callback of an alarm of the very context it warps.                      *)
(***************************************************************************)
EXTENDS Alarm

CONSTANTS
  Raster,    \* the VIC-II alarm whose callback ends a frame
  Frame,     \* cycles between two callbacks of Raster
  MaxStep,   \* the longest instruction
  MaxAhead,  \* how far ahead a device sets its alarm
  SubMin,    \* CLKGUARD_SUB_MIN
  ClkBase,   \* the clk_base of the guard: cycles_per_rfsh
  Horizon    \* bound of the exploration: cycles since power-on

(* The value the guard is created with (machine_early_init).               *)
GuardMax == ClockMax - SubMin

ASSUME CpuAssumption ==
  /\ Raster \in Alarms
  /\ Frame \in Nat \ {0} /\ MaxStep \in Nat \ {0} /\ MaxAhead \in Nat \ {0}
  /\ SubMin \in Nat /\ ClkBase \in 0..SubMin /\ Horizon \in Nat
  /\ GuardMax >= 3 * SubMin              \* checked by clk_guard_init
  /\ Frame + MaxStep + MaxAhead <= SubMin

VARIABLES
  clk,        \* maincpu_clk
  in_call,    \* the alarm whose callback runs, NoAlarm outside of callbacks
  vsync_due,  \* this callback of Raster still has to run the vsync hook
  epoch       \* history: what the guard has taken from the clock so far

cpu     == <<clk, in_call, vsync_due, epoch>>
cpuVars == <<vars, cpu>>

(* clk_guard_clock_sub                                                     *)
ClockSubWhole == GuardMax
ClockSub == LET sub == GuardMax - SubMin
            IN  IF ClkBase = 0 THEN sub ELSE (sub \div ClkBase) * ClkBase

-----------------------------------------------------------------------------
(* After power-on every device has its alarm; the VIC-II has set its own.  *)
CpuInit == /\ alarms = Alarms
           /\ slot_alarm = [s \in Slots |-> IF s = 0 THEN Raster ELSE NoAlarm]
           /\ slot_clk = [s \in Slots |-> IF s = 0 THEN Frame ELSE 0]
           /\ num_pending = 1
           /\ next_clk = Frame
           /\ next_idx = 0
           /\ pending_idx = [a \in Alarms |-> IF a = Raster THEN 0 ELSE None]
           /\ called = [alarm |-> NoAlarm, offset |-> 0]
           /\ clk = 0
           /\ in_call = NoAlarm
           /\ vsync_due = FALSE
           /\ epoch = 0

(* One instruction, once PROCESS_ALARMS has found no alarm due.            *)
AlarmIsDueLate == clk > next_clk
AlarmIsDue == clk >= next_clk

Instruction ==
  /\ in_call = NoAlarm
  /\ ~AlarmIsDue
  /\ epoch + clk < Horizon
  /\ \E d \in 1..MaxStep : clk' = Wrap(clk + d)
  /\ UNCHANGED <<vars, in_call, vsync_due, epoch>>

(* A register access of the instruction, or the callback of another        *)
(* device, sets or unsets the alarm of a device.                           *)
DeviceSets(a) ==
  /\ a # Raster
  /\ \E ahead \in 0..MaxAhead : AlarmSet(a, Wrap(clk + ahead))
  /\ UNCHANGED cpu

DeviceUnsets(a) ==
  /\ a # Raster
  /\ AlarmUnset(a)
  /\ UNCHANGED cpu

(* PROCESS_ALARMS calls the next alarm; the callback runs until Return.    *)
Call ==
  /\ in_call = NoAlarm
  /\ AlarmIsDue
  /\ Dispatch(clk)
  /\ in_call' = AlarmAt(next_idx)
  /\ vsync_due' = (AlarmAt(next_idx) = Raster)
  /\ UNCHANGED <<clk, epoch>>

(* machine_vsync_hook -> clk_guard_prevent_overflow: the clock and, through *)
(* machine_maincpu_clk_overflow_callback, the ticks of all pending alarms. *)
GuardTripsLate == clk > GuardMax
GuardTrips == clk >= GuardMax

VSync ==
  /\ vsync_due
  /\ vsync_due' = FALSE
  /\ \/ /\ ~GuardTrips
        /\ UNCHANGED <<vars, clk, epoch>>
     \/ /\ GuardTrips
        /\ clk' = Wrap(clk - ClockSub)
        /\ epoch' = epoch + ClockSub
        /\ TimeWarp(-ClockSub)
  /\ UNCHANGED in_call

(* A callback counts from the tick it was called for (rclk: the clock less *)
(* the offset) or from the clock.  The VIC-II keeps that tick in variables *)
(* of its own, which its overflow callback moves with the clock.           *)
rclk == clk - called.offset

ReturnFromRaster ==
  /\ in_call = Raster
  /\ ~vsync_due
  /\ AlarmSet(Raster, Wrap(rclk + Frame))
  /\ in_call' = NoAlarm
  /\ UNCHANGED <<clk, vsync_due, epoch>>

ReturnFromDevice(a) ==
  /\ in_call = a /\ a # Raster
  /\ \/ AlarmUnset(a)
     \/ \E ahead \in 1..MaxAhead : \/ AlarmSet(a, Wrap(clk + ahead))
                                   \/ AlarmSet(a, Wrap(rclk + ahead))
  /\ in_call' = NoAlarm
  /\ UNCHANGED <<clk, vsync_due, epoch>>

CpuNext == \/ Instruction \/ Call \/ VSync \/ ReturnFromRaster
           \/ \E a \in Alarms : \/ DeviceSets(a) \/ DeviceUnsets(a)
                                \/ ReturnFromDevice(a)

CpuSpec == CpuInit /\ [][CpuNext]_cpuVars

-----------------------------------------------------------------------------
CpuTypeOK == /\ TypeOK
             /\ clk \in Clock
             /\ in_call \in Alarms \cup {NoAlarm}
             /\ vsync_due \in BOOLEAN
             /\ epoch \in Nat

(* The clock never comes near the end of its range, so that no tick a      *)
(* device computes from it wraps: one check per frame is often enough,     *)
(* though it is made only when the frame is over, by a callback that may   *)
(* be late by an instruction.                                              *)
ClockBound == clk <= GuardMax + Frame + MaxStep - 2

(* Why: the frame alarm never leaves the queue, is never further ahead     *)
(* than one frame after the last check, and no alarm is later than one     *)
(* instruction.                                                            *)
RasterClk == slot_clk[pending_idx[Raster]]

RasterOnTime ==
  /\ pending_idx[Raster] # None
  /\ vsync_due => in_call = Raster
  /\ in_call = Raster => RasterClk = rclk
  /\ in_call # NoAlarm => called.alarm = in_call /\ rclk >= 0 /\ rclk > clk - MaxStep
  /\ in_call = Raster /\ ~vsync_due => clk < GuardMax
  /\ in_call # Raster => RasterClk <= GuardMax - 1 + Frame
  /\ clk < next_clk + MaxStep

CpuInv == CpuTypeOK /\ BackLinksMatch /\ NextIsEarliest /\ ClockBound /\ RasterOnTime

(* The CPU uses the context as module Alarm assumes: it never compares the *)
(* clock with the largest tick, and warps only by an amount all pending    *)
(* ticks can give up - also in the callback of an alarm that is still in   *)
(* the queue with a tick that has passed.                                  *)
UsesContextWell == [][Next]_vars

(* The guard is invisible: on the real time scale, epoch + clk, no alarm is *)
(* early, forgotten or called before an earlier one, and no instruction    *)
(* starts while an alarm is due.                                           *)
real_now == epoch + clk
real_due == [a \in Alarms |-> IF pending_idx[a] = None THEN None
                              ELSE epoch + slot_clk[pending_idx[a]]]

Ideal == INSTANCE IdealClock WITH now <- real_now, due <- real_due

ImplementsIdealClock == Ideal!Spec
=============================================================================
