----------------------------- MODULE DriveClock -----------------------------
(***************************************************************************)
(* The clock of one drive (drivecpu.c, drive-overflow.c).  The main cycles *)
(* a drive is given are turned into cycles of its own clock, and the drive *)
(* CPU runs until its clock reaches stop_clk; its alarms, here the timer   *)
(* of a VIA, and its idle trap act on the same clock.  The drive has an    *)
(* overflow guard of its own, which looks at the clock once per frame.     *)
(***************************************************************************)
EXTENDS Integers

CONSTANTS
  ClockMax,     \* CLOCK_MAX; cycle_accum has the same width
  SubMin,       \* CLKGUARD_SUB_MIN
  One,          \* 0x10000: one drive cycle in cycle_accum
  SyncFactor,   \* drive cycles per main cycle, in units of 1 / One
  Chunk,        \* main cycles converted in one step (10000)
  MaxGap,       \* main cycles a drive is given between two looks of the guard
  MaxInsn,      \* the longest instruction of the drive CPU
  IrqCycles,    \* cycles of its interrupt sequence
  MaxAhead      \* how far ahead the timer is set

ASSUME DriveAssumption ==
  /\ ClockMax \in Nat /\ SubMin \in Nat
  /\ One \in Nat \ {0} /\ SyncFactor \in Nat /\ Chunk \in Nat \ {0}
  /\ SyncFactor * Chunk + One - 1 <= ClockMax
  /\ MaxGap \in Nat /\ MaxInsn \in Nat \ {0}
  /\ IrqCycles \in Nat /\ MaxAhead \in Nat
  /\ ClockMax - SubMin >= 3 * SubMin     \* checked by clk_guard_init

(* CLKGUARD_SUB_MIN is over a million cycles: room for what a drive runs   *)
(* between two looks of the guard, a frame, and for the longest timer.     *)
GapCycles == (SyncFactor * MaxGap) \div One + 1

ASSUME RoomAssumption ==
  GapCycles + IrqCycles + MaxInsn + MaxAhead + 6 <= SubMin

Clock == 0..ClockMax
Wrap(n) == n % (ClockMax + 1)
GuardMaxIsAll == ClockMax
GuardMax == ClockMax - SubMin
ClockSub == GuardMax - SubMin   \* the guard of a drive has no base

VARIABLES
  clk,          \* drive_clk
  stop_clk,     \* run the drive CPU until its clock gets here
  cycle_accum,  \* the part of a drive cycle left over
  at,           \* where drivecpu_execute is
  todo,         \* main cycles still to convert
  reset,        \* the RESET bit of the drive's interrupt status
  pending,      \* the timer's alarm is in the alarm context
  next_clk,     \* next_pending_alarm_clk of the context
  left,         \* main cycles the drive may still be given before the guard looks
  drift         \* history: drive cycles owed and not accounted for, times One

alarm == <<pending, next_clk>>
vars == <<clk, stop_clk, cycle_accum, at, todo, reset, alarm, left, drift>>

Init == /\ clk = 0 /\ stop_clk = 0 /\ cycle_accum = 0
        /\ at = "asleep" /\ todo = 0 /\ reset = TRUE
        /\ pending = FALSE /\ next_clk = ClockMax
        /\ left = MaxGap /\ drift = 0

Goto(label) == at' = label

-----------------------------------------------------------------------------
(* drivecpu_execute: calculate the number of drive cycles.                 *)
Execute == /\ at = "asleep"
           /\ \E cycles \in 0..left : todo' = cycles /\ left' = left - cycles
           /\ Goto("convert")
           /\ UNCHANGED <<clk, stop_clk, cycle_accum, reset, alarm, drift>>

Tcycles == IF todo > Chunk THEN Chunk ELSE todo

(* What stays in cycle_accum.                                              *)
LeftoverKept(sum) == sum
LeftoverLost(sum) == 0
Leftover(sum) == sum % One

Convert ==
  LET sum == Wrap(cycle_accum + SyncFactor * Tcycles)
  IN  /\ at = "convert" /\ todo # 0
      /\ todo' = todo - Tcycles
      /\ stop_clk' = Wrap(stop_clk + (sum \div One))
      /\ cycle_accum' = Leftover(sum)
      /\ drift' = drift + cycle_accum + SyncFactor * Tcycles
                    - One * (sum \div One) - Leftover(sum)
      /\ UNCHANGED <<clk, at, reset, alarm, left>>

Converted == /\ at = "convert" /\ todo = 0
             /\ Goto("loop")
             /\ UNCHANGED <<clk, stop_clk, cycle_accum, todo, reset, alarm, left, drift>>

-----------------------------------------------------------------------------
(* The loop condition, (int)(clk - stop_clk) < 0.                          *)
Reached == Wrap(clk - stop_clk) <= ClockMax \div 2

EndExecute == /\ at = "loop" /\ Reached
              /\ Goto("asleep")
              /\ UNCHANGED <<clk, stop_clk, cycle_accum, todo, reset, alarm, left, drift>>

BeginInsn == /\ at = "loop" /\ ~Reached
             /\ Goto("check")
             /\ UNCHANGED <<clk, stop_clk, cycle_accum, todo, reset, alarm, left, drift>>

(* PROCESS_ALARMS.  The timer is set again by its callback, or it runs out *)
(* (viacore_intt1).  Dispatching an empty context calls through a pointer  *)
(* that is none (pending_alarms[-1]), and the program ends there.          *)
AlarmIsDue == clk >= next_clk

SetTimer(tick) == pending' = TRUE /\ next_clk' = tick
UnsetTimer == pending' = FALSE /\ next_clk' = ClockMax

Dispatch == /\ at \in {"check", "insn"} /\ AlarmIsDue
            /\ pending
            /\ \/ \E period \in 1..MaxAhead : SetTimer(Wrap(next_clk + period))
               \/ UnsetTimer
            /\ UNCHANGED <<clk, stop_clk, cycle_accum, at, todo, reset, left, drift>>

(* cpu_reset of the drive: its chips unset their alarms.                   *)
AckReset == /\ at = "check" /\ ~AlarmIsDue /\ reset
            /\ clk' = 6
            /\ reset' = FALSE
            /\ UnsetTimer
            /\ Goto("insn")
            /\ UNCHANGED <<stop_clk, cycle_accum, todo, left, drift>>

IrqSequence == /\ at = "check" /\ ~AlarmIsDue /\ ~reset
               /\ clk' = Wrap(clk + IrqCycles)
               /\ Goto("insn")
               /\ UNCHANGED <<stop_clk, cycle_accum, todo, reset, alarm, left, drift>>

NoInterrupt == /\ at = "check" /\ ~AlarmIsDue /\ ~reset
               /\ Goto("insn")
               /\ UNCHANGED <<clk, stop_clk, cycle_accum, todo, reset, alarm, left, drift>>

(* An instruction; it may write the timer.                                 *)
Insn ==
  /\ at = "insn" /\ ~AlarmIsDue
  /\ \E n \in 1..MaxInsn : clk' = Wrap(clk + n)
  /\ \/ \E ahead \in 1..MaxAhead : SetTimer(Wrap(clk + ahead))
     \/ UNCHANGED alarm
  /\ Goto("loop")
  /\ UNCHANGED <<stop_clk, cycle_accum, todo, reset, left, drift>>

(* drive_trap_handler: the ROM's idle loop is skipped up to the next event.*)
IdleUntilStop == stop_clk
IdleUntil == IF next_clk > stop_clk THEN stop_clk ELSE next_clk

TrapIdle == /\ at = "check" /\ ~AlarmIsDue /\ ~reset
            /\ clk' = IdleUntil
            /\ Goto("loop")
            /\ UNCHANGED <<stop_clk, cycle_accum, todo, reset, alarm, left, drift>>

-----------------------------------------------------------------------------
(* drivecpu_prevent_clk_overflow, drive_clk_overflow_callback and          *)
(* alarm_context_time_warp, which warps the next tick of an empty context  *)
(* as well.                                                                *)
Warped(tick) == Wrap(tick - ClockSub)

StopKept == stop_clk
StopWarped == Wrap(stop_clk - ClockSub)

GuardTrips == /\ at = "asleep" /\ clk >= GuardMax
              /\ clk' = clk - ClockSub
              /\ stop_clk' = StopWarped
              /\ next_clk' = Warped(next_clk)
              /\ left' = MaxGap
              /\ UNCHANGED <<cycle_accum, at, todo, reset, pending, drift>>

GuardPasses == /\ at = "asleep" /\ clk < GuardMax
               /\ left' = MaxGap
               /\ UNCHANGED <<clk, stop_clk, cycle_accum, at, todo, reset, alarm, drift>>

(* drivecpu_reset; drive_enable after the drive was off.  The user enables *)
(* drives from the user interface, which runs once per frame.              *)
DrivecpuReset == /\ at = "asleep"
                 /\ clk' = 0 /\ stop_clk' = 0 /\ reset' = TRUE
                 /\ UNCHANGED <<cycle_accum, at, todo, alarm, left, drift>>

Enable == /\ at = "asleep" /\ left = MaxGap
          /\ stop_clk' = clk
          /\ UNCHANGED <<clk, cycle_accum, at, todo, reset, alarm, left, drift>>

Next == \/ Execute \/ Convert \/ Converted \/ EndExecute \/ BeginInsn \/ Dispatch
        \/ AckReset \/ IrqSequence \/ NoInterrupt \/ Insn \/ TrapIdle
        \/ GuardTrips \/ GuardPasses \/ DrivecpuReset \/ Enable

Spec == Init /\ [][Next]_vars

-----------------------------------------------------------------------------
TypeOK == /\ clk \in Clock /\ stop_clk \in Clock
          /\ cycle_accum \in 0..(One - 1)
          /\ at \in {"asleep", "convert", "loop", "check", "insn"}
          /\ todo \in 0..MaxGap /\ left \in 0..MaxGap
          /\ reset \in BOOLEAN /\ pending \in BOOLEAN
          /\ next_clk \in Clock
          /\ drift \in Int

(* A drive gets exactly its share of the main cycles: what does not make a *)
(* whole drive cycle is kept for later, however the cycles are cut up.     *)
NoDrift == drift = 0

(* When the drive sleeps its clock has reached stop_clk, and is past it by *)
(* no more than the last instruction and an interrupt sequence before it.  *)
(* Until a reset is done, the time it takes comes on top.                  *)
StopsOnTime == at = "asleep" =>
                 Wrap(clk - stop_clk) <= IrqCycles + MaxInsn + 6

(* The timer is never late by more than an instruction and an interrupt    *)
(* sequence: neither the idle trap nor the overflow guard skips it.        *)
TimerOnTime == pending => clk < next_clk + IrqCycles + MaxInsn

(* drivecpu.c: "Make sure the drive clock counters never overflow".        *)
NeverOverflows == [][clk' >= clk \/ GuardTrips \/ DrivecpuReset \/ AckReset]_vars

(* alarm.h: next_pending_alarm_clk is the "Clock tick for the next pending *)
(* alarm."  So the context is dispatched only if there is one.             *)
DispatchFindsAlarm == at \in {"check", "insn"} /\ AlarmIsDue => pending
=============================================================================
