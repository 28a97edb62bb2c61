---------------------------------- MODULE Cia ----------------------------------
(***************************************************************************)
(* A CIA of the C64 (core/ciacore.c): two timers, the interrupt flags and  *)
(* their mask, and the line to the CPU.  Nothing happens in the chip while *)
(* the clock of the CPU advances.  The alarm of a timer calls it at an     *)
(* underflow that somebody may need, an access to a register first brings  *)
(* it up to date, the guard against the overflow of the clock moves all    *)
(* its ticks back, and a snapshot stores what of it has a place in the     *)
(* file.  Whatever the order of these, it has to be the chip of module     *)
(* IdealCia.                                                               *)
(*                                                                         *)
(* Modelled are the timers, with timer B counting the clock or timer A.    *)
(* The ports, the clock of the day and the serial register are not.        *)
(***************************************************************************)
EXTENDS CiaTimer, CiaBus

CONSTANTS
  MaxAccesses,  \* bound: instructions that access the chip
  MaxIdle,      \* bound: instructions that do not
  MaxHost,      \* bound: what the emulator does between two instructions
  OverflowAt,   \* clk_max_value of the clock guard
  OverflowSub   \* what clk_guard_clock_sub subtracts

(* The ticks of the model, of alarms that lie ahead as well: they have     *)
(* room below CLOCK_MAX.  The clock that is moved back is past the first   *)
(* two ticks: what is subtracted keeps CLKGUARD_SUB_MIN of it.             *)
LastTick == 15 + 6 * MaxAccesses + 3 * MaxIdle + MaxLatch
Ticks == 0..LastTick

ASSUME CiaAssumption ==
  /\ MaxAccesses \in Nat /\ MaxIdle \in Nat /\ MaxHost \in Nat
  /\ OverflowSub \in Nat /\ OverflowAt \in Nat /\ OverflowSub + 2 <= OverflowAt
  /\ LastTick < ClockMax

VARIABLES
  cia,     \* the chip and what the interrupt status and the context know of it
  clk,     \* maincpu_clk
  cycles,  \* the cycles left of the instruction that the CPU executes
  left     \* what the bounds leave of instructions and other events

vars == <<cia, clk, cycles, left>>

-----------------------------------------------------------------------------
(* Bringing the timers up to date.  The operators take the chip and give   *)
(* it back as the C function of the same name leaves it.                   *)
CountsTA(c) == {"START", "COUNTTA"} \subseteq c.crb

UpdatedTA(c, u) ==
  IF u.n = 0 THEN [c EXCEPT !.ta = u.timer]
  ELSE [c EXCEPT !.ta = u.timer,
                 !.irqflags = @ \cup {"TA"},
                 !.tat = (@ + u.n) % 2]

DoUpdateTA(c, rclk) == UpdatedTA(c, Update(c.ta, rclk))

(* The old chip loses the flag of an underflow right after a read.         *)
UpdatedTB(c, u, bug) ==
  IF u.n = 0 THEN [c EXCEPT !.tb = u.timer]
  ELSE [c EXCEPT !.tb = u.timer,
                 !.irqflags = (@ \ {"TBB"}) \cup {"TB"}
                              \cup Given(bug, {"TBB"}),
                 !.tbt = (@ + u.n) % 2]

DoUpdateTB(c, rclk) ==
  UpdatedTB(c, Update(c.tb, rclk), c.model = "6526" /\ c.rdi = rclk - 1)

(* my_set_int.  The status records the tick of the first assertion, which  *)
(* it does not look at while the line is not asserted.                     *)
SetInt(c, rclk) == [c EXCEPT !.line = TRUE,
                             !.int_clk = IF c.line THEN c.int_clk ELSE rclk]
ClearInt(c) == [c EXCEPT !.line = FALSE, !.int_clk = 0]

(* cia_do_set_int.  The line follows a cycle later on the old chip.        *)
LineAtOnce(c, tick) == tick
LineClk(c, tick) == IF c.model = "6526A" THEN tick ELSE tick + 1

DoSetInt(c, rclk) ==
  LET new   == c.model = "6526A"
      tick  == IF new /\ c.rdi = rclk - 1 THEN rclk + 1 ELSE rclk
      shown == c.irqflags \cap c.mask # {}
      lost  == Given("TBB" \in c.irqflags, {"TBB", "TB"})
  IN  IF ~shown \/ (~new /\ c.rdi = tick) THEN c
      ELSE [SetInt(c, LineClk(c, tick)) EXCEPT
              !.irqflags = (c.irqflags \ lost) \cup {"IR"}]

(* The next underflow of a free running timer A gets an alarm only if the  *)
(* interrupt it would assert is not asserted yet, or timer B counts it.    *)
NeedsAlarmA(c) ==
  /\ c.cra \cap {"START", "CR_ONESHOT", "CNT"} = {"START"}
  /\ \/ "TA" \in c.mask /\ "IR" \notin c.irqflags
     \/ "COUNTTA" \in c.crb

NeedsAlarmB(c) ==
  /\ c.crb \cap {"START", "CR_ONESHOT", "CNT", "COUNTTA"} = {"START"}
  /\ "TB" \in c.mask

AlarmA(c) == IF NeedsAlarmA(c) THEN [c EXCEPT !.ta = SetAlarm(@)] ELSE c
AlarmB(c) == IF NeedsAlarmB(c) THEN [c EXCEPT !.tb = SetAlarm(@)] ELSE c

(* The loops of cia_update_ta and cia_update_tb, which first serve the     *)
(* alarms that are due and have not been dispatched: s.last is the tick of *)
(* the last one.  No two are due at the same tick.                         *)
Serving(c) == [chip |-> c, last |-> 0]
Passes(t, rclk) == IF t.alarmclk <= rclk THEN rclk - t.alarmclk + 1 ELSE 0

(* ciacore_inttb and cia_update_tb.                                        *)
IntTB(c, rclk) ==
  DoSetInt(AlarmB([DoUpdateTB(c, rclk) EXCEPT !.tb = AckAlarm(@)]), rclk)

NextTB(s, rclk) ==
  LET tick == s.chip.tb.alarmclk
  IN  IF tick <= rclk THEN [chip |-> IntTB(s.chip, tick), last |-> tick] ELSE s

ServeTB(c, rclk) ==
  LET s[k \in Nat] == IF k = 0 THEN Serving(c) ELSE NextTB(s[k - 1], rclk) IN s

ReplayedTB(s, rclk) == IF s.last = rclk THEN s.chip ELSE DoUpdateTB(s.chip, rclk)
AlarmsTB(c, rclk) == ReplayedTB(ServeTB(c, rclk)[Passes(c.tb, rclk)], rclk)

(* ciacore_intta and cia_update_ta.  Timer B is brought up to date to be   *)
(* stepped: cia_update_tb calls cia_update_ta, which finds no alarm, for   *)
(* the one of this tick has been acknowledged and the next lies ahead.     *)
CountedByTB(c, rclk) ==
  IF CountsTA(c)
    THEN [AlarmsTB(DoUpdateTA(c, rclk), rclk) EXCEPT !.tb = SingleStep(@)]
    ELSE c

IntTA(c, rclk) ==
  DoSetInt(CountedByTB(AlarmA([DoUpdateTA(c, rclk) EXCEPT !.ta = AckAlarm(@)]),
                       rclk),
           rclk)

NextTA(s, rclk) ==
  LET tick == s.chip.ta.alarmclk
  IN  IF tick <= rclk THEN [chip |-> IntTA(s.chip, tick), last |-> tick] ELSE s

ServeTA(c, rclk) ==
  LET s[k \in Nat] == IF k = 0 THEN Serving(c) ELSE NextTA(s[k - 1], rclk) IN s

ReplayedTA(s, rclk) == IF s.last = rclk THEN s.chip ELSE DoUpdateTA(s.chip, rclk)
UpdateTA(c, rclk) == ReplayedTA(ServeTA(c, rclk)[Passes(c.ta, rclk)], rclk)

UpdateTB(c, rclk) ==
  AlarmsTB(IF CountsTA(c) THEN UpdateTA(c, rclk) ELSE c, rclk)

UpdateBoth(c, rclk) == UpdateTB(UpdateTA(c, rclk), rclk)

-----------------------------------------------------------------------------
(* ciacore_read.  The flags are clear after a read: the alarms that were    *)
(* skipped because an interrupt was asserted are needed again.             *)
BeforeReadStampedLate(c, rclk) == [UpdateBoth(c, rclk) EXCEPT !.rdi = rclk]
BeforeRead(c, rclk) == UpdateBoth([c EXCEPT !.rdi = rclk], rclk)

AlarmsAfterReadForgotten(c) == c
AlarmsAfterRead(c) == [c EXCEPT !.ta = SetAlarm(@), !.tb = SetAlarm(@)]

Visible(flags) == flags \ Given("TBB" \in flags, {"TBB", "TB"})
FlagsRead(c) == [ClearInt(c) EXCEPT !.irqflags = {},
                                    !.last_read = Byte(Visible(c.irqflags))]

ReadFlags(c, rclk) == FlagsRead(AlarmsAfterRead(BeforeRead(c, rclk)))

Control(reg, t) == Byte((reg \ {"START"}) \cup (t.state \cap {"START"}))

ReadA(c, reg) == [c EXCEPT !.last_read = IF reg = "TAL" THEN Value(c.ta.cnt)
                                                     ELSE Control(c.cra, c.ta)]
ReadB(c, reg) == [c EXCEPT !.last_read = IF reg = "TBL" THEN Value(c.tb.cnt)
                                                     ELSE Control(c.crb, c.tb)]

Read(c, reg, rclk) ==
  CASE reg \in {"TAL", "CRA"} -> ReadA(UpdateTA(c, rclk), reg)
    [] reg \in {"TBL", "CRB"} -> ReadB(UpdateTB(c, rclk), reg)
    [] reg = "ICR" -> ReadFlags(c, rclk)

(* ciacore_store_internal.  An alarm skipped while the source was disabled *)
(* is set when it is enabled.                                              *)
Unmasked(c, rclk) ==
  IF c.mask \cap c.irqflags # {} THEN DoSetInt(c, rclk) ELSE c

AlarmsOfSources(c) ==
  [c EXCEPT !.ta = IF "TA" \in c.mask THEN SetAlarm(@) ELSE @,
            !.tb = IF "TB" \in c.mask THEN SetAlarm(@) ELSE @]

WriteMask(c, byte, rclk) ==
  AlarmsOfSources(Unmasked(
    [UpdateBoth(c, rclk) EXCEPT !.mask = MaskAfter(@, byte)], rclk + 1))

WriteCRA(c, byte, rclk) ==
  [UpdateTA([c EXCEPT !.tat = IF Starts(byte, c.cra) THEN 1 ELSE @], rclk)
     EXCEPT !.ta = SetAlarm(WithControl(@, byte)),
            !.cra = byte \ {"FLOAD"}]

InputB(byte) == IF "COUNTTA" \in byte THEN byte \cup {"CNT"} ELSE byte

WriteCRB(c, byte, rclk) ==
  [UpdateBoth([c EXCEPT !.tbt = IF Starts(byte, c.crb) THEN 1 ELSE @], rclk)
     EXCEPT !.ta = IF "COUNTTA" \in byte THEN SetAlarm(@) ELSE @,
            !.tb = SetAlarm(WithControl(@, InputB(byte))),
            !.crb = byte \ {"FLOAD"}]

WriteTimer(t, reg, byte) ==
  SetAlarm(IF reg \in {"TAL", "TBL"} THEN WithLatchLo(t, byte)
                                     ELSE WithLatchHi(t))

Write(c, reg, byte, rclk) ==
  CASE reg \in {"TAL", "TAH"} ->
         [UpdateTA(c, rclk) EXCEPT !.ta = WriteTimer(@, reg, byte)]
    [] reg \in {"TBL", "TBH"} ->
         [UpdateTB(c, rclk) EXCEPT !.tb = WriteTimer(@, reg, byte)]
    [] reg = "ICR" -> WriteMask(c, byte, rclk)
    [] reg = "CRA" -> WriteCRA(c, byte, rclk)
    [] reg = "CRB" -> WriteCRB(c, byte, rclk)

(* The access of one cycle.  The value read last matters to the store that *)
(* follows at once in a read-modify-write instruction, and is dropped in a *)
(* cycle without an access.                                                *)
Written(c, a) == CASE a.kind = "write" -> a.byte
                   [] a.kind = "old" -> c.last_read.bits
                   [] a.kind = "new" -> Incremented(c.last_read.bits)

Access(c, a, rclk) ==
  CASE a.kind = "none" -> [c EXCEPT !.last_read = Byte({})]
    [] a.kind = "read" -> Read(c, a.reg, rclk)
    [] OTHER -> Write(c, a.reg, Written(c, a), rclk)

-----------------------------------------------------------------------------
(* The chip after a reset.  The program has set the latches and the mask,  *)
(* and then the control registers in two stores four cycles apart.         *)
Idle(latch) == [state |-> {}, cnt |-> latch, latch |-> latch, clk |-> 1,
                alarmclk |-> ClockMax, pending |-> ClockMax]

Fresh(model, setup) ==
  [model |-> model, ta |-> Idle(setup.la), tb |-> Idle(setup.lb),
   mask |-> setup.mask,
   irqflags |-> {}, cra |-> {}, crb |-> {}, tat |-> 0, tbt |-> 0, rdi |-> 0,
   line |-> FALSE, int_clk |-> 0, last_read |-> Byte({})]

Init ==
  /\ \E model \in Models, setup \in Setups :
       cia = Write(Write(Fresh(model, setup), "CRB", setup.crb, 1),
                   "CRA", setup.cra, 5)
  /\ clk = 6
  /\ cycles = <<>>
  /\ left = [accesses |-> MaxAccesses, idle |-> MaxIdle, host |-> MaxHost]

(* The CPU executes an instruction, a cycle at a time.                     *)
Boundary == cycles = <<>>

BusCycle == /\ ~Boundary
            /\ cia' = Access(cia, Head(cycles), clk)
            /\ clk' = clk + 1
            /\ cycles' = Tail(cycles)
            /\ UNCHANGED left

(* Before each instruction the alarms that are due are dispatched, the     *)
(* earliest first.                                                         *)
Due == {p \in {cia.ta.pending, cia.tb.pending} : p <= clk}
Earliest == CHOOSE p \in Due : \A q \in Due : p <= q

Dispatch ==
  /\ Boundary
  /\ Due # {}
  /\ \/ cia.ta.pending = Earliest /\ cia' = IntTA(cia, Earliest)
     \/ cia.tb.pending = Earliest /\ cia' = IntTB(cia, Earliest)
  /\ UNCHANGED <<clk, cycles, left>>

Spend(what) == left[what] > 0 /\ left' = [left EXCEPT ![what] = @ - 1]

Fetch ==
  /\ Boundary
  /\ Due = {}
  /\ \/ Spend("idle") /\ cycles' = IdleInstruction
     \/ Spend("accesses") /\ cycles' \in Instructions
  /\ UNCHANGED <<cia, clk>>

(* ciacore_idle: an alarm of its own brings the timers up to date.         *)
IdleUpdate ==
  /\ Boundary
  /\ \E rclk \in {clk - 1, clk} : /\ \A p \in Due : rclk <= p
                                 /\ cia' = UpdateBoth(cia, rclk)
  /\ Spend("host")
  /\ UNCHANGED <<clk, cycles>>

(* At the end of a frame the clock is moved back.  The callback of the     *)
(* chip comes first, that of the machine, which moves the ticks of the     *)
(* alarm context and of the interrupt status, last.                        *)
BackUnclipped(tick) == tick - OverflowSub
Back(tick) == IF tick > OverflowSub THEN tick - OverflowSub ELSE 0

ChipMoved(c, now) ==
  [UpdateBoth(c, now) EXCEPT !.ta = PreventClockOverflow(@, OverflowSub),
                             !.tb = PreventClockOverflow(@, OverflowSub),
                             !.rdi = Back(@)]

WarpAlarm(t) == [t EXCEPT !.pending = IF @ < ClockMax THEN @ - OverflowSub
                                                      ELSE @]

MachineMoved(c) ==
  [c EXCEPT !.ta = WarpAlarm(@), !.tb = WarpAlarm(@),
            !.int_clk = Back(@)]

CallbacksInOrderOfCreation(c, now) == ChipMoved(MachineMoved(c), now)
Callbacks(c, now) == MachineMoved(ChipMoved(c, now))

ClkOverflow ==
  /\ Boundary
  /\ clk >= OverflowAt
  /\ clk' = clk - OverflowSub
  /\ cia' = Callbacks(cia, clk)
  /\ Spend("host")
  /\ UNCHANGED cycles

(* A snapshot is written and read back.  The tick of the last read is      *)
(* stored as a distance of at most 120; of the flags, only eight bits.     *)
LoadTimer(t) == LoadSnapshot(t, clk)

Snapshot ==
  /\ Boundary
  /\ Due = {}
  /\ \E u \in {UpdateBoth(cia, clk)} :
       /\ "TBB" \notin u.irqflags
       /\ cia' = [u EXCEPT !.ta = LoadTimer(@), !.tb = LoadTimer(@),
                           !.rdi = IF clk - @ > 120 THEN 0 ELSE @]
  /\ Spend("host")
  /\ UNCHANGED <<clk, cycles>>

(* The bounds end the program.                                             *)
Done == Boundary /\ Due = {} /\ left.accesses + left.idle = 0 /\ UNCHANGED vars

Next == \/ BusCycle \/ Dispatch \/ Fetch
        \/ IdleUpdate \/ ClkOverflow \/ Snapshot
        \/ Done

Spec == Init /\ [][Next]_vars

-----------------------------------------------------------------------------
(* An alarm is at most a period of the timer and the way through its       *)
(* pipeline ahead of the clock.                                            *)
TimerStates == [state : SUBSET Bits, cnt : 0..MaxLatch, latch : 0..MaxLatch,
                clk : Ticks, alarmclk : Ticks \cup {ClockMax},
                pending : Ticks \cup {ClockMax}]

ByteStates == [bits : SUBSET (Flags \cup ControlBits), count : 0..MaxLatch]

Chips == [model : Models, ta : TimerStates, tb : TimerStates,
          mask : SUBSET Sources, irqflags : SUBSET (Flags \cup {"TBB"}),
          cra : SUBSET ControlBits, crb : SUBSET ControlBits,
          tat : {0, 1}, tbt : {0, 1}, rdi : Ticks,
          line : BOOLEAN, int_clk : Ticks, last_read : ByteStates]

TypeOK ==
  /\ cia \in Chips
  /\ clk \in Ticks
  /\ cycles \in Seq(Accesses)
  /\ left.accesses \in 0..MaxAccesses
  /\ left.idle \in 0..MaxIdle /\ left.host \in 0..MaxHost

(* The tick a timer believes its alarm is set to is the one the context    *)
(* calls it at, whatever moved the clock or the alarm.                     *)
ContextAgrees == cia.ta.pending = cia.ta.alarmclk
                 /\ cia.tb.pending = cia.tb.alarmclk

(* An alarm that is set is at the next underflow of its timer.  It is set,  *)
(* unless there will be none, while the underflow of timer A would assert  *)
(* an interrupt or step timer B, and while timer B may interrupt.          *)
NeededA(c) == \/ "TA" \in c.mask /\ "IR" \notin c.irqflags
              \/ "COUNTTA" \in c.crb
NeededB(c) == "TB" \in c.mask

Stands(t, needed) ==
  LET next == NextUnderflow(t, t.clk)
  IN  t.alarmclk \in {next} \cup Given(~needed, {ClockMax})

AlarmsStand == /\ ContextAgrees
               /\ Stands(cia.ta, NeededA(cia))
               /\ Stands(cia.tb, NeededB(cia))

(* The chip as it would be if its alarms were called at their ticks and    *)
(* somebody looked at it now.                                              *)
ServedNext(c) ==
  CASE c.ta.pending <= clk /\ c.ta.pending <= c.tb.pending ->
         IntTA(c, c.ta.pending)
    [] c.tb.pending <= clk /\ c.tb.pending < c.ta.pending ->
         IntTB(c, c.tb.pending)
    [] OTHER -> c

ServeBoth(c) ==
  LET s[k \in Nat] == IF k = 0 THEN c ELSE ServedNext(s[k - 1]) IN s

Served(c) ==
  UpdateBoth(ServeBoth(c)[Passes(c.ta, clk) + Passes(c.tb, clk)], clk)

Now == Served(cia)

(* What a program can find out about the chip, with the ages of the read   *)
(* and of the interrupt instead of their ticks, and what it read last.     *)
Chip(t) == [state |-> t.state, cnt |-> t.cnt, latch |-> t.latch]
Least(a, b) == IF a < b THEN a ELSE b

View(n) ==
  LET in == IF ~n.line THEN -1
            ELSE IF n.int_clk > clk THEN n.int_clk - clk ELSE 0
      f  == n.irqflags \ {"IR"}
  IN  [model |-> n.model, ta |-> Chip(n.ta), tb |-> Chip(n.tb),
       mask |-> n.mask, cra |-> n.cra, crb |-> n.crb, tat |-> n.tat,
       tbt |-> n.tbt, age |-> Least(clk - n.rdi, 2), int_in |-> in,
       last_read |-> n.last_read,
       flags |-> IF n.line /\ "TBB" \in f THEN f \ {"TB", "TBB"} ELSE f]

shown == View(Now)
=============================================================================
