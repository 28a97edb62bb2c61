# VICE on the PSP: a TLA+ development

The repository is VICE 3.2, an emulator of Commodore computers, with a port to
the PlayStation Portable; `Makefile_C64.psp` builds the C64.  The emulated
machine is data to the emulator.  Its own logic is time: who runs up to which
cycle, when a device is called, which interrupt is taken, what happens when the
32-bit clock nears its end, how a chip that is only looked at now and then stays
the chip it emulates, how a program is started by typing to a machine that does
not know it, and how a real second thread gets the sound.  That logic is
modelled here.

Names in the modules are those of the code.  A definition that is not the code
but a plausible mistake in it (`LeftoverLost`, `NmiEdgeAlways`, ...) stands
before the definition it imitates and is used by no specification; every
property is broken by at least one of them.

## 1. Inventory

| component | state | operations | talks to |
|---|---|---|---|
| alarm contexts (`alarm.c`, `alarm.h`) | array of pending alarms, cached next tick | new, destroy, set, unset, time warp, dispatch | every device; CPU loop |
| main clock and overflow guard (`clkguard.c`) | `maincpu_clk`, guard list | prevent_overflow, once per frame | alarms, interrupts, drives, sound, event log by callbacks |
| interrupt status (`interrupt.c`, `interrupt.h`) | lines per source, counters, bits, ticks, trap slot | set/clear IRQ and NMI, ack, trap, reset, warp, snapshot | chips, CPU, snapshot |
| CPU interrupt dispatch (`6510core.c`, `maincpu.c`) | registers, last opcode | check before each instruction, BRK, trap, reset | alarms, interrupt status |
| drive synchronisation (`drive.c`, `drivecpu.c`) | `last_clk`, enable, idle method | bus access, vsync, guard, wake up | main clock, bus |
| drive clock (`drivecpu.c`, `drive-overflow.c`) | `drive_clk`, `stop_clk`, `cycle_accum` | execute, idle trap, own guard | its own alarms and interrupts |
| PSP sound (`sfifo.c`, `soundpsp.c`, `pl_snd.c`, `sound.c`) | ring, positions, flags on both sides | write, callback, suspend, resume, open, close | audio thread, menu, snapshots |
| interrupts in snapshots (`interrupt.c`, chips) | a file | read, write | interrupt status |
| CIA (`core/ciacore.c`, `core/ciatimer.c`) | two timers as pipelines of bits, flags, mask, line | accesses, alarms, idle update, overflow, snapshot | alarm context, interrupt status, CPU |
| keyboard buffer (`kbdbuf.c`) | queue of 16384 characters, alarm of RETURN | feed, flush, alarm | memory of the machine, vsync, alarm context |
| event log (`event.c`) | list of events, alarm | record, play back | alarm context, guard |
| autostart (`autostart.c`) | mode, what it borrowed | boot, advance once per frame, attention and EOF callbacks, reset | keyboard buffer, screen of the machine, resources, traps of the serial bus |
| drive DOS (`vdrive/`) | BAM, channels | open, allocate, free | images |
| flash ROM (`core/flash040core.c`) | command state, erase mask | store, read, erase alarm | alarm context |
| datasette (`datasette.c`) | motor, position, alarm | control, flux alarm | alarm context, CIA |
| fliplist (`fliplist.c`) | ring of names | add, remove, next | attach |
| netplay (`network.c`) | frame ring | hooks | not compiled in this build |
| chips, opcodes, drawing, sound synthesis, disk bits | data | | |

`PROJECT.json` gives every component with its files and why it is modelled or not.

How they interact.  There is one thread for the emulation.  The CPU loop
compares its clock with the next alarm before each instruction; an alarm's
callback may move interrupt lines, set and unset any alarm, and, for the raster
alarm at the end of a frame, run the vsync hook (`machine_vsync_hook`): drives
catch up, autostart advances, then the guard looks at the clock and may move it
back, with every tick of every client.  Hence the hard part: almost nothing is
concurrent, but nearly every piece of state is changed from inside a callback
of something that is in the middle of using it, and all ticks move together
once in over an hour (2^32 cycles of a 1 MHz clock), which no test waits for.  The one real
concurrency is the audio thread of the PSP, which shares a lock-free FIFO and
two flags with the emulation.

What makes each part correct:

* alarms: the array, the alarms' back links and the cached next alarm agree
  after every operation; the earliest alarm is called, once, and never early;
* clock: it never wraps, and no device can tell that it is moved back;
* interrupts: counters count lines; an NMI edge is taken once, a level IRQ as
  long as the line is held; no interrupt is served that nobody asked for;
* drives: they are given exactly the cycles that have passed, stop when told
  to, lose no fraction of a cycle and skip no alarm;
* snapshots: what is loaded agrees with itself;
* sound: bytes are played once and in order, both sides agree whether sound is
  on, and no write waits for ever;
* CIA: a chip that is brought up to date when somebody looks at it, and called
  only at the underflows that somebody may need, is a chip that counts every
  cycle: same counters, flags, values read, and the line in the same cycle;
* keyboard buffer: the text it is given is typed once and in its order, and the
  alarm that types a RETURN finds that RETURN;
* autostart: a boot that is left alone starts its program, and a boot that has
  ended, however, has given back warp mode and true drive emulation.

## 2. Modules

    AlarmQueue <= Alarm <- CpuClock => IdealClock
    Interrupt <- InterruptSnapshot => InterruptLines
              <- CpuInterrupts
    DriveSync      DriveClock
    CiaTimer, CiaBus <- Cia <- CiaComparison -> IdealCia
    KbdBuf, Kernal <- Autostart
    KbdBuf => TypedText
    ByteQueue <= Sfifo <- PspSound

`A <= B`: B implements the abstract A (a property of B's run and a theorem);
`A <- B`: B extends A; `A -> B`: A has an instance of B.

**AlarmQueue, Alarm.**  `Alarm` is `alarm.c` on the array: `slot_alarm`,
`slot_clk` and `num_pending` are `pending_alarms` and its length,
`pending_idx[a]` the back link of an alarm, `next_clk` and `next_idx` the
cache.  `alarm_unset` moves the last entry into the hole, as the code does.
`AlarmQueue` knows only a tick per alarm and what a dispatch calls.

**CpuClock, IdealClock.**  `CpuClock` adds the CPU loop: instructions, the
dispatch of due alarms, arbitrary devices setting and unsetting their alarms
from their callbacks, the raster alarm, the vsync hook and the guard.
`IdealClock` is the same machine on a clock without a last tick.  The history
variable `epoch` (what the guard has taken so far) maps one to the other.

**Interrupt, InterruptLines.**  `Interrupt` has the lines per source
(`pending_int`), `nirq`, `nnmi`, the bits and ticks, the trap slot, resets and
the guard's warp.  `InterruptLines` is the wiring: a level-sensitive IRQ and an
edge-latched NMI.

**InterruptSnapshot.**  Saving and loading: the CPU module of the file holds
counters and bits, the chips bring their own lines back.  `SnapshotSpec` is the
whole of the status, and it is what the run and the theorems are about.

**CpuInterrupts.**  `DO_INTERRUPT` of `6510core.c` in its steps with the
callbacks between them: the delay after branches and flag changes, `IRQPEND`,
an NMI that takes an IRQ's sequence over, BRK, traps, reset.

**DriveSync.**  When a drive is run and up to which cycle, and how `last_clk`
follows the guard unit by unit.  `lag` is a history variable: the cycles that
have passed less those the drive was given.

**DriveClock.**  One drive: conversion of main cycles in pieces of at most
10000, the loop of the drive CPU with a timer alarm, the interrupt sequence,
reset and the idle trap, and the drive's own guard.  The clock wraps at its
width and `stop_clk` is compared by a signed difference.  `drift` is history.

**CiaTimer, CiaBus, Cia.**  `CiaTimer` is `ciatimer.c`: the table of the
pipeline, `ciat_update` with the steady states it passes over many cycles of at
once, `ciat_set_alarm` that looks ahead for the next underflow.  `CiaBus` is
what instructions do to the chip, an access per cycle.  `Cia` is `ciacore.c`:
the alarms that are served late, or skipped because nobody needs them, the
accesses that bring the timers up to date first, the line of the old and of the
new chip, the guard's callbacks in their order, the snapshot.  `pending` is the
tick the alarm context has, `alarmclk` the one the timer believes in.  The loops
of the code are recursive functions that are asked for a turn that is known to
be enough (`Stages`, `Passes`), so that something can be proved of them;
`AlarmsStand` compares the alarms with `ciat_set_alarm`, and the proofs compare
`ciat_set_alarm` with the timer counted cycle by cycle.

**IdealCia, CiaComparison.**  `IdealCia` counts every cycle and has no alarms.
`CiaComparison` puts both on one bus; what the emulator does between two
instructions leaves the other chip alone.  `shown` is the chip as it would be
found now.  `overtaken` and `stepKept` are history: they name the two exceptions
that section 4 describes.  The chips are compared by what later cycles depend
on, `Core` of the timers.  It is a product of the two machines with invariants, not a
refinement: the emulator's chip lives at cycles that are past or to come, so
that a mapping would have to run it to the present anyway, which is what
`shown` does.

**KbdBuf, TypedText.**  `KbdBuf` is `kbdbuf.c` with time in frames: the queue,
the one flag for the whole of it, the flush at the end of a frame, the alarm of
RETURN, and a reset that takes the clock away from under the alarm.
`TypedText` promises that text is typed a piece at a time, in its order, every
character once.

**Kernal, Autostart.**  `Kernal` is external: the machine as far as autostart
sees it, which is the cursor's line, the line above, whether the program counter
is in ROM, and the traps.  `Autostart` is `autostart.c` composed with both.  Its
operators take the keyboard buffer and autostart's state and give them back as
the C function of the same name leaves them: `autostart_advance` once a frame,
`disk_eof_callback` from the trap of the serial bus or from a reset,
`reboot_for_autostart` at any time.  `user` is not the code's: it counts what
the user may still do and remembers what he wants, which the properties need.

**ByteQueue, Sfifo, PspSound.**  `Sfifo` is the ring, byte by byte, with each
position read once at the beginning of a call and published at its end; the
positions may be equal to the size of the ring, as in the code.  `FifoSpec`
says what the FIFO asks of its users: nobody resets positions while the reader
copies.  `PspSound` is those users: `sound.c`, the driver, the menu, snapshots
on one thread (`task` says inside which call it is) and `channel_thread` on
the other.  `ByteQueue` is a bounded queue of bytes.

## 3. Runs

| run | what it asks | bounds and why they are enough |
|---|---|---|
| alarms | structure of the array; refines AlarmQueue | 4 alarms, 3 slots, 3 ticks: every swap of unset, equal ticks, a full array, `CLOCK_MAX`; alarms are symmetric |
| cpu_clock | clock bound, invariant of the composition, contract of the context, refines IdealClock | 18 ticks, two overflows within `Horizon`; three alarms: raster, one that is set again and one that may stay off |
| interrupts | counters, bits and lines agree after any load; refines InterruptLines | 2 symmetric sources that both move both lines: none, one and another holder; 5 ticks for the guard to take some of; one file that may be older than the state |
| cartridge_snapshot | violation: `nnmi` after a load | one chip that restores its line and one that does not |
| cpu_interrupts | no spurious IRQ, NMI served in time, only what was asked for is called | one chip on each line, 9 cycles to begin something in (the longest sequence and the next check), an overflow among them, 2 symmetric traps and 2 calls from callbacks |
| drive_sync | drives in step, `last_clk` in the past | 2 drives, the lower one may skip; 56 ticks, overflows without end |
| skip_ahead | violation: cycles given twice | 1 drive that skips |
| drive_clock | no drift, stops on time, timer on time, no overflow | 128 ticks, factor 5/4, pieces of 3 cycles |
| empty_context | violation: dispatch of nothing | as drive_clock |
| cia | alarms stand at the next underflows; the two chips agree: counters, flags, line, values read | both models; five ways the timers are set up, with latches 0 to 3 (free, cascaded, one-shot, stopped), so that a period passes between any two accesses; any two instructions that access the chip at any cycle (start, stop, one-shot, forced load, cascade, a latch of 3, masks, reads), two that do not, and one idle update, overflow or snapshot among them |
| autostart | text typed once, buffer not overrun, what is borrowed is given back, a boot left alone runs | four settings of the resources; two boots and one other act of the user, or one boot and two; lines of 2 and 3 characters through a buffer of 2, so that a line is split, and a queue that two boots can fill |
| psp_sound | FIFO is a queue, contract kept, flags agree, writes end | ring of 4 bytes, fragments of 2, writes of 2 and 4: a write that does not fit, a wrap in the middle of a copy, an empty and a full ring; 2 SIDs for a device opened twice |

Deadlock is checked everywhere except: in cpu_interrupts, where `Horizon` ends
the exploration, and in drive_clock and empty_context, where the step after the
dispatch of an alarm that is not there is not defined.  (The machine of
cpu_clock has not stopped when `Horizon` is reached: devices may still move
their alarms; in cia the action `Done` is the end the bounds make.)  Clock
widths keep the proportions the code relies
on (`GuardMax >= 3 * SubMin`, as `clk_guard_init` asks); the ASSUMEs name them.

Two specifications have fairness.  `PspSound`, for `WriteEnds`: a write ends.
Weak fairness of
the audio thread: it is woken when its fragment has been played
(`sceAudioOutputBlocking`) or its 0.1 s are over, and has priority 0x12, above
the main thread's.  Strong fairness of the main thread while it writes: it runs
whenever the audio thread sleeps, which happens again and again but not for
good, so weak fairness would be too little.  Nothing is assumed about menus,
settings or snapshots.  `Autostart`, for `BootRuns`: weak fairness of the end of
a frame, of the alarm of RETURN, of a reset that was asked for, and of the
program in ROM.  All four are the CPU loop going on: the raster alarm is always
set again, and the clock reaches any tick.  The user need not do anything; a
boot he disturbs (`Disturbed`) is not held to the promise.

## 4. What disagrees with the code's own words

* **cartridge_snapshot** (`c64/cart/c64cart.c:786`): `interrupt.h:72` calls
  `nnmi` the "Number of active NMI lines."  The cartridge port never restores
  its line, so after a load the count includes a line nobody holds, and no
  NMI edge is seen until a reset.
* **skip_ahead** (`drive/drivecpu.c:247`): the catching up of a drive that was
  asleep when the guard tripped compares a tick of before with a clock of
  after; the drive is given the guard's cycles once more.  The same code runs
  the other drives too: with `MaySkip = {2}` of two drives TLC also violates
  `OthersNeverAhead`, for a drive that never skips.  The theorem about
  `InStep` therefore assumes `SkippersComeFirst`.
* **empty_context** (`alarm.c:99`): the warp also reduces the tick that stands
  for "nothing pending"; a drive whose timers stay off comes to that tick.

Met while modelling, and without a run of their own.  Where a property does not
hold because of one of them, the property names the exception.

* CIA: `cia_update_ta` and `cia_update_tb` bring one timer each up to date, so
  that with both alarms due at one access the later may be served first: the
  line is asserted up to three cycles late, and bit 7 of the flags may read
  wrong (`overtaken` in `SameLine` and `SameReads`).  The flag of the old chip's
  lost timer B interrupt, 0x100, has no place in the snapshot's byte
  (`ciacore.c:1502`); the action `Snapshot` is guarded against it.
* CIA, `ciatimer.h:427`: `ciat_set_ctrl` does not mask `CIAT_STEP`.  A timer B
  that counts timer A and is stopped by a store in the very cycle of a step
  keeps the bit while it is stopped, for the stretch that `ciat_update` passes
  over at once leaves the bits as they are, and a later start counts an
  underflow too many.  `stepKept` names these stores; the two chips are not
  compared after one.  Without the exception TLC violates `SameChip` with three
  accesses.
* Autostart, `autostart.c:511`: a boot asked for while another is in progress
  takes the warp mode that autostart has turned on for the user's, and warp mode
  stays on (`overlapped` in `WarpGivenBack`; the same for true drive emulation).
* `autostart.c:1026`: a boot that fails before LOAD gives back a
  `orig_drive_true_emulation_state` of the first frame or of an earlier boot
  (the premise of `TdeGivenBack`).  Without virtual devices it stays on.
* `autostart.c:723`: the attention callback survives `autostart_reset`, so that
  a LOAD of the user's may later end in `disk_eof_callback`, which types RUN.
* A LOAD by traps that fails never reaches the EOF callback, and a message that
  comes and goes within a frame leaves `WAITLOADING` for ever, although the
  comment at `autostart.c:926` has "something else is shown -> error!": the boot
  stays in progress and warp mode on until a reset (`BootRuns` is about files
  that are there; `Kernal` shows each message for a frame at least).
* `kbdbuf.c:270`: the alarm types its RETURN without looking for room, which the
  comment at line 342 has the flush do "to not overrun the buffer"
  (`TypingFits` allows the one character when the user has typed).
* Drives: with two drives that skip cycles, catching up one unit may leave
  another's `last_clk` ahead of the clock; the theorem assumes `OnlyFirstSkips`.

## 5. Proofs

| theorem | for every ... | argument |
|---|---|---|
| `AlarmInvariant` | number of alarms and slots, clock width | `TypeOK`, `BackLinksMatch` and `NextIsEarliest` together: each needs the others when an entry is moved |
| `AlarmIsTyped`, `CacheIsEarliest` | same | its parts |
| `AlarmImplementsQueue` | same | `due` is read off the array through the back links |
| `CpuInvariant`, `ClockStaysInBound` | frame, instruction length, devices, width | `CpuInv`: the raster alarm is pending and less than a frame away, so the guard looks in time |
| `ContextIsUsedWell` | same | from `CpuInv`; it is the hypothesis of the theorems about `Alarm` |
| `CpuImplementsIdealClock` | same | every tick plus `epoch`; a trip of the guard is a stutter |
| `StatusIsTyped`, `CountersCountLines` | finite set of sources that restore their lines | type, counts and the IRQ bit, of the status and of the file; finite cardinalities |
| `StatusImplementsLines` | same | sets of holders |
| `NmiIsServedSoon`, `OnlyAskedTraps`, `OnlyDueIrqs` | sources, traps, instruction lengths, guard | `CpuSafe`: an NMI that was passed over waits for nothing at the next check; a released IRQ is visible for three cycles after its line (`IrqLingers`); a sequence that finds no NMI began for an IRQ that was due |
| `CpuIsTyped` | same | `Typed`: with the counts, because the clearing of a line subtracts from them, and while `InBound` holds, because a warp subtracts from the ticks |
| `SyncIsTyped` | drives, idle methods, width | clock bound by the frame |
| `DrivesKeepInStep` | drives of which the skipping ones are the lower units | `Aligned`: during a trip, drives before `unit` count in the new era and the others in the old one |
| `NoDriveWaitsForTheClock` | drives of which the first may skip | `LastClkIsPast` during a trip, drive by drive: catching up the first is over before another has been moved |
| `DriveIsTyped`, `DriveKeepsItsShare`, `DriveStopsOnTime`, `TimerIsNotSkipped`, `DriveNeverOverflows` | clock width, rate, lengths, timer | `DriveInv`: `cycle_accum`, `stop_clk` and what is still to be converted add up to the product with the factor, and keep the clock so far from its end that the guard, which has just looked (`JustLooked`), comes in time |
| `FifoImplementsQueue` | ring size, bytes | `WriterInv`: what is copied lies in free cells, behind what waits; `ReaderInv`: what is copied equals the front of what waits |
| `SuspensionIsAgreed`, `SoundIsTyped` | ring, fragment, write size, SIDs | `SoundInv`: which FIFO steps belong to which task, what is paused in which |
| `SoundKeepsContract` | same | the one resumption in the menu, after a snapshot, meets an empty FIFO (`MenuInv`), so no callback copies there |
| `SoundPlaysInOrder` | same | the last two together |
| `BufferTypesTheText` | texts, sizes, contents of the KERNAL's buffer | `Good`: type; the alarm's RETURN is the head of the queue; there is room for it unless the user has taken it |
| `ReturnIsNext`, `TypingFits` by `AlarmFindsReturn`, `TypedTextFits` | settings, delays, texts, budgets, and whatever the machine does | `Good` again: every function of autostart.c leaves the buffer fit |
| `AutostartIsTyped` | same | type of the machine with the bounds of what a line and a program's text are |
| `AutostartTypesTheText` | same | `AutostartSpec` implements `TypedText` as `KbdBuf` alone does: what the functions of autostart.c do to the queue within one step adds up to a feed, a flush, a typed RETURN, a clearing, or nothing |
| `WarpComesBack`, `TdeComesBack` | same | `WarpHeld`, `TdeHeld`: while nothing overlaps, `orig_warp` is what warp mode was and every way out of the modes in progress passes `DisableWarp` |
| `UpdateIsReplay` | timer, number of cycles | pass by pass: each kind of stretch (`CountingTurn`, `StoppedTurn`, `EveryOtherTurn`, `SingleTurn`) has the effect of as many single cycles; it leaves what `Core` leaves out, see below |
| `AlarmIsNextUnderflow`, `UpdateMeetsAlarm` | same | after four cycles the pipeline is steady (`StagesSuffice`), and a steady timer counts down or rests |
| `CiaIsTyped`, `AlarmsAreRight` | latches, control bytes, masks, programs, clock guard, budgets | `CiaInv`, below |
| `ComparedIsCia` | same | a step beside `IdealCia` is a step of `Cia` |
| `ChipsInStep` | same, until a `stepKept` | `ComparisonInv`, below: each way the chip is brought up to date leaves what it amounts to now |
| `ChipIsTheOther` | same | `SameChip` is `ComparisonInv` of the chip that has been served |
| `ProgramsReadTheSame`, `LinesAreTheSame` | same | the byte read last and the line are parts of it: `SameReads` but for bit 7, `SameLine` but for the tick |

The invariant of the CIA, `CiaInv`, says of each timer (`Held`, `Agreed`) that it
has been brought to a tick that is not in the future; that its pipeline is one
from which the look ahead and the replay agree (`Regular`, and right after an
update `Settled`, which the stores to the latches and the control register
need); that its bits are what the control register allows (`Kept`: without that,
an alarm that is not set because the register says "one shot" or "stopped" could
be one that is needed); that the alarm context knows the alarm; and that the
alarm, if set, is at the next underflow.  Of the chip (`SideA`, `SideB`) it says
that an alarm which an interrupt or timer B waits for is set.  No part holds
alone: an update that finds an alarm due is right only because the alarm stands
at the first underflow, and the alarm stands there after the update only because
of what the control register says.  Each function of `ciacore.c` has a lemma that
it keeps all of it (`IntTBIs`, `AlarmsTBIs`, `IntTAIs`, `UpdateTAIs`,
`WriteMaskIs`, `WriteCRBIs`, `CallbacksIs`, ...), for the loops by induction over
their turns.  The cycles that an instruction still has to make, and what INC
writes back (`WritesBackFlags`), belong to the invariant because a store of a
byte that is not one of flags would not be a mask.

`Core` is what two timers have to have in common to behave alike: counter, latch
and pipeline, without the bit COUNT, which nothing reads but the tests for
steady states, and without a STEP that has no effect because the timer is
stopped or counts anyway. `ciat_update` may leave these two as they were where
counting cycle by cycle would have moved them on.

The invariant of the comparison, `ComparisonInv`, is `CiaInv` and, until a
`stepKept`, `InStep`.  At any moment the emulator's timers stand at two
different ticks in the past, flags are not raised yet, and underflows of timer A
have not been counted by timer B.  `Tracks` says what the other chip has to be
all the same: each timer as the emulator's is after a *ride* to the present tick
(`Core` of the timer counted cycle by cycle; for timer B with a step at each
underflow of timer A still to come, `StepsB`), the flags with those of the
underflows on the way, the line asserted if one of them is enabled.  `Ready` is
what the chip needs for the ride to be the service it will get: no STEP is left
over, the line is up for every flag that is enabled, and no alarm of timer A has
been passed over by a timer B that counts it.  `Halting` (between instructions)
and `Still` (within one) say that a timer that is to be stopped has no alarm
still to come, which would be served for one chip only; `ReadLate` that the
flags are not read in the cycle after an underflow of timer B whose flag the old
chip has lost.

The proof has two halves.  The first shows of every function of `ciacore.c` that
only brings the chip up to date (`IntTA`, `IntTB`, `UpdateTA`, `UpdateTB`, in
any order and however many alarms are due) that what the chip amounts to at the
present tick (`Same`, `GoesA`) is the same before and after; so is it for the
idle update, the guard's callbacks, where all ticks move (`Relocated`), and the
snapshot, whose alarms start anew.  The second shows that once a chip has been
brought to the tick of an access (`Rests`), the access does to both chips the
same thing (`Accessed`), and that a cycle of the CPU is a cycle of `IdealCia`
(`OneTick`).  The order in which two due alarms are served does not matter to
what the chip amounts to, which is why the invariant needs no exception for
`overtaken`; it matters to the tick at which the line is asserted, and to bit 7.

Assumptions are the named ASSUMEs, which TLC evaluates for the runs' constants,
and three hypotheses: the two about the drives named above, and for the CPU that
its clock stays short of its end (`InBound`), which `ClockStaysInBound` shows of
the loop with its guard.  `RoomAssumption` of `DriveClock` is that what a drive
is given between two looks of its guard fits in what the guard keeps in reserve
(`CLKGUARD_SUB_MIN`, 0xfffff, against a frame's cycles); the code meets it but
for the drives of the hazard at `drivecpu.c:246`.

Not proved, only model-checked: the tick in `SameLine`, bit 7 in `SameReads`, and
the liveness properties `WriteEnds` and `BootRuns`.  Of the line it is proved
that it is asserted for both chips or for neither (`LinesAreTheSame`), and of
the bytes read that they differ in bit 7 at most (`ProgramsReadTheSame`).  Tick
and bit depend on the order in which alarms that are due together are served,
which the invariant leaves out on purpose; a proof would have to carry, for both
chips, the first tick at which the line can be seen through every update that is
not an overtaking.
Liveness under fairness and ENABLED are out of TLAPS's reach with the provers
used, and so are the library's induction theorems, which take an operator; where
a proof needs induction over the natural numbers or the existence of a recursive
function it goes through sets (`Inductive`, `OrbitIs` in `CiaTimerProofs`).  No
module has a RECURSIVE operator.

The proofs about the alarm contexts and the CPU clock are in `CpuClockProofs`,
those about the FIFO and its users in `PspSoundProofs`, those about `KbdBuf`
and the composition in `AutostartProofs`; those about the interrupt status and its
server in `InterruptProofs`, those about the drives in `DriveSyncProofs` and
`DriveClockProofs`; a timer by itself is in `CiaTimerProofs`, the chip in
`CiaProofs`.  Every run's module is named MC and the module it checks.

## 6. Not modelled, and what it means

* Opcodes, drawing, samples, disk bits: data.  Instructions take an arbitrary
  time up to the longest.
* `interrupt_fixup_int_clk`, the correction of request ticks while the video
  chip steals cycles: in the models a request is seen at its own tick.
* Monitor, DMA, JAM, drive types, 65C02 drives (the same lines again).
* CIA: the timers' outputs on port B, the clock of the day, the serial register,
  the high bytes of the latches, reset.
* Autostart: programs injected into memory or into a disk image, loading without
  running, the drive's memory restored after a load by traps, the overflow guard
  during the delay, tapes served by traps, the column key of the C128.
* PSP sound: allocation failures, SuspendTime, recording devices, a ring that
  changes its size on reopening (`Size` is fixed), and what the audio hardware
  plays after a partial fragment.
* Whole components, each with its reason in `PROJECT.json`: the event log, flash
  ROM, the drive DOS, the datasette, the fliplist, and those whose state is data
  of the emulated machine.
* Known hazards without a property are in `PROJECT.json` with the reason.

## 7. What could follow

1. `EventLog`: that events come back at the tick they were recorded at, over a
   trip of the guard (`next_alarm_set`); `Flash040`: erase, suspend and resume
   against an abstract chip of sectors; the datasette's motor and flux alarm.
   All three are actors on the alarm context, whose contract is proved.
2. `vdrive` allocation: the BAM against a set of free blocks; the fliplist as a
   ring.
3. Proofs: the tick in `SameLine`, and with it bit 7 in `SameReads`, as an
   addition to `InStep` that holds while no alarm has overtaken another.
