----------------------------- MODULE CiaComparison -----------------------------
(***************************************************************************)
(* The chip of the emulator and the chip of module IdealCia on one bus:    *)
(* every cycle of the CPU is a cycle of both, and what the emulator does   *)
(* between two instructions is none of the other's business.               *)
(***************************************************************************)
EXTENDS Cia

VARIABLES
  chip,      \* the other chip
  overtaken, \* an alarm has overtaken the other since the last read of ICR
  stepKept   \* timer B has been stopped in the cycle it was stepped in

Ideal == INSTANCE IdealCia

(* The value that the CPU writes is what the emulator has read.            *)
OnBus(a) == CASE a.kind = "old" -> WriteReg(a.reg, cia.last_read.bits)
              [] a.kind = "new" ->
                   WriteReg(a.reg, Incremented(cia.last_read.bits))
              [] OTHER -> a

(* An update that finds both alarms due may serve the later one first:     *)
(* cia_update_ta and cia_update_tb each bring one timer up to date.        *)
Overtakes == /\ cia.ta.alarmclk <= clk
             /\ cia.tb.alarmclk <= clk
             /\ cia.ta.alarmclk # cia.tb.alarmclk

(* ciat_set_ctrl does not mask CIAT_STEP: a timer that is stopped with the  *)
(* bit set keeps it if the cycles are skipped, and counts it when it is    *)
(* started again.                                                          *)
KeepsStep(a) == /\ a.kind = "write" /\ a.reg = "CRB"
                /\ "START" \notin a.byte
                /\ "STEP" \in chip.tb.state

ComparisonInit == /\ Init
                  /\ chip = shown
                  /\ overtaken = FALSE
                  /\ stepKept = FALSE

ComparedCycle(a) ==
  /\ BusCycle
  /\ Ideal!IdealCycle(OnBus(a))
  /\ overtaken' = \/ a.kind # "none" /\ Overtakes
                  \/ overtaken /\ a # ReadReg("ICR")
  /\ stepKept' = (stepKept \/ KeepsStep(a))

ComparisonNext ==
  \/ ~Boundary /\ ComparedCycle(Head(cycles))
  \/ ClkOverflow /\ overtaken' = (overtaken \/ Overtakes)
                 /\ UNCHANGED <<chip, stepKept>>
  \/ (Dispatch \/ Fetch \/ IdleUpdate \/ Snapshot \/ Done)
     /\ UNCHANGED <<chip, overtaken, stepKept>>

ComparisonSpec ==
  ComparisonInit /\ [][ComparisonNext]_<<vars, chip, overtaken, stepKept>>

(* Replayed late or early, with alarms skipped, across overflows of the    *)
(* clock and snapshots, the chip of the emulator is the one that counts    *)
(* every cycle: the flags and what is enabled are the same, and of the     *)
(* timers the counters, the latches and all that a later cycle depends on. *)
InCore(c) == [c EXCEPT !.ta = Core(@), !.tb = Core(@)]

SameChip == \/ stepKept
            \/ LET s == InCore(shown)
                IN  \A field \in DOMAIN s \ {"int_in", "last_read"} :
                      s[field] = InCore(chip)[field]

(* The interrupt line changes in the same cycle.  After an alarm has       *)
(* overtaken the other it may be asserted late, but never early, and never *)
(* not at all.                                                             *)
SameLine == LET in == shown.int_in
            IN  \/ stepKept
                \/ in = chip.int_in
                \/ overtaken /\ in > chip.int_in /\ chip.int_in >= 0

(* The program reads the same values.  If an alarm has overtaken the other *)
(* bit 7 of the flags may differ.                                          *)
WithoutIR(byte) == [byte EXCEPT !.bits = byte.bits \ {"IR"}]

SameReads ==
  \/ stepKept
  \/ cia.last_read = chip.last_read
  \/ overtaken /\ WithoutIR(cia.last_read) = WithoutIR(chip.last_read)
=============================================================================
