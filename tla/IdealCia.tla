------------------------------- MODULE IdealCia -------------------------------
(***************************************************************************)
(* What a CIA chip does, one cycle of the bus after the other: no alarms,  *)
(* no clock, nothing replayed or skipped.  In every cycle the CPU may read *)
(* or write one register; then both timers count.  This is the chip that   *)
(* module Cia has to be indistinguishable from.                            *)
(***************************************************************************)
EXTENDS CiaBus

CONSTANT ClockMax

Timers == INSTANCE CiaTimer

VARIABLE chip   \* see shown of module Cia

NoInt == -1

(* chip.int_in: cycles until the CPU sees the interrupt line low, or NoInt *)
(* while it is not asserted; chip.age: cycles since the flags were read,   *)
(* at most 2; flag TBB: the flag of timer B reads as 0.                    *)
Old == chip.model = "6526"

(* A flag of timer B that reads as 0 is gone once there is an interrupt.   *)
Resolved(c) == IF c.int_in # NoInt /\ "TBB" \in c.flags
                 THEN [c EXCEPT !.flags = c.flags \ {"TB", "TBB"}] ELSE c

Raised(c, delay) == Resolved(IF c.int_in = NoInt
                               THEN [c EXCEPT !.int_in = delay] ELSE c)

(* Reading the flags clears them and releases the line.  The top bit is    *)
(* the line as the CPU sees it.                                            *)
ReadFlags(c) ==
  LET seen == IF "TBB" \in c.flags THEN c.flags \ {"TB", "TBB"} ELSE c.flags
  IN  [c EXCEPT !.flags = {}, !.int_in = NoInt, !.age = 0,
                !.last_read = Byte(seen \cup Timers!Given(c.int_in = 0, {"IR"}))]

Running(t) == Timers!Given("START" \in t.state, {"START"})

Read(c, reg) ==
  CASE reg = "ICR" -> ReadFlags(c)
    [] reg = "TAL" -> [c EXCEPT !.last_read = Value(c.ta.cnt)]
    [] reg = "TBL" -> [c EXCEPT !.last_read = Value(c.tb.cnt)]
    [] reg = "CRA" -> [c EXCEPT !.last_read = Byte((c.cra \ {"START"})
                                                   \cup Running(c.ta))]
    [] reg = "CRB" -> [c EXCEPT !.last_read = Byte((c.crb \ {"START"})
                                                   \cup Running(c.tb))]

(* Enabling a source whose flag is set asserts the line.                   *)
WriteMask(c, byte) ==
  LET new == MaskAfter(c.mask, byte)
      d   == [c EXCEPT !.mask = new]
  IN  IF new \cap c.flags # {} THEN Raised(d, IF Old THEN 2 ELSE 1) ELSE d

(* In the modes that count timer A, timer B does not count the clock.      *)
InputB(byte) == IF "COUNTTA" \in byte THEN byte \cup {"CNT"} ELSE byte

Write(c, reg, byte) ==
  CASE reg = "ICR" -> WriteMask(c, byte)
    [] reg = "TAL" -> [c EXCEPT !.ta = Timers!WithLatchLo(c.ta, byte)]
    [] reg = "TBL" -> [c EXCEPT !.tb = Timers!WithLatchLo(c.tb, byte)]
    [] reg = "TAH" -> [c EXCEPT !.ta = Timers!WithLatchHi(c.ta)]
    [] reg = "TBH" -> [c EXCEPT !.tb = Timers!WithLatchHi(c.tb)]
    [] reg = "CRA" -> [c EXCEPT !.ta = Timers!WithControl(c.ta, byte),
                                !.cra = byte \ {"FLOAD"},
                                !.tat = IF Starts(byte, c.cra) THEN 1
                                                               ELSE c.tat]
    [] reg = "CRB" -> [c EXCEPT !.tb = Timers!WithControl(c.tb, InputB(byte)),
                                !.crb = byte \ {"FLOAD"},
                                !.tbt = IF Starts(byte, c.crb) THEN 1
                                                               ELSE c.tbt]

(* The access of one cycle.                                                *)
Access(c, a) ==
  CASE a.kind = "none" -> [c EXCEPT !.last_read = Byte({})]
    [] a.kind = "read" -> Read(c, a.reg)
    [] a.kind = "write" -> Write(c, a.reg, a.byte)

-----------------------------------------------------------------------------
(* One cycle of the timers.  Timer B may count the underflows of timer A.  *)
(* On the old chip an underflow of timer B in the cycle after a read of    *)
(* the flags asserts the line but its flag reads as 0, and the line is one *)
(* cycle late; the new chip is late only right after a read.               *)
Count(c) ==
  LET ua   == Timers!Underflows(c.ta) = 1
      ub   == Timers!Underflows(c.tb) = 1
      tb   == Timers!Cycle(c.tb)
      bug  == Old /\ c.age = 0
      set  == Timers!Given(ua, {"TA"}) \cup Timers!Given(ub, {"TB"})
      kept == IF ub THEN c.flags \ {"TBB"} ELSE c.flags
      d    == [c EXCEPT
                !.ta = Timers!Cycle(c.ta),
                !.tb = IF ua /\ {"START", "COUNTTA"} \subseteq c.crb
                         THEN Timers!WithStep(tb) ELSE tb,
                !.tat = IF ua THEN 1 - c.tat ELSE c.tat,
                !.tbt = IF ub THEN 1 - c.tbt ELSE c.tbt,
                !.flags = kept \cup set \cup Timers!Given(ub /\ bug, {"TBB"}),
                !.age = IF c.age < 2 THEN c.age + 1 ELSE 2,
                !.int_in = IF c.int_in > 0 THEN c.int_in - 1 ELSE c.int_in]
  IN  IF set \cap c.mask # {}
        THEN Raised(d, IF Old \/ c.age = 0 THEN 1 ELSE 0)
        ELSE Resolved(d)

(* One cycle of the bus.                                                   *)
IdealCycle(a) == chip' = Count(Access(chip, a))
=============================================================================
