---------------------------- MODULE CpuInterrupts ----------------------------
(***************************************************************************)
(* How the main CPU uses its interrupt status: the checks it makes before  *)
(* each instruction, the interrupt sequence that an NMI may still take     *)
(* over, BRK, traps and resets (6510core.c, maincpu.c), while chips move   *)
(* their lines from alarm callbacks and the overflow guard moves the clock.*)
(***************************************************************************)
EXTENDS Interrupt

CONSTANTS
  IrqSources, NmiSources,  \* which line a chip is wired to
  MaxStep,                 \* the longest instruction
  MaxLate,                 \* how late a callback may report a line
  GuardMax, GuardSub,      \* the overflow guard trips at, and takes away
  Horizon,                 \* bound of the exploration: cycles since power-on
  MaxCalls                 \* bound of the exploration: traps and resets asked for

INTERRUPT_DELAY == 2

ASSUME CpuInterruptsAssumption ==
  /\ IrqSources \cup NmiSources \subseteq Sources
  /\ MaxStep \in Nat /\ MaxLate \in Nat /\ Horizon \in Nat
  /\ MaxCalls \in Nat
  /\ GuardMax \in Nat /\ GuardSub \in Nat
  /\ GuardMax - GuardSub > INTERRUPT_DELAY   \* it leaves CLKGUARD_SUB_MIN

VARIABLES
  clk,      \* maincpu_clk
  at,       \* where the CPU is between two instructions
  ik,       \* the bits the current DO_INTERRUPT was called with
  iflag,    \* the I flag
  last_op,  \* what last_opcode_info says of the last instruction
  epoch,    \* history: cycles the guard has taken from the clock
  asked,    \* history: the traps triggered and not yet called
  irq_low,  \* history: the cycle in which the IRQ input went inactive
  irq_due,  \* history: at the last check an IRQ was due to be served
  passed,   \* history: how many checks a latched NMI has been passed over
  calls     \* history: how many traps and resets were asked for

cpu  == <<clk, at, ik, iflag, last_op>>
hist == <<epoch, asked, irq_low, irq_due, passed, calls>>
cpuVars == <<vars, cpu, hist>>

g == global_pending_int

CpuInit == /\ Init
           /\ clk = 6 /\ at = "alarms" /\ ik = {} /\ iflag = TRUE /\ last_op = "plain"
           /\ epoch = 0 /\ asked = {} /\ irq_low = 0 /\ irq_due = FALSE /\ passed = 0
           /\ calls = 0

Goto(label) == at' = label

-----------------------------------------------------------------------------
(* Alarm callbacks run before the check ("alarms"), before the vector is   *)
(* fetched ("entry", "brk"), and after the check ("late alarms"); a trap   *)
(* function may do what they do.                                           *)
CallbacksRun == at \in {"alarms", "entry", "brk", "late alarms", "trap"}

Late == {t \in (clk - MaxLate)..clk : t >= 0}

LinesMove ==
  /\ CallbacksRun
  /\ \E t \in Late :
       \/ \E s \in NmiSources : (SetNmi(s, t) \/ ClearNmi(s)) /\ UNCHANGED irq_low
       \/ \E s \in IrqSources : SetIrq(s, t) /\ UNCHANGED irq_low
       \/ \E s \in IrqSources : /\ ClearIrq(s, t)
                                /\ irq_low' = IF "IRQ" \in g' THEN irq_low ELSE epoch + t
  /\ UNCHANGED <<cpu, epoch, asked, irq_due, passed, calls>>

MayCall == CallbacksRun /\ calls < MaxCalls /\ calls' = calls + 1

ResetAsked == /\ MayCall
              /\ TriggerReset
              /\ UNCHANGED <<cpu, epoch, asked, irq_low, irq_due, passed>>

TrapAsked(f) == /\ MayCall
                /\ TriggerTrap(f)
                /\ asked' = asked \cup {f}
                /\ UNCHANGED <<cpu, epoch, irq_low, irq_due, passed>>

(* machine_maincpu_clk_overflow_callback                                   *)
Overflow == /\ CallbacksRun /\ at # "trap"
            /\ clk >= GuardMax
            /\ clk' = clk - GuardSub
            /\ epoch' = epoch + GuardSub
            /\ TimeWarp(GuardSub)
            /\ UNCHANGED <<at, ik, iflag, last_op, asked, irq_low, irq_due, passed, calls>>

-----------------------------------------------------------------------------
(* interrupt_check_nmi_delay, interrupt_check_irq_delay                    *)
Branch == IF last_op = "branch" THEN 1 ELSE 0

NmiDelayOver == last_op # "brk" /\ clk >= nmi_clk + INTERRUPT_DELAY + Branch

IrqDelayOver == clk >= irq_clk + INTERRUPT_DELAY + Branch
IrqAllowed == ~iflag \/ last_op = "disables"
IrqIn(bits) == bits \cap {"IRQ", "IRQPEND"} # {}

(* The alarms are done; a released IRQ nobody served in time is forgotten. *)
StaleIrqKept == FALSE
StaleIrq == "IRQ" \notin g /\ "IRQPEND" \in g /\ irq_pending_clk <= clk

ForgetStaleIrq ==
  /\ at = "alarms"
  /\ \/ StaleIrq /\ AckIrq
     \/ ~StaleIrq /\ UNCHANGED vars
  /\ Goto("check")
  /\ UNCHANGED <<clk, ik, iflag, last_op, hist>>

(* What an IRQ needs: the I flag lets it through, and its line is active   *)
(* or was so less than three cycles ago.                                   *)
IrqIsDue == IrqAllowed /\ ("IRQ" \in g \/ epoch + clk < irq_low + 3)

TakesNmi == "NMI" \in g /\ NmiDelayOver
TakesIrq == IrqIn(g) /\ IrqAllowed /\ IrqDelayOver /\ last_op # "enables"

(* DO_INTERRUPT up to the push of the status register.                     *)
BeginInterrupt ==
  /\ at = "check"
  /\ TakesNmi \/ TakesIrq
  /\ ik' = g
  /\ clk' = clk + 5
  /\ iflag' = TRUE
  /\ irq_due' = IrqIsDue
  /\ Goto("entry")
  /\ UNCHANGED <<vars, last_op, epoch, asked, irq_low, passed, calls>>

(* No interrupt; an IRQ that only waits for the instruction after CLI is   *)
(* marked to be looked at again.                                           *)
NoInterrupt ==
  /\ at = "check" /\ g # {}
  /\ ~(TakesNmi \/ TakesIrq)
  /\ ik' = g
  /\ global_pending_int' = IF IrqIn(g) /\ IrqAllowed /\ IrqDelayOver
                           THEN g \cup {"IRQPEND"} ELSE g
  /\ irq_due' = IrqIsDue
  /\ passed' = IF "NMI" \in g THEN passed + 1 ELSE passed
  /\ Goto("special")
  /\ UNCHANGED <<lines, clks, trap_func, clk, iflag, last_op, epoch, asked, irq_low, calls>>

(* The vector is chosen only now: an NMI takes over a started IRQ.         *)
NmiStillReady == "NMI" \in g /\ clk >= nmi_clk + INTERRUPT_DELAY

ServeNmi == /\ at = "entry" /\ NmiStillReady
            /\ AckNmi
            /\ clk' = clk + 2 /\ last_op' = "brk" /\ passed' = 0
            /\ Goto("special")
            /\ UNCHANGED <<ik, iflag, epoch, asked, irq_low, irq_due, calls>>

ServeIrq == /\ at = "entry" /\ ~NmiStillReady
            /\ AckIrq
            /\ clk' = clk + 2 /\ last_op' = "brk"
            /\ Goto("special")
            /\ UNCHANGED <<ik, iflag, hist>>

(* The trap function runs with the TRAP bit already cleared.               *)
BeginTrap == /\ at = "special" /\ "TRAP" \in ik
             /\ DoTrap
             /\ asked' = asked \ {trap_func}
             /\ ik' = ik \ {"TRAP"}
             /\ Goto("trap")
             /\ UNCHANGED <<clk, iflag, last_op, epoch, irq_low, irq_due, passed, calls>>

EndTrap == /\ at = "trap"
           /\ ik' = ik \cup (g \cap {"RESET"})
           /\ Goto("special")
           /\ UNCHANGED <<vars, clk, iflag, last_op, hist>>

(* interrupt_ack_reset, cpu_reset: the interrupt status is cleared, the    *)
(* clock starts again, and what was asked for before is off.               *)
CpuReset == /\ at = "special" /\ "TRAP" \notin ik /\ "RESET" \in ik
            /\ StatusReset
            /\ clk' = 6 /\ epoch' = epoch + clk - 6
            /\ ik' = ik \ {"RESET"}
            /\ asked' = {} /\ passed' = 0
            /\ UNCHANGED <<at, iflag, last_op, irq_low, irq_due, calls>>

(* IRQPEND without an IRQ does not outlive the check.                      *)
EndCheck == /\ at = "special" /\ ik \cap {"TRAP", "RESET"} = {}
            /\ global_pending_int' = IF "IRQ" \notin g THEN g \ {"IRQPEND"} ELSE g
            /\ Goto("late alarms")
            /\ UNCHANGED <<lines, clks, trap_func, clk, ik, iflag, last_op, hist>>

-----------------------------------------------------------------------------
(* The next instruction: what it leaves in last_opcode_info and in the I   *)
(* flag.  A branch delays interrupts if it is taken within a page.         *)
NextInstruction == /\ at = "late alarms" \/ (at = "check" /\ g = {})
                   /\ epoch + clk < Horizon

Execute ==
  /\ NextInstruction
  /\ \E d \in 2..MaxStep :
       /\ clk' = clk + d
       /\ \/ last_op' = "plain" /\ UNCHANGED iflag
          \/ last_op' = "branch" /\ d = 3 /\ UNCHANGED iflag   \* taken, same page
          \/ last_op' = "plain" /\ iflag' \in BOOLEAN          \* RTI
          \/ last_op' = "enables" /\ iflag /\ iflag' = FALSE   \* CLI, PLP
          \/ last_op' = "disables" /\ ~iflag /\ iflag' = TRUE  \* SEI, PLP
  /\ Goto("alarms")
  /\ UNCHANGED <<vars, ik, hist>>

BeginBrk ==
  /\ NextInstruction
  /\ last_op' = "brk"
  /\ clk' = clk + 5
  /\ Goto("brk")
  /\ UNCHANGED <<vars, ik, iflag, hist>>

(* BRK fetches the vector of an interrupt that came up while it ran.       *)
BrkTakesIrq == IrqIn(g) /\ ~iflag /\ clk >= irq_clk + INTERRUPT_DELAY

EndBrk ==
  /\ at = "brk"
  /\ \/ NmiStillReady /\ AckNmi /\ passed' = 0
     \/ ~NmiStillReady /\ BrkTakesIrq /\ AckIrq /\ UNCHANGED passed
     \/ ~NmiStillReady /\ ~BrkTakesIrq /\ UNCHANGED <<vars, passed>>
  /\ iflag' = TRUE
  /\ clk' = clk + 2
  /\ Goto("alarms")
  /\ UNCHANGED <<ik, last_op, epoch, asked, irq_low, irq_due, calls>>

Check == \/ ForgetStaleIrq \/ BeginInterrupt \/ NoInterrupt \/ ServeNmi \/ ServeIrq
         \/ BeginTrap \/ EndTrap \/ CpuReset \/ EndCheck

CpuNext == \/ LinesMove \/ ResetAsked \/ Overflow \/ (\E f \in Traps : TrapAsked(f))
           \/ Check \/ Execute \/ BeginBrk \/ EndBrk

CpuSpec == CpuInit /\ [][CpuNext]_cpuVars

-----------------------------------------------------------------------------
CpuTypeOK == /\ TypeOK
             /\ clk \in Clock /\ epoch \in Nat
             /\ at \in {"alarms", "check", "entry", "brk", "special", "trap", "late alarms"}
             /\ ik \subseteq Bits /\ asked \subseteq Traps
             /\ iflag \in BOOLEAN /\ irq_due \in BOOLEAN /\ irq_low \in Nat
             /\ last_op \in {"plain", "branch", "brk", "enables", "disables"}
             /\ passed \in Nat /\ calls \in 0..MaxCalls

(* An IRQ is served only if it was due at the check that started the       *)
(* sequence: not a request released long ago (IRQPEND), not one that the   *)
(* I flag masks, and not in place of an NMI the sequence was started for.  *)
NoSpuriousIrq == [][ServeIrq => irq_due]_cpuVars

(* The NMI cannot be masked: whatever instructions, BRKs, IRQ sequences and*)
(* overflows follow, the CPU passes a latched NMI over at one check at     *)
(* most.                                                                   *)
NmiServedSoon == passed <= 1

(* A trap function is called only on behalf of somebody who asked for it,  *)
(* never the one of an earlier trap or none.                               *)
TrapIsAsked == "TRAP" \in g => trap_func \in asked

=============================================================================
