----------------------------- MODULE Interrupt -----------------------------
(***************************************************************************)
(* The interrupt status of a CPU (interrupt.h, interrupt.c): which source  *)
(* holds which line, the number of active lines of each kind, the bits the *)
(* CPU tests before each instruction, and the one slot for a trap.         *)
(* Requests made while a chip steals cycles from the CPU, whose time is    *)
(* corrected by interrupt_fixup_int_clk, and the monitor and DMA bits are  *)
(* left out.                                                               *)
(***************************************************************************)
EXTENDS Integers, FiniteSets

CONSTANTS
  Sources,    \* the interrupt numbers given out by interrupt_cpu_status_int_new
  Traps,      \* the trap functions
  NoTrap,     \* trap_func = NULL
  ClockMax    \* CLOCK_MAX

ASSUME InterruptAssumption ==
  /\ IsFiniteSet(Sources)
  /\ NoTrap \notin Traps
  /\ ClockMax \in Nat \ {0}

Clock == 0..ClockMax
Kinds == {"NMI", "IRQ"}
Bits  == {"NMI", "IRQ", "RESET", "TRAP", "IRQPEND"}

VARIABLES
  pending_int,         \* the lines each source holds
  nirq,                \* Number of active IRQ lines.
  nnmi,                \* Number of active NMI lines.
  global_pending_int,  \* what the CPU tests before each instruction
  irq_clk,             \* Tick when the IRQ was triggered.
  nmi_clk,             \* Tick when the NMI was triggered.
  irq_pending_clk,     \* until then a released IRQ may still be served
  trap_func            \* the function the pending trap will call

lines == <<pending_int, nirq, nnmi>>
clks  == <<irq_clk, nmi_clk, irq_pending_clk>>
vars  == <<lines, global_pending_int, clks, trap_func>>

Holding(kind) == {s \in Sources : kind \in pending_int[s]}

StatusReset == /\ pending_int' = [s \in Sources |-> {}]
               /\ nirq' = 0 /\ nnmi' = 0
               /\ global_pending_int' = {}
               /\ irq_clk' = 0 /\ nmi_clk' = 0
               /\ irq_pending_clk' = ClockMax
               /\ trap_func' = NoTrap

Init == /\ pending_int = [s \in Sources |-> {}]
        /\ nirq = 0 /\ nnmi = 0
        /\ global_pending_int = {}
        /\ irq_clk = 0 /\ nmi_clk = 0
        /\ irq_pending_clk = ClockMax
        /\ trap_func = NoTrap

-----------------------------------------------------------------------------
(* A source that already holds the line is not counted again.              *)
AlreadyHoldsAny(s, kind) == pending_int[s] # {}
AlreadyHolds(s, kind) == kind \in pending_int[s]

Hold(s, kind)    == pending_int' = [pending_int EXCEPT ![s] = @ \cup {kind}]
Release(s, kind) == pending_int' = [pending_int EXCEPT ![s] = @ \ {kind}]

(* interrupt_set_irq(cs, s, 1, t)                                          *)
SetIrq(s, t) ==
  /\ ~AlreadyHolds(s, "IRQ")
  /\ nirq' = nirq + 1
  /\ global_pending_int' = global_pending_int \cup {"IRQ", "IRQPEND"}
  /\ Hold(s, "IRQ")
  /\ irq_pending_clk' = ClockMax
  /\ irq_clk' = t
  /\ UNCHANGED <<nnmi, nmi_clk, trap_func>>

(* interrupt_set_irq(cs, s, 0, t).  The IRQ input goes inactive with the   *)
(* last line; the request outlives it by three cycles (IRQPEND).           *)
LastLineAny == nirq > 0
LastLine == nirq = 1

ClearIrq(s, t) ==
  /\ AlreadyHolds(s, "IRQ")
  /\ nirq > 0
  /\ Release(s, "IRQ")
  /\ nirq' = nirq - 1
  /\ \/ /\ LastLine
        /\ global_pending_int' = global_pending_int \ {"IRQ"}
        /\ irq_pending_clk' = t + 3
     \/ /\ ~LastLine
        /\ UNCHANGED <<global_pending_int, irq_pending_clk>>
  /\ UNCHANGED <<nnmi, irq_clk, nmi_clk, trap_func>>

(* interrupt_set_nmi(cs, s, 1, t): only the first line that becomes active *)
(* makes an edge, and only when the last edge has been served.             *)
NmiEdgeAlways == "NMI" \notin global_pending_int
NmiEdge == nnmi = 0 /\ "NMI" \notin global_pending_int

SetNmi(s, t) ==
  /\ ~AlreadyHolds(s, "NMI")
  /\ \/ /\ NmiEdge
        /\ global_pending_int' = global_pending_int \cup {"NMI"}
        /\ nmi_clk' = t
     \/ ~NmiEdge /\ UNCHANGED <<global_pending_int, nmi_clk>>
  /\ nnmi' = nnmi + 1
  /\ Hold(s, "NMI")
  /\ UNCHANGED <<nirq, irq_clk, irq_pending_clk, trap_func>>

(* interrupt_set_nmi(cs, s, 0, t)                                          *)
ClearNmi(s) ==
  /\ AlreadyHolds(s, "NMI")
  /\ nnmi > 0
  /\ nnmi' = nnmi - 1
  /\ Release(s, "NMI")
  /\ UNCHANGED <<nirq, global_pending_int, clks, trap_func>>

(* interrupt_ack_nmi, interrupt_ack_irq: the CPU serves the request.       *)
AckNmi == /\ global_pending_int' = global_pending_int \ {"NMI"}
          /\ UNCHANGED <<lines, clks, trap_func>>

AckIrq == /\ global_pending_int' = global_pending_int \ {"IRQPEND"}
          /\ irq_pending_clk' = ClockMax
          /\ UNCHANGED <<lines, irq_clk, nmi_clk, trap_func>>

(* interrupt_trigger_reset, interrupt_ack_reset                            *)
TriggerReset == /\ global_pending_int' = global_pending_int \cup {"RESET"}
                /\ UNCHANGED <<lines, clks, trap_func>>

(* interrupt_maincpu_trigger_trap, interrupt_do_trap                       *)
TriggerTrap(f) == /\ global_pending_int' = global_pending_int \cup {"TRAP"}
                  /\ trap_func' = f
                  /\ UNCHANGED <<lines, clks>>

DoTrapKeepsBit == UNCHANGED vars
DoTrap == /\ global_pending_int' = global_pending_int \ {"TRAP"}
          /\ UNCHANGED <<lines, clks, trap_func>>

(* interrupt_cpu_status_time_warp, backwards: all ticks stop at 0.         *)
SoonerNegative(tick, n) == tick - n
Sooner(tick, n) == IF tick > n THEN tick - n ELSE 0

TimeWarpNmiForgotten(n) ==
  /\ irq_clk' = Sooner(irq_clk, n)
  /\ irq_pending_clk' = IF irq_pending_clk < ClockMax THEN Sooner(irq_pending_clk, n)
                        ELSE ClockMax
  /\ UNCHANGED <<lines, nmi_clk, global_pending_int, trap_func>>

TimeWarp(n) ==
  /\ irq_clk' = Sooner(irq_clk, n)
  /\ nmi_clk' = Sooner(nmi_clk, n)
  /\ irq_pending_clk' = IF irq_pending_clk < ClockMax THEN Sooner(irq_pending_clk, n)
                        ELSE ClockMax
  /\ UNCHANGED <<lines, global_pending_int, trap_func>>

Next == \/ \E s \in Sources, t \in 0..(ClockMax - 4) :
             SetIrq(s, t) \/ ClearIrq(s, t) \/ SetNmi(s, t)
        \/ \E s \in Sources : ClearNmi(s)
        \/ AckNmi \/ AckIrq \/ TriggerReset \/ DoTrap \/ StatusReset
        \/ \E f \in Traps : TriggerTrap(f)
        \/ \E n \in Clock : TimeWarp(n)

Spec == Init /\ [][Next]_vars

-----------------------------------------------------------------------------
TypeOK == /\ pending_int \in [Sources -> SUBSET Kinds]
          /\ nirq \in Nat /\ nnmi \in Nat
          /\ global_pending_int \subseteq Bits
          /\ irq_clk \in Clock /\ nmi_clk \in Clock /\ irq_pending_clk \in Clock
          /\ trap_func \in Traps \cup {NoTrap}

(* The counters count the sources that hold a line ("Number of active IRQ  *)
(* lines", "Number of active NMI lines"), so that a line several chips     *)
(* share is released with the last of them.                                *)
ActiveIrqLines == nirq = Cardinality(Holding("IRQ"))
ActiveNmiLines == nnmi = Cardinality(Holding("NMI"))
CountsMatch == ActiveIrqLines /\ ActiveNmiLines

(* The CPU is told of an IRQ exactly while a line is active.               *)
IrqBitMatches == "IRQ" \in global_pending_int <=> nirq > 0
=============================================================================
