--------------------------- MODULE InterruptLines ---------------------------
(***************************************************************************)
(* What the interrupt inputs of a 6510 promise to the chips wired to them: *)
(* the IRQ input is active while any chip holds its line (level), the NMI  *)
(* latch is set when the first chip pulls its line while no other holds it *)
(* (edge) and stays set until the CPU serves it.  A snapshot of the        *)
(* machine brings back lines, input and latch as they were saved.          *)
(***************************************************************************)
CONSTANT Sources

VARIABLES
  irq_lines,  \* the chips that hold the IRQ line
  nmi_lines,  \* the chips that hold the NMI line
  irq,        \* what the CPU sees of the IRQ input
  nmi,        \* the NMI latch of the CPU
  saved       \* the snapshot, {} before the first is saved

wires == <<irq_lines, nmi_lines, irq, nmi>>
vars  == <<wires, saved>>

Init == irq_lines = {} /\ nmi_lines = {} /\ irq = FALSE /\ nmi = FALSE /\ saved = {}

SetIrq(s) == /\ irq_lines' = irq_lines \cup {s}
             /\ irq' = TRUE
             /\ UNCHANGED <<nmi_lines, nmi>>

ClearIrq(s) == /\ irq_lines' = irq_lines \ {s}
               /\ irq' = (irq_lines' # {})
               /\ UNCHANGED <<nmi_lines, nmi>>

SetNmi(s) == /\ nmi_lines' = nmi_lines \cup {s}
             /\ nmi' = (nmi \/ nmi_lines = {})
             /\ UNCHANGED <<irq_lines, irq>>

ClearNmi(s) == /\ nmi_lines' = nmi_lines \ {s}
               /\ UNCHANGED <<irq_lines, irq, nmi>>

AckNmi == nmi' = FALSE /\ UNCHANGED <<irq_lines, nmi_lines, irq>>

(* A reset of the machine releases all lines.                              *)
Reset == irq_lines' = {} /\ nmi_lines' = {} /\ irq' = FALSE /\ nmi' = FALSE

Operate == \/ \E s \in Sources : SetIrq(s) \/ ClearIrq(s) \/ SetNmi(s) \/ ClearNmi(s)
           \/ AckNmi \/ Reset

Save == /\ saved' = {[irq_lines |-> irq_lines, nmi_lines |-> nmi_lines,
                      irq |-> irq, nmi |-> nmi]}
        /\ UNCHANGED wires

Load == \E f \in saved : /\ irq_lines' = f.irq_lines /\ nmi_lines' = f.nmi_lines
                         /\ irq' = f.irq /\ nmi' = f.nmi
                         /\ UNCHANGED saved

Next == (Operate /\ UNCHANGED saved) \/ Save \/ Load

Spec == Init /\ [][Next]_vars
=============================================================================
