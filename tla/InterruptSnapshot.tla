------------------------- MODULE InterruptSnapshot -------------------------
(***************************************************************************)
(* The interrupt status in a snapshot of the machine.  The CPU module      *)
(* stores the counters and the bits; which source holds which line is      *)
(* left to the modules of the chips, which tell the interrupt status when  *)
(* they are read (interrupt_restore_irq, interrupt_restore_nmi).           *)
(***************************************************************************)
EXTENDS Interrupt

CONSTANT Restoring   \* the sources whose chip restores its line

ASSUME SnapshotAssumption == Restoring \subseteq Sources

VARIABLE file   \* the snapshot, {} before the first is written

snapshotVars == <<vars, file>>

SnapshotInit == Init /\ file = {}

Operate == Next /\ UNCHANGED file

(* maincpu_snapshot_write_module and the modules of the chips              *)
Save == /\ file' = {[nirq |-> nirq, nnmi |-> nnmi, bits |-> global_pending_int,
                     irq |-> irq_clk, nmi |-> nmi_clk, pend |-> irq_pending_clk,
                     chips |-> pending_int]}
        /\ UNCHANGED vars

(* interrupt_read_snapshot clears all lines before the chips restore       *)
(* theirs; most of them only tell of a line that is active.                *)
KeepLines(s) == pending_int[s]
ClearLines(s) == {}

Load == \E f \in file :
  /\ nirq' = f.nirq /\ nnmi' = f.nnmi
  /\ global_pending_int' = f.bits
  /\ irq_clk' = f.irq /\ nmi_clk' = f.nmi /\ irq_pending_clk' = f.pend
  /\ pending_int' = [s \in Sources |-> ClearLines(s) \cup
                                       (IF s \in Restoring THEN f.chips[s] ELSE {})]
  /\ UNCHANGED <<trap_func, file>>

SnapshotNext == Operate \/ Save \/ Load

SnapshotSpec == SnapshotInit /\ [][SnapshotNext]_snapshotVars

-----------------------------------------------------------------------------
(* Counters, bits and lines agree (a line several chips share is released  *)
(* with the last of them), and loading a snapshot leaves them so, whatever *)
(* lines were active before and whatever the machine did between the save  *)
(* and the load.                                                           *)
LoadKeepsAgreement == CountsMatch /\ IrqBitMatches

(* Counters, bits and edges together are the wired lines of the machine,   *)
(* and a snapshot brings exactly the saved ones back.                      *)
SavedLines(f) == [irq_lines |-> {s \in Sources : "IRQ" \in f.chips[s]},
                  nmi_lines |-> {s \in Sources : "NMI" \in f.chips[s]},
                  irq |-> "IRQ" \in f.bits, nmi |-> "NMI" \in f.bits]

Lines == INSTANCE InterruptLines WITH
           irq_lines <- Holding("IRQ"), nmi_lines <- Holding("NMI"),
           irq <- "IRQ" \in global_pending_int, nmi <- "NMI" \in global_pending_int,
           saved <- {SavedLines(f) : f \in file}

ImplementsLines == Lines!Spec
=============================================================================
