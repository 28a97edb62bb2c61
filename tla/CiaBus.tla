-------------------------------- MODULE CiaBus --------------------------------
(***************************************************************************)
(* What a program of the C64 does to a CIA: one access to a register in a  *)
(* cycle of the bus at most, as the instructions of the 6510 make them.    *)
(***************************************************************************)
EXTENDS Integers, Sequences

CONSTANTS
  Models,       \* of "6526" and "6526A"
  Setups,       \* latches, mask and control registers set up at the start
  Latches,      \* values the program writes to the latches later,
  ControlA,     \* to CRA,
  ControlB,     \* to CRB
  WrittenMasks, \* and to ICR
  ReadRegs,     \* registers it reads
  MaxLatch      \* the latches hold 16 bits

(* A byte on the bus: flags or control bits, or a count.                   *)
Byte(b) == [bits |-> b, count |-> 0]
Value(n) == [bits |-> {}, count |-> n]

Sources == {"TA", "TB"}
Flags == Sources \cup {"IR"}
ControlBits == {"START", "CR_ONESHOT", "FLOAD", "CNT", "COUNTTA"}

ASSUME CiaBusAssumption ==
  /\ Models \subseteq {"6526", "6526A"}
  /\ MaxLatch \in Nat /\ Latches \subseteq 0..MaxLatch
  /\ Setups \subseteq [la : 0..MaxLatch, lb : 0..MaxLatch, mask : SUBSET Sources,
                       cra : SUBSET ControlBits, crb : SUBSET ControlBits]
  /\ ControlA \subseteq SUBSET ControlBits /\ ControlB \subseteq SUBSET ControlBits
  /\ WrittenMasks \subseteq SUBSET Flags
  /\ ReadRegs \subseteq {"TAL", "TBL", "CRA", "CRB", "ICR"}

(* A byte written to the mask enables its sources if bit 7 is set.         *)
MaskAfter(mask, byte) == IF "IR" \in byte THEN mask \cup (byte \ {"IR"})
                                          ELSE mask \ byte

(* The new value of INC: only the bits of the timers and bit 7 matter, the *)
(* carry goes to the bit of another source.                                *)
Incremented(b) ==
  (b \cap {"IR"}) \cup CASE b \cap Sources = {} -> {"TA"}
                         [] b \cap Sources = {"TA"} -> {"TB"}
                         [] b \cap Sources = {"TB"} -> {"TA", "TB"}
                         [] OTHER -> {}

(* A start of a timer that was stopped.                                    *)
Starts(byte, old) == "START" \in byte /\ "START" \notin old

-----------------------------------------------------------------------------
NoAccess == [kind |-> "none"]
ReadReg(reg) == [kind |-> "read", reg |-> reg]
WriteReg(reg, byte) == [kind |-> "write", reg |-> reg, byte |-> byte]
WriteOld == [kind |-> "old", reg |-> "ICR"]
WriteNew == [kind |-> "new", reg |-> "ICR"]

Reads == {ReadReg(reg) : reg \in ReadRegs}

Writes == {WriteReg(reg, n) : reg \in {"TAL", "TBL"}, n \in Latches}
          \cup {WriteReg(reg, 0) : reg \in {"TAH", "TBH"}}
          \cup {WriteReg("ICR", b) : b \in WrittenMasks}
          \cup {WriteReg("CRA", b) : b \in ControlA}
          \cup {WriteReg("CRB", b) : b \in ControlB}

Accesses == {NoAccess, ReadReg("ICR"), WriteOld, WriteNew} \cup Reads \cup Writes

(* Instructions as the cycles of the bus they take: LDA and STA with an    *)
(* absolute address, and INC, which writes back what it has read before it *)
(* writes the new value.                                                   *)
Fetches(n) == [i \in 1..n |-> NoAccess]
Increment == Fetches(3) \o <<ReadReg("ICR"), WriteOld, WriteNew>>

Instructions == {Fetches(3) \o <<a>> : a \in Reads \cup Writes}
                \cup {Increment}
IdleInstruction == Fetches(3)
=============================================================================
