--------------------------- MODULE InterruptProofs ---------------------------
(***************************************************************************)
(* Proofs about the interrupt status and its snapshot: the counters count  *)
(* the lines, the bits tell of them, and the whole implements the wired    *)
(* lines of InterruptLines, for every set of sources and every width of    *)
(* the clock.  Then the CPU's use of the status: no interrupt is served    *)
(* that is not due, no NMI is passed over twice.                           *)
(***************************************************************************)
EXTENDS InterruptSnapshot, CpuInterrupts, FiniteSetTheorems, TLAPS

Inv == TypeOK /\ CountsMatch /\ IrqBitMatches

-----------------------------------------------------------------------------
(* What pulling a line and releasing it do to the sets of holders.         *)
LEMMA HoldAddsHolder ==
  ASSUME TypeOK, NEW s \in Sources, NEW kind \in Kinds, Hold(s, kind)
  PROVE  /\ pending_int' \in [Sources -> SUBSET Kinds]
         /\ Holding(kind)' = Holding(kind) \cup {s}
         /\ \A k \in Kinds \ {kind} : Holding(k)' = Holding(k)
  BY DEF TypeOK, Hold, Holding

LEMMA ReleaseRemovesHolder ==
  ASSUME TypeOK, NEW s \in Sources, NEW kind \in Kinds, Release(s, kind)
  PROVE  /\ pending_int' \in [Sources -> SUBSET Kinds]
         /\ Holding(kind)' = Holding(kind) \ {s}
         /\ \A k \in Kinds \ {kind} : Holding(k)' = Holding(k)
  BY DEF TypeOK, Release, Holding

(* There are finitely many holders; a counter is 0 only without one, and 1 *)
(* only while there is exactly one.                                        *)
LEMMA HoldersAreFinite ==
  ASSUME NEW kind
  PROVE  IsFiniteSet(Holding(kind))
<1>1. Holding(kind) \subseteq Sources
  BY DEF Holding
<1> QED
  BY <1>1, FS_Subset, InterruptAssumption DEF InterruptAssumption

LEMMA AddCounts ==
  ASSUME NEW S, IsFiniteSet(S), NEW s, s \notin S
  PROVE  /\ IsFiniteSet(S \cup {s})
         /\ Cardinality(S) \in Nat
         /\ Cardinality(S \cup {s}) = Cardinality(S) + 1
  BY FS_AddElement, FS_CardinalityType

LEMMA RemoveCounts ==
  ASSUME NEW S, IsFiniteSet(S), NEW s \in S
  PROVE  /\ IsFiniteSet(S \ {s})
         /\ Cardinality(S) \in Nat
         /\ Cardinality(S \ {s}) \in Nat
         /\ Cardinality(S \ {s}) = Cardinality(S) - 1
  BY FS_RemoveElement, FS_CardinalityType

LEMMA NobodyHolds ==
  ASSUME NEW S, IsFiniteSet(S)
  PROVE  Cardinality(S) = 0 <=> S = {}
  BY FS_EmptySet

LEMMA SoonerIsATick ==
  ASSUME NEW tick \in Clock, NEW n \in Clock
  PROVE  Sooner(tick, n) \in Clock
  BY InterruptAssumption DEF Sooner, Clock, InterruptAssumption

-----------------------------------------------------------------------------
LEMMA InitInv == Init => Inv
<1> SUFFICES ASSUME Init PROVE Inv
  OBVIOUS
<1>1. TypeOK
  BY InterruptAssumption DEF Init, TypeOK, Clock, InterruptAssumption
<1>2. Holding("IRQ") = {} /\ Holding("NMI") = {}
  BY DEF Init, Holding
<1>3. CountsMatch
  BY <1>2, FS_EmptySet DEF Init, CountsMatch, ActiveIrqLines, ActiveNmiLines
<1>4. IrqBitMatches
  BY DEF Init, IrqBitMatches
<1> QED
  BY <1>1, <1>3, <1>4 DEF Inv

(* The type of every part of the state after every operation.              *)
LEMMA TypeStep == Inv /\ [Next]_vars => TypeOK'
<1> SUFFICES ASSUME Inv, [Next]_vars PROVE TypeOK'
  OBVIOUS
<1>a. TypeOK
  BY DEF Inv
<1>0. 0..(ClockMax - 4) \subseteq Clock /\ ClockMax \in Clock /\ 0 \in Clock
  BY InterruptAssumption DEF Clock, InterruptAssumption
<1>1. ASSUME NEW s \in Sources, NEW t \in 0..(ClockMax - 4), SetIrq(s, t)
      PROVE  TypeOK'
  <2>1. pending_int' \in [Sources -> SUBSET Kinds]
    BY <1>1, <1>a, HoldAddsHolder DEF SetIrq, Kinds
  <2> QED
    BY <2>1, <1>0, <1>1, <1>a DEF TypeOK, SetIrq, Bits
<1>2. ASSUME NEW s \in Sources, NEW t \in 0..(ClockMax - 4), ClearIrq(s, t)
      PROVE  TypeOK'
  <2>1. pending_int' \in [Sources -> SUBSET Kinds]
    BY <1>2, <1>a, ReleaseRemovesHolder DEF ClearIrq, Kinds
  <2>2. t + 3 \in Clock
    BY <1>2, InterruptAssumption DEF Clock, InterruptAssumption
  <2>3. nirq' \in Nat /\ global_pending_int' \subseteq Bits /\ irq_pending_clk' \in Clock
    BY <2>2, <1>2, <1>a DEF TypeOK, ClearIrq
  <2> QED
    BY <2>1, <2>3, <1>2, <1>a DEF TypeOK, ClearIrq
<1>3. ASSUME NEW s \in Sources, NEW t \in 0..(ClockMax - 4), SetNmi(s, t)
      PROVE  TypeOK'
  <2>1. pending_int' \in [Sources -> SUBSET Kinds]
    BY <1>3, <1>a, HoldAddsHolder DEF SetNmi, Kinds
  <2>2. global_pending_int' \subseteq Bits /\ nmi_clk' \in Clock
    BY <1>0, <1>3, <1>a DEF TypeOK, SetNmi, Bits
  <2>3. nnmi' \in Nat
    BY <1>3, <1>a DEF TypeOK, SetNmi
  <2> QED
    BY <2>1, <2>2, <2>3, <1>3, <1>a DEF TypeOK, SetNmi
<1>4. ASSUME NEW s \in Sources, ClearNmi(s)
      PROVE  TypeOK'
  <2>1. pending_int' \in [Sources -> SUBSET Kinds]
    BY <1>4, <1>a, ReleaseRemovesHolder DEF ClearNmi, Kinds
  <2> QED
    BY <2>1, <1>4, <1>a DEF TypeOK, ClearNmi, clks
<1>5. CASE AckNmi
  BY <1>5, <1>a DEF TypeOK, AckNmi, lines, clks
<1>6. CASE AckIrq
  BY <1>6, <1>0, <1>a DEF TypeOK, AckIrq, lines
<1>7. CASE TriggerReset
  BY <1>7, <1>a DEF TypeOK, TriggerReset, lines, clks, Bits
<1>8. CASE DoTrap
  BY <1>8, <1>a DEF TypeOK, DoTrap, lines, clks
<1>9. CASE StatusReset
  BY <1>9, <1>0, <1>a DEF TypeOK, StatusReset
<1>10. ASSUME NEW f \in Traps, TriggerTrap(f)
       PROVE  TypeOK'
  BY <1>10, <1>a DEF TypeOK, TriggerTrap, lines, clks, Bits
<1>11. ASSUME NEW n \in Clock, TimeWarp(n)
       PROVE  TypeOK'
  <2>1. irq_clk' \in Clock /\ nmi_clk' \in Clock /\ irq_pending_clk' \in Clock
    BY <1>11, <1>0, <1>a, SoonerIsATick DEF TypeOK, TimeWarp
  <2> QED
    BY <2>1, <1>11, <1>a DEF TypeOK, TimeWarp, lines
<1>12. CASE UNCHANGED vars
  BY <1>12, <1>a DEF TypeOK, vars, lines, clks
<1> QED
  BY <1>1, <1>2, <1>3, <1>4, <1>5, <1>6, <1>7, <1>8, <1>9, <1>10, <1>11, <1>12 DEF Next

-----------------------------------------------------------------------------
(* The counters and the IRQ bit.  The sources of a kind change only with   *)
(* the counter of that kind.                                               *)
LEMMA CountStep == Inv /\ [Next]_vars => CountsMatch' /\ IrqBitMatches'
<1> SUFFICES ASSUME Inv, [Next]_vars PROVE CountsMatch' /\ IrqBitMatches'
  OBVIOUS
<1>a. TypeOK /\ CountsMatch /\ IrqBitMatches
  BY DEF Inv
<1>b. nirq \in Nat /\ nnmi \in Nat
  BY <1>a DEF TypeOK
<1>c. nirq = Cardinality(Holding("IRQ")) /\ nnmi = Cardinality(Holding("NMI"))
  BY <1>a DEF CountsMatch, ActiveIrqLines, ActiveNmiLines
<1>d. "IRQ" \in global_pending_int <=> nirq > 0
  BY <1>a DEF IrqBitMatches
<1>e. IsFiniteSet(Holding("IRQ")) /\ IsFiniteSet(Holding("NMI"))
  BY HoldersAreFinite
<1> USE DEF Kinds
<1>1. ASSUME NEW s \in Sources, NEW t \in 0..(ClockMax - 4), SetIrq(s, t)
      PROVE  CountsMatch' /\ IrqBitMatches'
  <2>1. Holding("IRQ")' = Holding("IRQ") \cup {s} /\ Holding("NMI")' = Holding("NMI")
    BY <1>1, <1>a, HoldAddsHolder DEF SetIrq
  <2>2. s \notin Holding("IRQ")
    BY <1>1 DEF SetIrq, AlreadyHolds, Holding
  <2>3. Cardinality(Holding("IRQ") \cup {s}) = Cardinality(Holding("IRQ")) + 1
    BY <2>2, <1>e, AddCounts
  <2>4. nirq' = Cardinality(Holding("IRQ")') /\ nnmi' = Cardinality(Holding("NMI")')
    BY <2>1, <2>3, <1>1, <1>c DEF SetIrq
  <2>5. nirq' > 0 /\ "IRQ" \in global_pending_int'
    BY <1>1, <1>b DEF SetIrq
  <2> QED
    BY <2>4, <2>5 DEF CountsMatch, ActiveIrqLines, ActiveNmiLines, IrqBitMatches
<1>2. ASSUME NEW s \in Sources, NEW t \in 0..(ClockMax - 4), ClearIrq(s, t)
      PROVE  CountsMatch' /\ IrqBitMatches'
  <2>1. Holding("IRQ")' = Holding("IRQ") \ {s} /\ Holding("NMI")' = Holding("NMI")
    BY <1>2, <1>a, ReleaseRemovesHolder DEF ClearIrq
  <2>2. s \in Holding("IRQ")
    BY <1>2 DEF ClearIrq, AlreadyHolds, Holding
  <2>3. Cardinality(Holding("IRQ") \ {s}) = Cardinality(Holding("IRQ")) - 1
    BY <2>2, <1>e, RemoveCounts
  <2>4. nirq' = Cardinality(Holding("IRQ")') /\ nnmi' = Cardinality(Holding("NMI")')
    BY <2>1, <2>3, <1>2, <1>c DEF ClearIrq
  <2>5. "IRQ" \in global_pending_int' <=> nirq' > 0
    <3>1. CASE nirq = 1
      BY <3>1, <1>2 DEF ClearIrq, LastLine
    <3>2. CASE nirq # 1
      <4>1. UNCHANGED global_pending_int /\ nirq' = nirq - 1 /\ nirq > 0
        BY <3>2, <1>2 DEF ClearIrq, LastLine
      <4>2. nirq' > 0
        BY <4>1, <3>2, <1>b
      <4> QED
        BY <4>1, <4>2, <1>d
    <3> QED
      BY <3>1, <3>2
  <2> QED
    BY <2>4, <2>5 DEF CountsMatch, ActiveIrqLines, ActiveNmiLines, IrqBitMatches
<1>3. ASSUME NEW s \in Sources, NEW t \in 0..(ClockMax - 4), SetNmi(s, t)
      PROVE  CountsMatch' /\ IrqBitMatches'
  <2>1. Holding("NMI")' = Holding("NMI") \cup {s} /\ Holding("IRQ")' = Holding("IRQ")
    BY <1>3, <1>a, HoldAddsHolder DEF SetNmi
  <2>2. s \notin Holding("NMI")
    BY <1>3 DEF SetNmi, AlreadyHolds, Holding
  <2>3. Cardinality(Holding("NMI") \cup {s}) = Cardinality(Holding("NMI")) + 1
    BY <2>2, <1>e, AddCounts
  <2>4. nirq' = Cardinality(Holding("IRQ")') /\ nnmi' = Cardinality(Holding("NMI")')
    BY <2>1, <2>3, <1>3, <1>c DEF SetNmi
  <2>5. nirq' = nirq /\ ("IRQ" \in global_pending_int' <=> "IRQ" \in global_pending_int)
    BY <1>3 DEF SetNmi
  <2> QED
    BY <2>4, <2>5, <1>d DEF CountsMatch, ActiveIrqLines, ActiveNmiLines, IrqBitMatches
<1>4. ASSUME NEW s \in Sources, ClearNmi(s)
      PROVE  CountsMatch' /\ IrqBitMatches'
  <2>1. Holding("NMI")' = Holding("NMI") \ {s} /\ Holding("IRQ")' = Holding("IRQ")
    BY <1>4, <1>a, ReleaseRemovesHolder DEF ClearNmi
  <2>2. s \in Holding("NMI")
    BY <1>4 DEF ClearNmi, AlreadyHolds, Holding
  <2>3. Cardinality(Holding("NMI") \ {s}) = Cardinality(Holding("NMI")) - 1
    BY <2>2, <1>e, RemoveCounts
  <2>4. nirq' = Cardinality(Holding("IRQ")') /\ nnmi' = Cardinality(Holding("NMI")')
    BY <2>1, <2>3, <1>4, <1>c DEF ClearNmi
  <2> QED
    BY <2>4, <1>4, <1>d DEF ClearNmi, CountsMatch, ActiveIrqLines, ActiveNmiLines,
                            IrqBitMatches
<1>5. CASE StatusReset
  <2>1. Holding("IRQ")' = {} /\ Holding("NMI")' = {}
    BY <1>5 DEF StatusReset, Holding
  <2>2. nirq' = 0 /\ nnmi' = 0 /\ "IRQ" \notin global_pending_int'
    BY <1>5 DEF StatusReset
  <2> QED
    BY <2>1, <2>2, FS_EmptySet DEF CountsMatch, ActiveIrqLines, ActiveNmiLines, IrqBitMatches
<1>6. ASSUME UNCHANGED lines,
             "IRQ" \in global_pending_int' <=> "IRQ" \in global_pending_int
      PROVE  CountsMatch' /\ IrqBitMatches'
  <2>1. Holding("IRQ")' = Holding("IRQ") /\ Holding("NMI")' = Holding("NMI")
    BY <1>6 DEF lines, Holding
  <2> QED
    BY <2>1, <1>6, <1>c, <1>d DEF lines, CountsMatch, ActiveIrqLines, ActiveNmiLines,
                                  IrqBitMatches
<1>7. CASE AckNmi \/ AckIrq \/ TriggerReset \/ DoTrap
  BY <1>6, <1>7 DEF AckNmi, AckIrq, TriggerReset, DoTrap
<1>8. ASSUME NEW f \in Traps, TriggerTrap(f)
      PROVE  CountsMatch' /\ IrqBitMatches'
  BY <1>6, <1>8 DEF TriggerTrap
<1>9. ASSUME NEW n \in Clock, TimeWarp(n)
      PROVE  CountsMatch' /\ IrqBitMatches'
  BY <1>6, <1>9 DEF TimeWarp, lines
<1>10. CASE UNCHANGED vars
  BY <1>6, <1>10 DEF vars
<1> QED
  BY <1>1, <1>2, <1>3, <1>4, <1>5, <1>7, <1>8, <1>9, <1>10 DEF Next

LEMMA InvStep == Inv /\ [Next]_vars => Inv'
  BY TypeStep, CountStep DEF Inv

-----------------------------------------------------------------------------
(* What a snapshot holds agrees with itself, as the status it was made of. *)
File == [nirq : Nat, nnmi : Nat, bits : SUBSET Bits, irq : Clock, nmi : Clock,
         pend : Clock, chips : [Sources -> SUBSET Kinds]]

Held(f, kind) == {s \in Sources : kind \in f.chips[s]}

FileAgrees(f) == /\ f.nirq = Cardinality(Held(f, "IRQ"))
                 /\ f.nnmi = Cardinality(Held(f, "NMI"))
                 /\ ("IRQ" \in f.bits <=> f.nirq > 0)

FileTyped == \A f \in file : f \in File
FileInv == \A f \in file : FileAgrees(f)

SaveRecord == [nirq |-> nirq, nnmi |-> nnmi, bits |-> global_pending_int,
               irq |-> irq_clk, nmi |-> nmi_clk, pend |-> irq_pending_clk,
               chips |-> pending_int]

LEMMA SaveIsTyped == TypeOK => SaveRecord \in File
  BY DEF TypeOK, SaveRecord, File

LEMMA SaveAgrees == Inv => FileAgrees(SaveRecord)
  BY DEF Inv, FileAgrees, SaveRecord, Held, Holding, CountsMatch, ActiveIrqLines,
         ActiveNmiLines, IrqBitMatches

LEMMA FileStep ==
  TypeOK /\ FileTyped /\ [SnapshotNext]_snapshotVars => FileTyped'
<1> SUFFICES ASSUME TypeOK, FileTyped, [SnapshotNext]_snapshotVars PROVE FileTyped'
  OBVIOUS
<1>1. CASE Save
  <2>1. file' = {SaveRecord}
    BY <1>1 DEF Save, SaveRecord
  <2> QED
    BY <2>1, SaveIsTyped DEF FileTyped
<1>2. CASE UNCHANGED file
  BY <1>2 DEF FileTyped
<1> QED
  BY <1>1, <1>2 DEF SnapshotNext, snapshotVars, Operate, Load

LEMMA FileAgreesStep ==
  Inv /\ FileInv /\ [SnapshotNext]_snapshotVars => FileInv'
<1> SUFFICES ASSUME Inv, FileInv, [SnapshotNext]_snapshotVars PROVE FileInv'
  OBVIOUS
<1>1. CASE Save
  <2>1. file' = {SaveRecord}
    BY <1>1 DEF Save, SaveRecord
  <2>2. \A f : FileAgrees(f)' <=> FileAgrees(f)
    OBVIOUS
  <2> QED
    BY <2>1, <2>2, SaveAgrees DEF FileInv, FileAgrees, Held
<1>2. CASE UNCHANGED file
  BY <1>2 DEF FileInv, FileAgrees, Held
<1> QED
  BY <1>1, <1>2 DEF SnapshotNext, snapshotVars, Operate, Load

(* Loading keeps every type, even where chips do not restore their lines.  *)
LEMMA LoadTypes == FileTyped /\ Load => /\ pending_int' \in [Sources -> SUBSET Kinds]
                                       /\ nirq' \in Nat /\ nnmi' \in Nat
                                       /\ global_pending_int' \subseteq Bits
                                       /\ irq_clk' \in Clock /\ nmi_clk' \in Clock
                                       /\ irq_pending_clk' \in Clock
<1> SUFFICES ASSUME FileTyped, NEW f \in file,
                    nirq' = f.nirq, nnmi' = f.nnmi, global_pending_int' = f.bits,
                    irq_clk' = f.irq, nmi_clk' = f.nmi, irq_pending_clk' = f.pend,
                    pending_int' = [s \in Sources |-> ClearLines(s) \cup
                                     (IF s \in Restoring THEN f.chips[s] ELSE {})]
             PROVE  /\ pending_int' \in [Sources -> SUBSET Kinds]
                    /\ nirq' \in Nat /\ nnmi' \in Nat
                    /\ global_pending_int' \subseteq Bits
                    /\ irq_clk' \in Clock /\ nmi_clk' \in Clock
                    /\ irq_pending_clk' \in Clock
  BY DEF Load
<1>1. f \in File
  BY DEF FileTyped
<1>2. \A s \in Sources : f.chips[s] \subseteq Kinds
  BY <1>1 DEF File
<1> QED
  BY <1>1, <1>2 DEF File, ClearLines

LEMMA SnapshotTypeStep ==
  TypeOK /\ FileTyped /\ Load => TypeOK'
  BY LoadTypes DEF TypeOK, Load

(* Where all chips restore their lines, the holders are those of the file. *)
LEMMA LoadRestores ==
  ASSUME Restoring = Sources, FileTyped, NEW f \in file,
         pending_int' = [s \in Sources |-> ClearLines(s) \cup
                          (IF s \in Restoring THEN f.chips[s] ELSE {})]
  PROVE  Holding("IRQ")' = Held(f, "IRQ") /\ Holding("NMI")' = Held(f, "NMI")
  BY DEF ClearLines, Holding, Held

LEMMA LoadAgrees ==
  ASSUME Restoring = Sources, FileTyped, FileInv, Load
  PROVE  CountsMatch' /\ IrqBitMatches'
<1>1. PICK f \in file : /\ nirq' = f.nirq /\ nnmi' = f.nnmi
                        /\ global_pending_int' = f.bits
                        /\ pending_int' = [s \in Sources |-> ClearLines(s) \cup
                                            (IF s \in Restoring THEN f.chips[s] ELSE {})]
  BY DEF Load
<1>2. Holding("IRQ")' = Held(f, "IRQ") /\ Holding("NMI")' = Held(f, "NMI")
  BY <1>1, LoadRestores
<1>3. FileAgrees(f)
  BY DEF FileInv
<1> QED
  BY <1>1, <1>2, <1>3 DEF FileAgrees, CountsMatch, ActiveIrqLines, ActiveNmiLines,
                          IrqBitMatches

-----------------------------------------------------------------------------
SnapshotInv == Inv /\ FileTyped /\ FileInv

LEMMA SnapshotInitInv == SnapshotInit => SnapshotInv
  BY InitInv DEF SnapshotInit, SnapshotInv, FileTyped, FileInv

LEMMA SnapshotInvStep ==
  ASSUME Restoring = Sources
  PROVE  SnapshotInv /\ [SnapshotNext]_snapshotVars => SnapshotInv'
<1> SUFFICES ASSUME SnapshotInv, [SnapshotNext]_snapshotVars PROVE SnapshotInv'
  OBVIOUS
<1>1. FileTyped' /\ FileInv'
  BY FileStep, FileAgreesStep DEF SnapshotInv, Inv
<1>2. CASE [Next]_vars
  BY <1>1, <1>2, InvStep DEF SnapshotInv
<1>3. CASE Load
  BY <1>1, <1>3, SnapshotTypeStep, LoadAgrees DEF SnapshotInv, Inv
<1> QED
  BY <1>2, <1>3 DEF SnapshotNext, snapshotVars, Operate, Save

LEMMA SnapshotSpecInv ==
  ASSUME Restoring = Sources
  PROVE  SnapshotSpec => []SnapshotInv
  BY SnapshotInitInv, SnapshotInvStep, PTL DEF SnapshotSpec

(* Every variable of the interrupt status keeps its type: the warp of the  *)
(* clock, which subtracts from every tick, makes none negative.            *)
THEOREM StatusIsTyped ==
  ASSUME Restoring = Sources
  PROVE  SnapshotSpec => []TypeOK
<1>1. SnapshotInv => TypeOK
  BY DEF SnapshotInv, Inv
<1> QED
  BY <1>1, SnapshotSpecInv, PTL

(* In every reachable state nirq and nnmi are the numbers of sources that  *)
(* hold the line, and the CPU's IRQ bit tells of them, after a load as     *)
(* well, if every chip restores its line.                                  *)
THEOREM CountersCountLines ==
  ASSUME Restoring = Sources
  PROVE  SnapshotSpec => []LoadKeepsAgreement
<1>1. SnapshotInv => LoadKeepsAgreement
  BY DEF SnapshotInv, Inv, LoadKeepsAgreement
<1> QED
  BY <1>1, SnapshotSpecInv, PTL

-----------------------------------------------------------------------------
(* Every operation is one of the wired lines, or leaves them alone.        *)
LEMMA LinesInit == SnapshotInit => Lines!Init
  BY DEF SnapshotInit, Init, Lines!Init, Holding

LEMMA LinesStep == Inv /\ [Next]_vars => Lines!Operate \/ UNCHANGED Lines!wires
<1> SUFFICES ASSUME Inv, [Next]_vars PROVE Lines!Operate \/ UNCHANGED Lines!wires
  OBVIOUS
<1>a. TypeOK /\ nirq \in Nat /\ nnmi \in Nat
  BY DEF Inv, TypeOK
<1>b. IrqBitMatches' /\ CountsMatch'
  BY CountStep
<1>c. nirq' = Cardinality(Holding("IRQ")') /\ nnmi = Cardinality(Holding("NMI"))
  BY <1>b DEF Inv, CountsMatch, ActiveIrqLines, ActiveNmiLines
<1>d. IsFiniteSet(Holding("IRQ")') /\ IsFiniteSet(Holding("NMI"))
  <2>1. Holding("IRQ")' \subseteq Sources
    BY DEF Holding
  <2> QED
    BY <2>1, HoldersAreFinite, FS_Subset, InterruptAssumption DEF InterruptAssumption
<1> USE DEF Kinds
<1>1. ASSUME NEW s \in Sources, NEW t \in 0..(ClockMax - 4), SetIrq(s, t)
      PROVE  Lines!SetIrq(s)
  <2>1. Holding("IRQ")' = Holding("IRQ") \cup {s} /\ Holding("NMI")' = Holding("NMI")
    BY <1>1, <1>a, HoldAddsHolder DEF SetIrq
  <2> QED
    BY <2>1, <1>1 DEF SetIrq, Lines!SetIrq
<1>2. ASSUME NEW s \in Sources, NEW t \in 0..(ClockMax - 4), ClearIrq(s, t)
      PROVE  Lines!ClearIrq(s)
  <2>1. Holding("IRQ")' = Holding("IRQ") \ {s} /\ Holding("NMI")' = Holding("NMI")
    BY <1>2, <1>a, ReleaseRemovesHolder DEF ClearIrq
  <2>2. Holding("IRQ")' = {} <=> nirq' = 0
    BY <1>c, <1>d, NobodyHolds
  <2>3. nirq' \in Nat
    BY <1>2, <1>a DEF ClearIrq
  <2>4. "IRQ" \in global_pending_int' <=> Holding("IRQ")' # {}
    BY <2>2, <2>3, <1>b DEF IrqBitMatches
  <2>5. "NMI" \in global_pending_int' <=> "NMI" \in global_pending_int
    BY <1>2 DEF ClearIrq
  <2> QED
    BY <2>1, <2>4, <2>5 DEF Lines!ClearIrq
<1>3. ASSUME NEW s \in Sources, NEW t \in 0..(ClockMax - 4), SetNmi(s, t)
      PROVE  Lines!SetNmi(s)
  <2>1. Holding("NMI")' = Holding("NMI") \cup {s} /\ Holding("IRQ")' = Holding("IRQ")
    BY <1>3, <1>a, HoldAddsHolder DEF SetNmi
  <2>2. Holding("NMI") = {} <=> nnmi = 0
    BY <1>c, <1>d, NobodyHolds
  <2>3. "IRQ" \in global_pending_int' <=> "IRQ" \in global_pending_int
    BY <1>3 DEF SetNmi
  <2>4. "NMI" \in global_pending_int' <=>
          ("NMI" \in global_pending_int \/ Holding("NMI") = {})
    BY <2>2, <1>3 DEF SetNmi, NmiEdge
  <2> QED
    BY <2>1, <2>3, <2>4 DEF Lines!SetNmi
<1>4. ASSUME NEW s \in Sources, ClearNmi(s)
      PROVE  Lines!ClearNmi(s)
  <2>1. Holding("NMI")' = Holding("NMI") \ {s} /\ Holding("IRQ")' = Holding("IRQ")
    BY <1>4, <1>a, ReleaseRemovesHolder DEF ClearNmi
  <2> QED
    BY <2>1, <1>4 DEF ClearNmi, Lines!ClearNmi
<1>5. ASSUME UNCHANGED lines
      PROVE  Holding("IRQ")' = Holding("IRQ") /\ Holding("NMI")' = Holding("NMI")
  BY <1>5 DEF lines, Holding
<1>6. CASE AckNmi
  BY <1>5, <1>6 DEF AckNmi, Lines!Operate, Lines!AckNmi
<1>7. CASE StatusReset
  <2>1. Holding("IRQ")' = {} /\ Holding("NMI")' = {}
    BY <1>7 DEF StatusReset, Holding
  <2> QED
    BY <2>1, <1>7 DEF StatusReset, Lines!Operate, Lines!Reset
<1>8. ASSUME UNCHANGED lines, global_pending_int' \ {"IRQPEND", "RESET", "TRAP"}
                              = global_pending_int \ {"IRQPEND", "RESET", "TRAP"}
      PROVE  UNCHANGED Lines!wires
  BY <1>5, <1>8 DEF Lines!wires
<1>9. CASE AckIrq \/ TriggerReset \/ DoTrap
  BY <1>8, <1>9 DEF AckIrq, TriggerReset, DoTrap
<1>10. ASSUME NEW f \in Traps, TriggerTrap(f)
       PROVE  UNCHANGED Lines!wires
  BY <1>8, <1>10 DEF TriggerTrap
<1>11. ASSUME NEW n \in Clock, TimeWarp(n)
       PROVE  UNCHANGED Lines!wires
  BY <1>8, <1>11 DEF TimeWarp, lines
<1>12. CASE UNCHANGED vars
  BY <1>8, <1>12 DEF vars
<1> QED
  BY <1>1, <1>2, <1>3, <1>4, <1>6, <1>7, <1>9, <1>10, <1>11, <1>12
     DEF Next, Lines!Operate

(* A snapshot is one of the lines and the latch, and is loaded as one.     *)
LEMMA SaveIsLines == Save => Lines!Save
<1> SUFFICES ASSUME Save PROVE Lines!Save
  OBVIOUS
<1>1. file' = {SaveRecord} /\ UNCHANGED vars
  BY DEF Save, SaveRecord
<1>2. SavedLines(SaveRecord) = [irq_lines |-> Holding("IRQ"), nmi_lines |-> Holding("NMI"),
                               irq |-> "IRQ" \in global_pending_int,
                               nmi |-> "NMI" \in global_pending_int]
  BY DEF SavedLines, SaveRecord, Holding
<1>3. {SavedLines(f) : f \in file'} = {SavedLines(SaveRecord)}
  BY <1>1
<1>4. UNCHANGED Lines!wires
  BY <1>1 DEF Lines!wires, vars, lines, Holding
<1> QED
  BY <1>2, <1>3, <1>4 DEF Lines!Save, SavedLines

LEMMA LoadIsLines ==
  ASSUME Restoring = Sources, FileTyped, Load
  PROVE  Lines!Load
<1>1. PICK f \in file : /\ global_pending_int' = f.bits
                        /\ pending_int' = [s \in Sources |-> ClearLines(s) \cup
                                            (IF s \in Restoring THEN f.chips[s] ELSE {})]
  BY DEF Load
<1>2. Holding("IRQ")' = Held(f, "IRQ") /\ Holding("NMI")' = Held(f, "NMI")
  BY <1>1, LoadRestores
<1>3. /\ Holding("IRQ")' = SavedLines(f).irq_lines
      /\ Holding("NMI")' = SavedLines(f).nmi_lines
      /\ ("IRQ" \in global_pending_int)' = SavedLines(f).irq
      /\ ("NMI" \in global_pending_int)' = SavedLines(f).nmi
  BY <1>1, <1>2 DEF SavedLines, Held
<1>4. {SavedLines(e) : e \in file}' = {SavedLines(e) : e \in file}
  BY DEF Load, SavedLines
<1> QED
  BY <1>3, <1>4 DEF Lines!Load

LEMMA SnapshotLinesStep ==
  ASSUME Restoring = Sources
  PROVE  SnapshotInv /\ [SnapshotNext]_snapshotVars => [Lines!Next]_Lines!vars
<1> SUFFICES ASSUME SnapshotInv, [SnapshotNext]_snapshotVars
             PROVE  [Lines!Next]_Lines!vars
  OBVIOUS
<1>1. CASE [Next]_vars /\ UNCHANGED file
  <2>1. Lines!Operate \/ UNCHANGED Lines!wires
    BY <1>1, LinesStep DEF SnapshotInv
  <2>2. {SavedLines(f) : f \in file}' = {SavedLines(f) : f \in file}
    BY <1>1 DEF SavedLines
  <2> QED
    BY <2>1, <2>2 DEF Lines!Next, Lines!vars
<1>2. CASE Save
  BY <1>2, SaveIsLines DEF Lines!Next
<1>3. CASE Load
  BY <1>3, LoadIsLines DEF Lines!Next, SnapshotInv
<1> QED
  BY <1>1, <1>2, <1>3 DEF SnapshotNext, snapshotVars, Operate

(* Counters, bits and the edge test together are the wired lines: the IRQ  *)
(* input is active exactly while a chip holds its line, and an NMI is      *)
(* latched exactly when the first chip pulls its line; a snapshot brings   *)
(* back both as they were.                                                 *)
THEOREM StatusImplementsLines ==
  ASSUME Restoring = Sources
  PROVE  SnapshotSpec => ImplementsLines
  BY LinesInit, SnapshotLinesStep, SnapshotSpecInv, PTL
     DEF SnapshotSpec, ImplementsLines, Lines!Spec

-----------------------------------------------------------------------------
(* How the CPU uses the status.  The clock is in its bound, which the      *)
(* overflow guard sees to (ClockStaysInBound of CpuClockProofs).           *)
InBound == clk + 3 < ClockMax

CpuTicks == /\ clk \in Nat /\ epoch \in Int /\ irq_low \in Int
            /\ nmi_clk \in Nat /\ nmi_clk <= clk
            /\ irq_pending_clk \in 0..ClockMax
            /\ irq_low <= epoch + clk
            /\ nirq \in Nat /\ passed \in Nat

(* An NMI that has been passed over waits for nothing at the next check;   *)
(* a BRK on the way there takes it.                                        *)
NmiWaits ==
  /\ passed <= 1
  /\ passed = 1 => /\ "NMI" \in g
                   /\ at \in {"alarms", "check"} => NmiDelayOver
                   /\ at = "brk" => clk >= nmi_clk + INTERRUPT_DELAY

(* A released IRQ is visible for three cycles after the line, and is       *)
(* forgotten before the check.                                             *)
Lingers == "IRQ" \notin g /\ "IRQPEND" \in g

IrqLingers ==
  /\ Lingers /\ clk < irq_pending_clk => epoch + irq_pending_clk <= irq_low + 3
  /\ Lingers /\ at = "check" => clk < irq_pending_clk

(* A sequence that does not find an NMI serves an IRQ that was due.        *)
EntryIsDue == at = "entry" => irq_due \/ NmiStillReady

CpuSafe == /\ CpuTicks /\ IrqBitMatches /\ TrapIsAsked
           /\ NmiWaits /\ IrqLingers /\ EntryIsDue

LEMMA CpuInitSafe == CpuInit => CpuSafe
<1> SUFFICES ASSUME CpuInit PROVE CpuSafe
  OBVIOUS
<1>1. CpuTicks
  BY InterruptAssumption DEF CpuInit, Init, CpuTicks, InterruptAssumption
<1>2. IrqBitMatches /\ TrapIsAsked /\ NmiWaits /\ IrqLingers /\ EntryIsDue
  BY DEF CpuInit, Init, IrqBitMatches, TrapIsAsked, NmiWaits, IrqLingers, Lingers,
         EntryIsDue, g
<1> QED
  BY <1>1, <1>2 DEF CpuSafe

(* A chip moves its line.                                                  *)
LEMMA SetIrqSafe ==
  ASSUME CpuSafe, NEW s \in Sources, NEW t \in Nat, SetIrq(s, t),
         UNCHANGED <<cpu, epoch, asked, irq_due, passed, irq_low>>
  PROVE  CpuSafe'
<1>1. /\ g' = g \cup {"IRQ", "IRQPEND"} /\ nirq' = nirq + 1 /\ irq_pending_clk' = ClockMax
      /\ UNCHANGED <<nmi_clk, trap_func, clk, at, last_op, epoch, asked, irq_due, passed, irq_low>>
  BY DEF SetIrq, cpu, g
<1>2. CpuTicks'
  BY <1>1, InterruptAssumption DEF CpuSafe, CpuTicks, InterruptAssumption
<1>3. IrqBitMatches'
  BY <1>1 DEF CpuSafe, CpuTicks, IrqBitMatches, g
<1>4. TrapIsAsked' /\ NmiWaits' /\ EntryIsDue'
  BY <1>1 DEF CpuSafe, TrapIsAsked, NmiWaits, NmiDelayOver, Branch, EntryIsDue, NmiStillReady
<1>5. IrqLingers'
  BY <1>1 DEF IrqLingers, Lingers
<1> QED
  BY <1>2, <1>3, <1>4, <1>5 DEF CpuSafe

LEMMA ClearIrqSafe ==
  ASSUME CpuSafe, InBound, NEW s \in Sources, NEW t \in Nat, t <= clk, ClearIrq(s, t),
         irq_low' = IF "IRQ" \in g' THEN irq_low ELSE epoch + t,
         at # "check", UNCHANGED <<cpu, epoch, asked, irq_due, passed>>
  PROVE  CpuSafe'
<1>1. /\ nirq > 0 /\ nirq' = nirq - 1
      /\ UNCHANGED <<nmi_clk, trap_func, clk, at, last_op, epoch, asked, irq_due, passed>>
  BY DEF ClearIrq, cpu
<1>2. "IRQ" \in g /\ nirq \in Nat
  BY <1>1 DEF CpuSafe, CpuTicks, IrqBitMatches, g
<1>3. CASE nirq = 1
  <2>1. g' = g \ {"IRQ"} /\ irq_pending_clk' = t + 3 /\ irq_low' = epoch + t /\ nirq' = 0
    BY <1>3, <1>1 DEF ClearIrq, LastLine, g
  <2>2. CpuTicks'
    <3>1. t + 3 \in 0..ClockMax /\ epoch + t \in Int /\ epoch + t <= epoch + clk
      BY InterruptAssumption DEF CpuSafe, CpuTicks, InBound, InterruptAssumption
    <3> QED
      BY <3>1, <2>1, <1>1 DEF CpuSafe, CpuTicks
  <2>3. IrqBitMatches'
    BY <2>1 DEF IrqBitMatches, g
  <2>4. TrapIsAsked' /\ NmiWaits' /\ EntryIsDue'
    BY <2>1, <1>1 DEF CpuSafe, TrapIsAsked, NmiWaits, NmiDelayOver, Branch, EntryIsDue,
                      NmiStillReady
  <2>5. IrqLingers'
    <3>1. epoch + (t + 3) <= (epoch + t) + 3
      BY DEF CpuSafe, CpuTicks
    <3> QED
      BY <2>1, <1>1, <3>1 DEF IrqLingers
  <2> QED
    BY <2>2, <2>3, <2>4, <2>5 DEF CpuSafe
<1>4. CASE nirq # 1
  <2>1. UNCHANGED <<g, irq_pending_clk, irq_low>> /\ nirq' \in Nat /\ nirq' > 0
    BY <1>4, <1>1, <1>2 DEF ClearIrq, LastLine, g
  <2> QED
    BY <2>1, <1>1, <1>2
       DEF CpuSafe, CpuTicks, IrqBitMatches, TrapIsAsked, NmiWaits, NmiDelayOver, Branch,
           IrqLingers, Lingers, EntryIsDue, NmiStillReady, g
<1> QED
  BY <1>3, <1>4

LEMMA SetNmiSafe ==
  ASSUME CpuSafe, NEW s \in Sources, NEW t \in Nat, t <= clk, SetNmi(s, t),
         UNCHANGED <<cpu, epoch, asked, irq_due, passed, irq_low>>
  PROVE  CpuSafe'
<1>1. UNCHANGED <<nirq, irq_pending_clk, trap_func, clk, at, last_op, epoch, asked,
                  irq_due, passed, irq_low>>
  BY DEF SetNmi, cpu
<1>2. CASE NmiEdge
  <2>1. g' = g \cup {"NMI"} /\ nmi_clk' = t /\ "NMI" \notin g
    BY <1>2 DEF SetNmi, NmiEdge, g
  <2> QED
    BY <2>1, <1>1
       DEF CpuSafe, CpuTicks, IrqBitMatches, TrapIsAsked, NmiWaits, IrqLingers, Lingers,
           EntryIsDue, NmiStillReady, g
<1>3. CASE ~NmiEdge
  <2>1. UNCHANGED <<g, nmi_clk>>
    BY <1>3 DEF SetNmi, g
  <2> QED
    BY <2>1, <1>1
       DEF CpuSafe, CpuTicks, IrqBitMatches, TrapIsAsked, NmiWaits, NmiDelayOver, Branch,
           IrqLingers, Lingers, EntryIsDue, NmiStillReady, g
<1> QED
  BY <1>2, <1>3

LEMMA LinesMoveSafe == CpuSafe /\ InBound /\ LinesMove => CpuSafe'
<1> SUFFICES ASSUME CpuSafe, InBound, CallbacksRun, NEW t \in Late,
                    \/ \E s \in NmiSources : (SetNmi(s, t) \/ ClearNmi(s)) /\ UNCHANGED irq_low
                    \/ \E s \in IrqSources : SetIrq(s, t) /\ UNCHANGED irq_low
                    \/ \E s \in IrqSources :
                         /\ ClearIrq(s, t)
                         /\ irq_low' = IF "IRQ" \in g' THEN irq_low ELSE epoch + t,
                    UNCHANGED <<cpu, epoch, asked, irq_due, passed, calls>>
             PROVE  CpuSafe'
  BY DEF LinesMove
<1>1. t \in Nat /\ t <= clk
  BY CpuInterruptsAssumption DEF Late, CpuSafe, CpuTicks, CpuInterruptsAssumption
<1>2. IrqSources \subseteq Sources /\ NmiSources \subseteq Sources
  BY CpuInterruptsAssumption DEF CpuInterruptsAssumption
<1>3. at # "check"
  BY DEF CallbacksRun
<1>4. ASSUME NEW s \in NmiSources, SetNmi(s, t), UNCHANGED irq_low PROVE CpuSafe'
  BY <1>1, <1>2, <1>4, SetNmiSafe
<1>5. ASSUME NEW s \in NmiSources, ClearNmi(s), UNCHANGED irq_low PROVE CpuSafe'
  BY <1>5 DEF ClearNmi, cpu, clks, CpuSafe, CpuTicks, IrqBitMatches, TrapIsAsked, NmiWaits,
              NmiDelayOver, Branch, IrqLingers, Lingers, EntryIsDue, NmiStillReady, g
<1>6. ASSUME NEW s \in IrqSources, SetIrq(s, t), UNCHANGED irq_low PROVE CpuSafe'
  BY <1>1, <1>2, <1>6, SetIrqSafe
<1>7. ASSUME NEW s \in IrqSources, ClearIrq(s, t),
             irq_low' = IF "IRQ" \in g' THEN irq_low ELSE epoch + t
      PROVE  CpuSafe'
  BY <1>1, <1>2, <1>3, <1>7, ClearIrqSafe
<1> QED
  BY <1>4, <1>5, <1>6, <1>7

(* Resets and traps are asked for.                                         *)
LEMMA CallsSafe ==
  ASSUME CpuSafe
  PROVE  /\ ResetAsked => CpuSafe'
         /\ \A f \in Traps : TrapAsked(f) => CpuSafe'
<1>1. ASSUME g' \in {g \cup {"RESET"}, g \cup {"TRAP"}}, TrapIsAsked',
             UNCHANGED <<cpu, epoch, irq_low, irq_due, passed, lines, clks>>
      PROVE  CpuSafe'
  <2>1. /\ "NMI" \in g' <=> "NMI" \in g
        /\ "IRQ" \in g' <=> "IRQ" \in g
        /\ "IRQPEND" \in g' <=> "IRQPEND" \in g
    BY <1>1
  <2> QED
    BY <1>1, <2>1
       DEF cpu, lines, clks, CpuSafe, CpuTicks, IrqBitMatches, NmiWaits, NmiDelayOver, Branch,
           IrqLingers, Lingers, EntryIsDue, NmiStillReady, g
<1>2. CASE ResetAsked
  BY <1>1, <1>2 DEF ResetAsked, TriggerReset, CpuSafe, TrapIsAsked, g
<1>3. ASSUME NEW f \in Traps, TrapAsked(f) PROVE CpuSafe'
  BY <1>1, <1>3 DEF TrapAsked, TriggerTrap, TrapIsAsked, g
<1> QED
  BY <1>2, <1>3

(* The guard takes the same from the clock and from every tick, and what   *)
(* it leaves is longer than any delay.                                     *)
LEMMA WarpKeepsDelay ==
  ASSUME NEW now \in Nat, now >= GuardMax, NEW tick \in Nat, tick <= now
  PROVE  /\ now - GuardSub \in Nat
         /\ Sooner(tick, GuardSub) \in Nat
         /\ Sooner(tick, GuardSub) <= now - GuardSub
         /\ \A n \in 0..1 : now >= tick + INTERRUPT_DELAY + n
                              => now - GuardSub >= Sooner(tick, GuardSub) + INTERRUPT_DELAY + n
  BY CpuInterruptsAssumption DEF CpuInterruptsAssumption, INTERRUPT_DELAY, Sooner

LEMMA OverflowSafe == CpuSafe /\ InBound /\ Overflow => CpuSafe'
<1> SUFFICES ASSUME CpuSafe, InBound, Overflow PROVE CpuSafe'
  OBVIOUS
<1> DEFINE now == clk - GuardSub
           nmi == Sooner(nmi_clk, GuardSub)
           gone == IF irq_pending_clk < ClockMax
                   THEN Sooner(irq_pending_clk, GuardSub) ELSE ClockMax
<1>1. /\ clk >= GuardMax /\ clk' = now /\ epoch' = epoch + GuardSub
      /\ nmi_clk' = nmi /\ at # "check" /\ irq_pending_clk' = gone
      /\ UNCHANGED <<nirq, global_pending_int, trap_func, at, last_op, asked, irq_low,
                     irq_due, passed>>
  BY DEF Overflow, TimeWarp, CallbacksRun, lines
<1>2. /\ GuardMax \in Nat /\ GuardSub \in Nat /\ ClockMax \in Nat
      /\ clk \in Nat /\ nmi_clk \in Nat /\ nmi_clk <= clk /\ epoch \in Int /\ irq_low \in Int
      /\ irq_pending_clk \in 0..ClockMax /\ irq_low <= epoch + clk
  BY CpuInterruptsAssumption, InterruptAssumption
     DEF CpuInterruptsAssumption, InterruptAssumption, CpuSafe, CpuTicks
<1>3. /\ now \in Nat /\ nmi \in Nat /\ nmi <= now
      /\ \A n \in 0..1 : clk >= nmi_clk + INTERRUPT_DELAY + n => now >= nmi + INTERRUPT_DELAY + n
  BY <1>1, <1>2, WarpKeepsDelay
<1>4. gone \in 0..ClockMax /\ epoch + GuardSub \in Int /\ irq_low <= (epoch + GuardSub) + now
  BY <1>2 DEF Sooner
<1>5. CpuTicks'
  <2> HIDE DEF now, nmi, gone
  <2> QED
    BY <1>1, <1>3, <1>4 DEF CpuSafe, CpuTicks
<1>6. IrqBitMatches' /\ TrapIsAsked'
  BY <1>1 DEF CpuSafe, IrqBitMatches, TrapIsAsked, g
<1>7. Branch \in 0..1 /\ Branch' = Branch
  BY <1>1 DEF Branch
<1>8. NmiDelayOver => NmiDelayOver'
  <2> HIDE DEF now, nmi, gone
  <2>1. clk >= nmi_clk + INTERRUPT_DELAY + Branch => now >= nmi + INTERRUPT_DELAY + Branch
    BY <1>3, <1>7
  <2> QED
    BY <2>1, <1>1, <1>7 DEF NmiDelayOver
<1>9. clk >= nmi_clk + INTERRUPT_DELAY => clk' >= nmi_clk' + INTERRUPT_DELAY
  <2> HIDE DEF now, nmi, gone
  <2>1. clk >= nmi_clk + INTERRUPT_DELAY => now >= nmi + INTERRUPT_DELAY
    BY <1>2, <1>3 DEF INTERRUPT_DELAY
  <2> QED
    BY <2>1, <1>1
<1>10. NmiWaits' /\ EntryIsDue'
  BY <1>1, <1>8, <1>9 DEF CpuSafe, NmiWaits, EntryIsDue, NmiStillReady, g
<1>11. IrqLingers'
  <2>1. Lingers' => Lingers
    BY <1>1 DEF Lingers, g
  <2>2. Lingers /\ now < gone => (epoch + GuardSub) + gone <= irq_low + 3
    BY <1>2, <1>3 DEF Sooner, CpuSafe, IrqLingers, InBound
  <2> HIDE DEF now, nmi, gone
  <2> QED
    BY <2>1, <2>2, <1>1 DEF IrqLingers
<1> QED
  BY <1>5, <1>6, <1>10, <1>11 DEF CpuSafe

-----------------------------------------------------------------------------
(* The check.  The first step forgets a released IRQ nobody has taken.     *)
LEMMA ForgetSafe == CpuSafe /\ ForgetStaleIrq => CpuSafe'
<1> SUFFICES ASSUME CpuSafe, ForgetStaleIrq PROVE CpuSafe'
  OBVIOUS
<1>1. /\ at = "alarms" /\ at' = "check"
      /\ UNCHANGED <<nirq, nmi_clk, trap_func, clk, last_op, epoch, asked, irq_low, irq_due,
                     passed>>
  BY DEF ForgetStaleIrq, Goto, hist, AckIrq, lines, vars, clks
<1>2. CASE StaleIrq /\ AckIrq
  <2>1. g' = g \ {"IRQPEND"} /\ irq_pending_clk' = ClockMax
    BY <1>2 DEF AckIrq, g
  <2> QED
    BY <1>1, <2>1, InterruptAssumption
       DEF CpuSafe, CpuTicks, IrqBitMatches, TrapIsAsked, NmiWaits, NmiDelayOver, Branch,
           IrqLingers, Lingers, EntryIsDue, InterruptAssumption, g
<1>3. CASE ~StaleIrq /\ UNCHANGED vars
  <2>1. UNCHANGED <<g, irq_pending_clk>>
    BY <1>3 DEF vars, clks, g
  <2>2. Lingers => clk < irq_pending_clk
    BY <1>3 DEF StaleIrq, Lingers, CpuSafe, CpuTicks
  <2> QED
    BY <1>1, <2>1, <2>2
       DEF CpuSafe, CpuTicks, IrqBitMatches, TrapIsAsked, NmiWaits, NmiDelayOver, Branch,
           IrqLingers, Lingers, EntryIsDue, g
<1> QED
  BY <1>2, <1>3 DEF ForgetStaleIrq

(* What the clock does to the ticks as it runs on.                         *)
LEMMA TicksRunOn ==
  ASSUME CpuTicks, NEW d \in Nat, clk' = clk + d,
         UNCHANGED <<nmi_clk, irq_pending_clk, nirq, epoch, irq_low>>, passed' \in Nat
  PROVE  CpuTicks'
<1>1. /\ clk + d \in Nat /\ nmi_clk <= clk + d /\ irq_low <= epoch + (clk + d)
  BY DEF CpuTicks
<1> QED
  BY <1>1 DEF CpuTicks

LEMMA LingersOn ==
  ASSUME CpuTicks, IrqLingers, NEW d \in Nat, clk' = clk + d, at' # "check",
         UNCHANGED <<irq_pending_clk, epoch, irq_low>>, Lingers' => Lingers
  PROVE  IrqLingers'
<1>1. \A tick \in 0..ClockMax : clk + d < tick => clk < tick
  BY DEF CpuTicks
<1>2. irq_pending_clk \in 0..ClockMax
  BY DEF CpuTicks
<1>3. clk + d < irq_pending_clk => clk < irq_pending_clk
  BY <1>1, <1>2
<1> QED
  BY <1>3 DEF IrqLingers

(* A sequence begins for an NMI, which then stays ready, or for an IRQ     *)
(* that is due.                                                            *)
LEMMA BeginSafe == CpuSafe /\ BeginInterrupt => CpuSafe'
<1> SUFFICES ASSUME CpuSafe, BeginInterrupt PROVE CpuSafe'
  OBVIOUS
<1>1. /\ at = "check" /\ at' = "entry" /\ clk' = clk + 5 /\ irq_due' = IrqIsDue
      /\ UNCHANGED <<nirq, nmi_clk, irq_pending_clk, g, trap_func, last_op, epoch, asked,
                     irq_low, passed>>
  BY DEF BeginInterrupt, Goto, vars, clks, lines, g
<1>2. CpuTicks'
  BY <1>1, TicksRunOn DEF CpuSafe, CpuTicks
<1>3. IrqBitMatches' /\ TrapIsAsked' /\ NmiWaits'
  BY <1>1 DEF CpuSafe, IrqBitMatches, TrapIsAsked, NmiWaits, g
<1>4. IrqLingers'
  BY <1>1, LingersOn DEF CpuSafe, Lingers
<1>5. EntryIsDue'
  <2>1. CASE TakesNmi
    <3>1. clk + 5 >= nmi_clk + INTERRUPT_DELAY
      BY DEF CpuSafe, CpuTicks, INTERRUPT_DELAY
    <3> QED
      BY <2>1, <3>1, <1>1 DEF TakesNmi, EntryIsDue, NmiStillReady
  <2>2. CASE TakesIrq
    <3>1. "IRQ" \in g \/ epoch + clk < irq_low + 3
      <4>1. CASE Lingers
        BY <4>1, <1>1 DEF CpuSafe, CpuTicks, IrqLingers
      <4> QED
        BY <4>1, <2>2 DEF TakesIrq, IrqIn, Lingers
    <3> QED
      BY <3>1, <2>2, <1>1 DEF TakesIrq, IrqIsDue, EntryIsDue
  <2> QED
    BY <2>1, <2>2 DEF BeginInterrupt
<1> QED
  BY <1>2, <1>3, <1>4, <1>5 DEF CpuSafe

(* Only an NMI that has not been passed over can be passed over.           *)
LEMMA NoInterruptSafe == CpuSafe /\ NoInterrupt => CpuSafe'
<1> SUFFICES ASSUME CpuSafe, NoInterrupt PROVE CpuSafe'
  OBVIOUS
<1>1. /\ at = "check" /\ at' = "special"
      /\ g' = g \/ (g' = g \cup {"IRQPEND"} /\ IrqIn(g))
      /\ passed' = (IF "NMI" \in g THEN passed + 1 ELSE passed)
      /\ UNCHANGED <<nirq, nmi_clk, irq_pending_clk, trap_func, clk, last_op, epoch, asked,
                     irq_low>>
  BY DEF NoInterrupt, Goto, clks, lines, g
<1>2. /\ "NMI" \in g' <=> "NMI" \in g
      /\ "IRQ" \in g' <=> "IRQ" \in g
      /\ "TRAP" \in g' <=> "TRAP" \in g
      /\ Lingers' => Lingers
  BY <1>1 DEF IrqIn, Lingers
<1>3. passed = 0
  BY <1>1 DEF CpuSafe, CpuTicks, NmiWaits, NoInterrupt, TakesNmi
<1>4. passed' \in Nat /\ passed' <= 1 /\ (passed' = 1 => "NMI" \in g')
  BY <1>1, <1>2, <1>3
<1>5. CpuTicks' /\ NmiWaits'
  BY <1>1, <1>4 DEF CpuSafe, CpuTicks, NmiWaits
<1>6. IrqBitMatches' /\ TrapIsAsked' /\ EntryIsDue' /\ IrqLingers'
  BY <1>1, <1>2 DEF CpuSafe, IrqBitMatches, TrapIsAsked, EntryIsDue, IrqLingers, g
<1> QED
  BY <1>5, <1>6 DEF CpuSafe

LEMMA ServeSafe == CpuSafe /\ (ServeNmi \/ ServeIrq) => CpuSafe'
<1> SUFFICES ASSUME CpuSafe, ServeNmi \/ ServeIrq PROVE CpuSafe'
  OBVIOUS
<1>1. /\ at' = "special" /\ clk' = clk + 2
      /\ UNCHANGED <<nirq, nmi_clk, trap_func, epoch, asked, irq_low>>
  BY DEF ServeNmi, ServeIrq, AckNmi, AckIrq, Goto, hist, lines, clks
<1>2. CASE ServeNmi
  <2>1. g' = g \ {"NMI"} /\ passed' = 0 /\ UNCHANGED irq_pending_clk
    BY <1>2 DEF ServeNmi, AckNmi, clks, g
  <2>2. CpuTicks'
    BY <1>1, <2>1, TicksRunOn DEF CpuSafe
  <2>3. IrqLingers'
    BY <1>1, <2>1, LingersOn DEF CpuSafe, Lingers
  <2> QED
    BY <1>1, <2>1, <2>2, <2>3
       DEF CpuSafe, IrqBitMatches, TrapIsAsked, NmiWaits, EntryIsDue, g
<1>3. CASE ServeIrq
  <2>1. g' = g \ {"IRQPEND"} /\ irq_pending_clk' = ClockMax /\ UNCHANGED passed
    BY <1>3 DEF ServeIrq, AckIrq, hist, g
  <2>2. CpuTicks'
    <3>1. clk + 2 \in Nat /\ nmi_clk <= clk + 2 /\ irq_low <= epoch + (clk + 2)
          /\ ClockMax \in 0..ClockMax
      BY InterruptAssumption DEF CpuSafe, CpuTicks, InterruptAssumption
    <3> QED
      BY <3>1, <1>1, <2>1 DEF CpuSafe, CpuTicks
  <2> QED
    BY <1>1, <2>1, <2>2
       DEF CpuSafe, IrqBitMatches, TrapIsAsked, NmiWaits, IrqLingers, Lingers, EntryIsDue, g
<1> QED
  BY <1>2, <1>3

(* Traps, the reset of the CPU, and the end of the check.                  *)
LEMMA SpecialSafe == CpuSafe /\ (BeginTrap \/ EndTrap \/ EndCheck) => CpuSafe'
<1> SUFFICES ASSUME CpuSafe, BeginTrap \/ EndTrap \/ EndCheck PROVE CpuSafe'
  OBVIOUS
<1>1. /\ at' \in {"trap", "special", "late alarms"}
      /\ g' \in {g, g \ {"TRAP"}} \/ g' = g \ {"IRQPEND"}
      /\ "TRAP" \in g' => "TRAP" \in g /\ asked' = asked
      /\ UNCHANGED <<nirq, nmi_clk, irq_pending_clk, trap_func, clk, last_op, epoch, irq_low,
                     passed>>
  BY DEF BeginTrap, EndTrap, EndCheck, DoTrap, Goto, hist, lines, clks, vars, g
<1>2. /\ "NMI" \in g' <=> "NMI" \in g
      /\ "IRQ" \in g' <=> "IRQ" \in g
      /\ Lingers' => Lingers
  BY <1>1 DEF Lingers
<1> QED
  BY <1>1, <1>2
     DEF CpuSafe, CpuTicks, IrqBitMatches, TrapIsAsked, NmiWaits, IrqLingers, EntryIsDue, g

LEMMA CpuResetSafe == CpuSafe /\ CpuReset => CpuSafe'
<1> SUFFICES ASSUME CpuSafe, CpuReset PROVE CpuSafe'
  OBVIOUS
<1>1. /\ at' = "special" /\ clk' = 6 /\ epoch' = epoch + clk - 6
      /\ g' = {} /\ nirq' = 0 /\ nmi_clk' = 0 /\ irq_pending_clk' = ClockMax /\ passed' = 0
      /\ UNCHANGED irq_low
  BY DEF CpuReset, StatusReset, g
<1>2. /\ epoch + clk - 6 \in Int /\ irq_low <= (epoch + clk - 6) + 6 /\ irq_low \in Int
      /\ ClockMax \in 0..ClockMax
  BY InterruptAssumption DEF CpuSafe, CpuTicks, InterruptAssumption
<1>3. CpuTicks'
  BY <1>1, <1>2 DEF CpuTicks
<1>4. IrqBitMatches' /\ TrapIsAsked' /\ NmiWaits' /\ IrqLingers' /\ EntryIsDue'
  BY <1>1 DEF IrqBitMatches, TrapIsAsked, NmiWaits, IrqLingers, Lingers, EntryIsDue, g
<1> QED
  BY <1>3, <1>4 DEF CpuSafe

-----------------------------------------------------------------------------
(* An instruction is long enough to end the delay of an NMI; BRK leaves    *)
(* none behind.                                                            *)
LEMMA ExecuteSafe == CpuSafe /\ Execute => CpuSafe'
<1> SUFFICES ASSUME CpuSafe, Execute PROVE CpuSafe'
  OBVIOUS
<1>0. PICK d \in 2..MaxStep :
        /\ clk' = clk + d
        /\ \/ last_op' = "branch" /\ d = 3
           \/ last_op' \in {"plain", "enables", "disables"}
  BY DEF Execute
<1>1. /\ at' = "alarms"
      /\ UNCHANGED <<nirq, nmi_clk, irq_pending_clk, g, trap_func, epoch, asked, irq_low,
                     irq_due, passed>>
  BY DEF Execute, Goto, vars, lines, clks, hist, g
<1>2. d \in Nat /\ d >= 2
  BY CpuInterruptsAssumption DEF CpuInterruptsAssumption
<1>3. CpuTicks'
  BY <1>0, <1>1, <1>2, TicksRunOn DEF CpuSafe, CpuTicks
<1>4. IrqLingers'
  BY <1>0, <1>1, <1>2, LingersOn DEF CpuSafe, Lingers
<1>5. NmiDelayOver'
  <2>1. last_op' # "brk" /\ (Branch' = 0 \/ (Branch' = 1 /\ d = 3))
    BY <1>0 DEF Branch
  <2>2. clk + d >= nmi_clk + INTERRUPT_DELAY + 0
        /\ (d = 3 => clk + d >= nmi_clk + INTERRUPT_DELAY + 1)
    BY <1>2 DEF CpuSafe, CpuTicks, INTERRUPT_DELAY
  <2> QED
    BY <2>1, <2>2, <1>0, <1>1 DEF NmiDelayOver
<1> QED
  BY <1>1, <1>3, <1>4, <1>5
     DEF CpuSafe, IrqBitMatches, TrapIsAsked, NmiWaits, EntryIsDue, g

LEMMA BeginBrkSafe == CpuSafe /\ BeginBrk => CpuSafe'
<1> SUFFICES ASSUME CpuSafe, BeginBrk PROVE CpuSafe'
  OBVIOUS
<1>1. /\ clk' = clk + 5 /\ at' = "brk"
      /\ UNCHANGED <<nirq, nmi_clk, irq_pending_clk, g, trap_func, epoch, asked, irq_low,
                     irq_due, passed>>
  BY DEF BeginBrk, Goto, vars, lines, clks, hist, g
<1>2. CpuTicks'
  BY <1>1, TicksRunOn DEF CpuSafe, CpuTicks
<1>3. IrqLingers'
  BY <1>1, LingersOn DEF CpuSafe, Lingers
<1>4. clk + 5 >= nmi_clk + INTERRUPT_DELAY
  BY DEF CpuSafe, CpuTicks, INTERRUPT_DELAY
<1> QED
  BY <1>1, <1>2, <1>3, <1>4
     DEF CpuSafe, IrqBitMatches, TrapIsAsked, NmiWaits, EntryIsDue, g

LEMMA EndBrkSafe == CpuSafe /\ EndBrk => CpuSafe'
<1> SUFFICES ASSUME CpuSafe, EndBrk PROVE CpuSafe'
  OBVIOUS
<1>1. /\ clk' = clk + 2 /\ at = "brk" /\ at' = "alarms"
      /\ UNCHANGED <<nirq, nmi_clk, trap_func, epoch, asked, irq_low, irq_due>>
  BY DEF EndBrk, Goto, AckNmi, AckIrq, vars, lines, clks
<1>2. /\ g' \in {g, g \ {"NMI"}, g \ {"IRQPEND"}} /\ passed' \in {0, passed}
      /\ irq_pending_clk' \in {irq_pending_clk, ClockMax}
      /\ irq_pending_clk' = irq_pending_clk \/ g' = g \ {"IRQPEND"}
  BY DEF EndBrk, AckNmi, AckIrq, vars, clks, g
<1>3. /\ "IRQ" \in g' <=> "IRQ" \in g
      /\ "TRAP" \in g' <=> "TRAP" \in g
      /\ Lingers' => Lingers /\ irq_pending_clk' = irq_pending_clk
  BY <1>2 DEF Lingers
<1>4. passed' = 0
  BY <1>1 DEF EndBrk, NmiStillReady, CpuSafe, CpuTicks, NmiWaits
<1>5. CpuTicks'
  <2>1. clk + 2 \in Nat /\ nmi_clk <= clk + 2 /\ irq_low <= epoch + (clk + 2)
        /\ ClockMax \in 0..ClockMax
    BY InterruptAssumption DEF CpuSafe, CpuTicks, InterruptAssumption
  <2> QED
    BY <2>1, <1>1, <1>2, <1>4 DEF CpuSafe, CpuTicks
<1>6. IrqLingers'
  <2>1. CASE irq_pending_clk' = irq_pending_clk
    BY <2>1, <1>1, <1>3, LingersOn DEF CpuSafe
  <2>2. CASE ~Lingers'
    BY <2>2 DEF IrqLingers
  <2> QED
    BY <2>1, <2>2, <1>3
<1> QED
  BY <1>1, <1>3, <1>4, <1>5, <1>6
     DEF CpuSafe, IrqBitMatches, TrapIsAsked, NmiWaits, EntryIsDue, g

LEMMA CpuStep == CpuSafe /\ InBound /\ [CpuNext]_cpuVars => CpuSafe'
<1> SUFFICES ASSUME CpuSafe, InBound, [CpuNext]_cpuVars PROVE CpuSafe'
  OBVIOUS
<1>1. CASE UNCHANGED cpuVars
  BY <1>1 DEF cpuVars, vars, lines, clks, cpu, hist, CpuSafe, CpuTicks, IrqBitMatches,
              TrapIsAsked, NmiWaits, NmiDelayOver, Branch, IrqLingers, Lingers, EntryIsDue,
              NmiStillReady, g
<1>2. CASE Check
  BY <1>2, ForgetSafe, BeginSafe, NoInterruptSafe, ServeSafe, SpecialSafe, CpuResetSafe
     DEF Check
<1>3. CASE CpuNext /\ ~Check
  BY <1>3, LinesMoveSafe, CallsSafe, OverflowSafe, ExecuteSafe, BeginBrkSafe, EndBrkSafe
     DEF CpuNext
<1> QED
  BY <1>1, <1>2, <1>3

LEMMA CpuStaysSafe == CpuSpec /\ []InBound => []CpuSafe
  BY CpuInitSafe, CpuStep, PTL DEF CpuSpec

(* As long as the guard keeps the clock in its bound, the CPU passes an    *)
(* NMI over at one check at most: DO_INTERRUPT or a BRK then takes it.     *)
THEOREM NmiIsServedSoon == CpuSpec /\ []InBound => []NmiServedSoon
<1>1. CpuSafe => NmiServedSoon
  BY DEF CpuSafe, NmiWaits, NmiServedSoon
<1> QED
  BY <1>1, CpuStaysSafe, PTL

(* DO_INTERRUPT calls only trap functions that somebody has asked for.     *)
THEOREM OnlyAskedTraps == CpuSpec /\ []InBound => []TrapIsAsked
<1>1. CpuSafe => TrapIsAsked
  BY DEF CpuSafe
<1> QED
  BY <1>1, CpuStaysSafe, PTL

(* DO_INTERRUPT fetches the IRQ vector only for an IRQ that was due when   *)
(* the sequence began.                                                     *)
THEOREM OnlyDueIrqs == CpuSpec /\ []InBound => NoSpuriousIrq
<1>1. CpuSafe /\ [CpuNext]_cpuVars => [ServeIrq => irq_due]_cpuVars
  BY DEF CpuSafe, EntryIsDue, ServeIrq
<1> QED
  BY <1>1, CpuStaysSafe, PTL DEF CpuSpec, NoSpuriousIrq

-----------------------------------------------------------------------------
(* The types of the CPU's part of the state.  The time since power-on is   *)
(* epoch + clk, which a reset of the CPU does not move.                    *)
Typed == CpuTypeOK /\ CountsMatch /\ IrqBitMatches /\ epoch + clk >= 6

LEMMA TypedFacts ==
  ASSUME Typed
  PROVE  /\ Inv /\ clk \in Nat /\ epoch \in Nat /\ irq_low \in Nat /\ passed \in Nat
         /\ epoch + clk - 6 \in Nat /\ calls \in 0..MaxCalls
<1>1. Inv
  BY DEF Typed, CpuTypeOK, Inv
<1>2. /\ clk \in Clock /\ epoch \in Nat /\ irq_low \in Nat /\ passed \in Nat
      /\ calls \in 0..MaxCalls /\ epoch + clk >= 6
  BY Zenon DEF Typed, CpuTypeOK
<1>3. clk \in Nat /\ epoch + clk - 6 \in Nat
  BY <1>2, InterruptAssumption DEF Clock, InterruptAssumption
<1> QED
  BY <1>1, <1>2, <1>3

(* What the CPU does to the status is what the status offers, but for      *)
(* IRQPEND, which the check sets and takes back by itself.                 *)
LEMMA StatusStep ==
  ASSUME Typed, InBound, CpuNext
  PROVE  \/ [Next]_vars
         \/ /\ g' \in {g \cup {"IRQPEND"}, g \ {"IRQPEND"}, g}
            /\ UNCHANGED <<lines, clks, trap_func>>
<1>0. /\ IrqSources \subseteq Sources /\ NmiSources \subseteq Sources
      /\ GuardSub \in Nat /\ GuardMax \in Nat /\ GuardSub < GuardMax
  BY CpuInterruptsAssumption DEF CpuInterruptsAssumption, INTERRUPT_DELAY
<1>1. CASE LinesMove
  <2>1. PICK t \in Late :
          \/ \E s \in NmiSources : SetNmi(s, t) \/ ClearNmi(s)
          \/ \E s \in IrqSources : SetIrq(s, t) \/ ClearIrq(s, t)
    BY <1>1 DEF LinesMove
  <2>2. t \in 0..(ClockMax - 4)
    BY TypedFacts, CpuInterruptsAssumption, InterruptAssumption
       DEF Late, InBound, CpuInterruptsAssumption, InterruptAssumption
  <2> QED
    BY <2>1, <2>2, <1>0 DEF Next
<1>2. CASE Overflow
  <2>1. GuardSub \in Clock
    BY <1>0, <1>2, TypedFacts, InterruptAssumption
       DEF Overflow, Clock, InBound, InterruptAssumption
  <2> QED
    BY <2>1, <1>2 DEF Overflow, Next
<1>3. CASE ResetAsked \/ (\E f \in Traps : TrapAsked(f))
  BY <1>3 DEF ResetAsked, TrapAsked, Next
<1>4. CASE ForgetStaleIrq \/ ServeNmi \/ ServeIrq \/ BeginTrap \/ CpuReset
  BY <1>4 DEF ForgetStaleIrq, ServeNmi, ServeIrq, BeginTrap, CpuReset, Next
<1>5. CASE NoInterrupt \/ EndCheck
  BY <1>5 DEF NoInterrupt, EndCheck, g
<1>6. CASE BeginInterrupt \/ EndTrap \/ Execute \/ BeginBrk \/ EndBrk
  BY <1>6 DEF BeginInterrupt, EndTrap, Execute, BeginBrk, EndBrk, Next
<1> QED
  BY <1>1, <1>2, <1>3, <1>4, <1>5, <1>6 DEF CpuNext, Check

LEMMA StatusTyped ==
  ASSUME Typed, InBound, CpuNext
  PROVE  TypeOK' /\ CountsMatch' /\ IrqBitMatches'
<1>1. CASE [Next]_vars
  BY <1>1, TypedFacts, InvStep DEF Inv
<1>2. CASE /\ g' \in {g \cup {"IRQPEND"}, g \ {"IRQPEND"}, g}
           /\ UNCHANGED <<lines, clks, trap_func>>
  BY <1>2, TypedFacts
     DEF Inv, TypeOK, Bits, lines, clks, CountsMatch, ActiveIrqLines, ActiveNmiLines, Holding,
         IrqBitMatches, g
<1> QED
  BY <1>1, <1>2, StatusStep

(* Where the CPU is, and the flags.                                        *)
LEMMA FlagsTyped ==
  ASSUME Typed, CpuNext
  PROVE  /\ at' \in {"alarms", "check", "entry", "brk", "special", "trap", "late alarms"}
         /\ last_op' \in {"plain", "branch", "brk", "enables", "disables"}
         /\ ik' \subseteq Bits /\ asked' \subseteq Traps
<1>1. /\ at \in {"alarms", "check", "entry", "brk", "special", "trap", "late alarms"}
      /\ last_op \in {"plain", "branch", "brk", "enables", "disables"}
      /\ ik \subseteq Bits /\ asked \subseteq Traps /\ g \subseteq Bits
  BY DEF Typed, CpuTypeOK, TypeOK, g
<1>2. CASE LinesMove \/ Overflow \/ ResetAsked
  BY <1>1, <1>2 DEF LinesMove, Overflow, ResetAsked, cpu
<1>3. ASSUME NEW f \in Traps, TrapAsked(f)
      PROVE  UNCHANGED cpu /\ asked' \subseteq Traps
  BY <1>1, <1>3 DEF TrapAsked
<1>4. CASE Check
  BY <1>1, <1>4
     DEF Check, ForgetStaleIrq, BeginInterrupt, NoInterrupt, ServeNmi, ServeIrq, BeginTrap,
         EndTrap, CpuReset, EndCheck, Goto, hist
<1>5. CASE Execute \/ BeginBrk \/ EndBrk
  BY <1>1, <1>5 DEF Execute, BeginBrk, EndBrk, Goto, hist
<1> QED
  BY <1>1, <1>2, <1>3, <1>4, <1>5 DEF CpuNext, cpu

LEMMA BooleansTyped ==
  ASSUME Typed, CpuNext
  PROVE  iflag' \in BOOLEAN /\ irq_due' \in BOOLEAN
<1>1. iflag \in BOOLEAN /\ irq_due \in BOOLEAN /\ IrqIsDue \in BOOLEAN
  BY DEF Typed, CpuTypeOK, IrqIsDue
<1>2. CASE LinesMove \/ Overflow \/ ResetAsked \/ \E f \in Traps : TrapAsked(f)
  BY <1>1, <1>2 DEF LinesMove, Overflow, ResetAsked, TrapAsked, cpu
<1>3. CASE Check
  BY <1>1, <1>3
     DEF Check, ForgetStaleIrq, BeginInterrupt, NoInterrupt, ServeNmi, ServeIrq, BeginTrap,
         EndTrap, CpuReset, EndCheck, hist
<1>4. CASE Execute
  <2>1. iflag' = iflag \/ iflag' \in BOOLEAN \/ iflag' = FALSE \/ iflag' = TRUE
    BY <1>4 DEF Execute
  <2> QED
    BY <2>1, <1>1, <1>4 DEF Execute, hist
<1>5. CASE BeginBrk \/ EndBrk
  BY <1>1, <1>5 DEF BeginBrk, EndBrk, hist
<1> QED
  BY <1>2, <1>3, <1>4, <1>5 DEF CpuNext

(* The numbers.  Time never runs back, whatever moves the clock.           *)
LEMMA TimeTyped ==
  ASSUME Typed, CpuNext
  PROVE  \E c \in Nat, e \in Nat : clk' = c /\ epoch' = e /\ e + c >= epoch + clk
<1>0. /\ clk \in Nat /\ epoch \in Nat /\ epoch + clk - 6 \in Nat
      /\ GuardSub \in Nat /\ GuardMax \in Nat /\ GuardSub < GuardMax /\ MaxStep \in Nat
  BY TypedFacts, CpuInterruptsAssumption DEF CpuInterruptsAssumption, INTERRUPT_DELAY
<1>1. CASE Overflow
  <2>1. clk - GuardSub \in Nat /\ epoch + GuardSub \in Nat
        /\ (epoch + GuardSub) + (clk - GuardSub) >= epoch + clk
    BY <1>0, <1>1 DEF Overflow
  <2> QED
    BY <2>1, <1>1 DEF Overflow
<1>2. CASE CpuReset
  <2>1. epoch + clk - 6 \in Nat /\ 6 \in Nat /\ (epoch + clk - 6) + 6 >= epoch + clk
    BY <1>0
  <2> QED
    BY <2>1, <1>2 DEF CpuReset
<1>3. ASSUME NEW d \in Nat, clk' = clk + d, epoch' = epoch
      PROVE  \E c \in Nat, e \in Nat : clk' = c /\ epoch' = e /\ e + c >= epoch + clk
  BY <1>0, <1>3
<1>4. CASE Execute
  <2>1. PICK d \in 2..MaxStep : clk' = clk + d
    BY <1>4 DEF Execute
  <2>2. d \in Nat /\ epoch' = epoch
    BY <1>0, <1>4 DEF Execute, hist
  <2> QED
    BY <2>1, <2>2, <1>3
<1>5. CASE BeginInterrupt \/ BeginBrk
  <2>1. clk' = clk + 5 /\ epoch' = epoch
    BY <1>5 DEF BeginInterrupt, BeginBrk, hist
  <2> QED
    BY <2>1, <1>3
<1>6. CASE ServeNmi \/ ServeIrq \/ EndBrk
  <2>1. clk' = clk + 2 /\ epoch' = epoch
    BY <1>6 DEF ServeNmi, ServeIrq, EndBrk, hist
  <2> QED
    BY <2>1, <1>3
<1>7. CASE \/ LinesMove \/ ResetAsked \/ (\E f \in Traps : TrapAsked(f))
           \/ ForgetStaleIrq \/ NoInterrupt \/ BeginTrap \/ EndTrap \/ EndCheck
  <2>1. clk' = clk /\ epoch' = epoch
    BY <1>7 DEF LinesMove, ResetAsked, TrapAsked, ForgetStaleIrq, NoInterrupt, BeginTrap,
                EndTrap, EndCheck, cpu, hist
  <2> QED
    BY <2>1, <1>0
<1> QED
  BY <1>1, <1>2, <1>4, <1>5, <1>6, <1>7 DEF CpuNext, Check

LEMMA CountersTyped ==
  ASSUME Typed, CpuNext
  PROVE  irq_low' \in Nat /\ passed' \in Nat /\ calls' \in 0..MaxCalls
<1>1. /\ irq_low \in Nat /\ passed \in Nat /\ calls \in 0..MaxCalls /\ MaxCalls \in Nat
      /\ epoch \in Nat /\ clk \in Nat /\ MaxLate \in Nat /\ calls \in Nat
  BY TypedFacts, CpuInterruptsAssumption DEF CpuInterruptsAssumption
<1>2. CASE LinesMove
  <2>1. PICK t \in Late : irq_low' = irq_low \/ irq_low' = epoch + t
    BY <1>2 DEF LinesMove
  <2>2. epoch + t \in Nat
    BY <1>1 DEF Late
  <2> QED
    BY <2>1, <2>2, <1>1, <1>2 DEF LinesMove
<1>3. CASE ResetAsked \/ \E f \in Traps : TrapAsked(f)
  <2>1. calls' = calls + 1 /\ calls < MaxCalls /\ UNCHANGED <<irq_low, passed>>
    BY <1>3 DEF ResetAsked, TrapAsked, MayCall
  <2> QED
    BY <2>1, <1>1
<1>4. CASE Overflow \/ Check \/ Execute \/ BeginBrk \/ EndBrk
  <2>1. UNCHANGED <<irq_low, calls>> /\ passed' \in {0, passed, passed + 1}
    BY <1>4
       DEF Overflow, Check, ForgetStaleIrq, BeginInterrupt, NoInterrupt, ServeNmi, ServeIrq,
           BeginTrap, EndTrap, CpuReset, EndCheck, Execute, BeginBrk, EndBrk, hist
  <2> QED
    BY <2>1, <1>1
<1> QED
  BY <1>2, <1>3, <1>4 DEF CpuNext

LEMMA TypedStep == Typed /\ InBound /\ InBound' /\ [CpuNext]_cpuVars => Typed'
<1> SUFFICES ASSUME Typed, InBound, InBound', [CpuNext]_cpuVars PROVE Typed'
  OBVIOUS
<1>1. CASE CpuNext
  <2>1. PICK c \in Nat, e \in Nat : clk' = c /\ epoch' = e /\ e + c >= epoch + clk
    BY <1>1, TimeTyped
  <2>2. e + c >= 6 /\ c \in Clock
    <3>1. e + c >= 6
      BY <2>1, TypedFacts
    <3>2. c + 3 < ClockMax
      BY <2>1 DEF InBound
    <3> QED
      BY <3>1, <3>2, InterruptAssumption DEF Clock, InterruptAssumption
  <2>3. epoch' + clk' >= 6 /\ clk' \in Clock /\ epoch' \in Nat
    BY <2>1, <2>2
  <2> QED
    BY <2>3, <1>1, StatusTyped, FlagsTyped, BooleansTyped, CountersTyped DEF Typed, CpuTypeOK
<1>2. CASE UNCHANGED cpuVars
  BY <1>2 DEF cpuVars, vars, lines, clks, cpu, hist, Typed, CpuTypeOK, TypeOK, CountsMatch,
              ActiveIrqLines, ActiveNmiLines, Holding, IrqBitMatches
<1> QED
  BY <1>1, <1>2

(* While the clock stays in its bound, every part of the status and of the *)
(* CPU keeps its type: no warp makes a tick negative, and no reset of the  *)
(* CPU makes time run back.                                                *)
THEOREM CpuIsTyped == CpuSpec /\ []InBound => []CpuTypeOK
<1>1. CpuInit /\ InBound => Typed
  <2> SUFFICES ASSUME CpuInit, InBound PROVE Typed
    OBVIOUS
  <2>1. Inv
    BY InitInv DEF CpuInit
  <2>2. clk \in Clock /\ epoch + clk >= 6 /\ calls \in 0..MaxCalls
    BY InterruptAssumption, CpuInterruptsAssumption
       DEF CpuInit, InBound, Clock, InterruptAssumption, CpuInterruptsAssumption
  <2> QED
    BY <2>1, <2>2 DEF CpuInit, Inv, Typed, CpuTypeOK
<1>2. Typed => CpuTypeOK
  BY DEF Typed
<1> QED
  BY <1>1, <1>2, TypedStep, PTL DEF CpuSpec
=============================================================================
