--------------------------- MODULE PspSoundProofs ---------------------------
(***************************************************************************)
(* The FIFO of the PSP's sound driver is a queue of bytes, and the driver  *)
(* uses it as it wants to be used, for any size of the ring, of a fragment *)
(* and of a write.                                                         *)
(***************************************************************************)
EXTENDS PspSound, SequenceTheorems, TLAPS

-----------------------------------------------------------------------------
(* The FIFO of sfifo.c, for any size of its ring and any steps of its two  *)
(* sides, behaves as a queue of bytes.                                     *)

(* Used without the mask.                                                  *)
Gap(r, w) == IF w >= r THEN (IF w - r = Size THEN 0 ELSE w - r)
             ELSE (IF r - w = Size THEN 0 ELSE w - r + Size)

(* What the writer has copied is in free cells, behind what waits.         *)
WriterInv ==
  /\ wpc = "copy" => /\ Len(wdata) \in 1..Space
                     /\ \A k \in 0..(wcount - 1) :
                          buffer[Cell(writepos, k)] = wdata[k + 1]
  /\ wpc # "copy" => wdata = <<>> /\ wcount = 0
  /\ wpc = "reset" => readpos = 0 /\ rpc = "out"

(* What the reader has copied is what waits first.                         *)
ReaderInv ==
  /\ rpc = "copy" => /\ rlen \in 1..Used
                     /\ \A k \in 1..Len(rdata) :
                          rdata[k] = buffer[Cell(readpos, k - 1)]
  /\ rpc = "out" => rlen = 0 /\ rdata = <<>>

Inv == FifoTypeOK /\ WriterInv /\ ReaderInv

-----------------------------------------------------------------------------
(* The mask of sfifo_used is a distance on the ring.                       *)
LEMMA UsedIsGap == ASSUME NEW r \in Positions, NEW w \in Positions
                   PROVE  (w - r) % Size = Gap(r, w) /\ Gap(r, w) \in 0..(Size - 1)
<1> USE SfifoAssumption
<1>1. \A m \in Nat : /\ m < Size => m % Size = m
                     /\ m < Size /\ m > 0 => (0 - m) % Size = Size - m
  OBVIOUS
<1>2. Size % Size = 0 /\ (0 - Size) % Size = 0
  OBVIOUS
<1>3. CASE w >= r /\ w - r < Size
  BY <1>1, <1>3 DEF Positions, Gap
<1>4. CASE w >= r /\ w - r = Size
  BY <1>2, <1>4 DEF Positions, Gap
<1>5. CASE w < r /\ r - w < Size
  <2>1. r - w \in Nat /\ r - w > 0
    BY <1>5 DEF Positions
  <2>2. (0 - (r - w)) % Size = Size - (r - w)
    BY <1>1, <1>5, <2>1
  <2>3. 0 - (r - w) = w - r
    BY DEF Positions
  <2> QED BY <1>5, <2>1, <2>2, <2>3 DEF Positions, Gap
<1>6. CASE w < r /\ r - w = Size
  <2>1. w - r = 0 - Size
    BY <1>6 DEF Positions
  <2> QED BY <1>2, <1>6, <2>1 DEF Positions, Gap
<1> QED BY <1>3, <1>4, <1>5, <1>6 DEF Positions

(* A copy stays in the ring and never meets itself.                        *)
LEMMA CellFacts ==
  ASSUME NEW p \in Positions, NEW k \in 0..(Size - 1)
  PROVE  /\ Cell(p, k) \in Cells
         /\ \A j \in 0..(Size - 1) : j # k => Cell(p, j) # Cell(p, k)
BY SfifoAssumption DEF Positions, Cells, Cell

(* What waits and what is free do not overlap.                             *)
LEMMA FreeCells ==
  ASSUME NEW r \in Positions, NEW w \in Positions,
         NEW j \in 0..(Gap(r, w) - 1), NEW k \in 0..(Size - 2 - Gap(r, w))
  PROVE  Cell(r, j) # Cell(w, k)
BY SfifoAssumption, UsedIsGap DEF Positions, Cell, Gap

(* The free cells come right behind the waiting ones.                      *)
LEMMA FreeFollows ==
  ASSUME NEW r \in Positions, NEW w \in Positions,
         NEW k \in 0..(Size - 2 - Gap(r, w))
  PROVE  Cell(r, Gap(r, w) + k) = Cell(w, k)
BY SfifoAssumption, UsedIsGap DEF Positions, Cell, Gap

(* The end of a copy is the start of the next.                             *)
LEMMA EndPosFacts ==
  ASSUME NEW p \in Positions, NEW n \in 1..(Size - 1)
  PROVE  /\ EndPos(p, n) \in Positions
         /\ \A k \in 0..(Size - 1 - n) : Cell(EndPos(p, n), k) = Cell(p, n + k)
BY SfifoAssumption DEF Positions, EndPos, Cell

LEMMA GapAfterWrite ==
  ASSUME NEW r \in Positions, NEW w \in Positions,
         NEW n \in 1..(Size - 1 - Gap(r, w))
  PROVE  Gap(r, EndPos(w, n)) = Gap(r, w) + n
BY SfifoAssumption, UsedIsGap DEF Positions, EndPos, Gap

LEMMA GapAfterRead ==
  ASSUME NEW r \in Positions, NEW w \in Positions, NEW n \in 1..Gap(r, w)
  PROVE  Gap(EndPos(r, n), w) = Gap(r, w) - n
BY SfifoAssumption, UsedIsGap DEF Positions, EndPos, Gap

(* Strings are sequences of a bounded length.                              *)
LEMMA StringsAreSeqs ==
  ASSUME NEW n \in Nat, NEW s
  PROVE  s \in Strings(n) <=> s \in Seq(Bytes) /\ Len(s) <= n
<1>1. ASSUME s \in Strings(n) PROVE s \in Seq(Bytes) /\ Len(s) <= n
  <2>1. PICK k \in 0..n : s \in [1..k -> Bytes]
    BY <1>1 DEF Strings
  <2>2. s \in Seq(Bytes)
    BY <2>1, SeqDef
  <2>3. Len(s) = k
    BY <2>1, <2>2, LenProperties
  <2> QED BY <2>2, <2>3
<1>2. ASSUME s \in Seq(Bytes), Len(s) <= n PROVE s \in Strings(n)
  <2>1. s \in [1..Len(s) -> Bytes] /\ Len(s) \in 0..n
    BY <1>2, LenProperties
  <2> QED BY <2>1 DEF Strings
<1> QED BY <1>1, <1>2

LEMMA EmptyString == /\ <<>> \in Seq(Bytes) /\ Len(<<>>) = 0
                     /\ \A n \in Nat : <<>> \in Strings(n)
<1>1. <<>> \in Seq(Bytes) /\ Len(<<>>) = 0
  BY EmptySeq
<1>2. ASSUME NEW n \in Nat PROVE <<>> \in Strings(n)
  <2>1. Len(<<>>) <= n
    BY <1>1
  <2> QED BY <1>1, <2>1, StringsAreSeqs
<1> QED BY <1>1, <1>2

-----------------------------------------------------------------------------
LEMMA InitInv == FifoInit => Inv
<1> SUFFICES ASSUME FifoInit PROVE Inv
  OBVIOUS
<1> USE SfifoAssumption
<1>1. FifoTypeOK
  BY EmptyString DEF FifoInit, FifoTypeOK, Positions
<1> QED BY <1>1 DEF FifoInit, Inv, WriterInv, ReaderInv

(* What the invariant says of the positions, without the mask.             *)
LEMMA InvFacts ==
  ASSUME Inv
  PROVE  /\ Used = Gap(readpos, writepos) /\ Used \in 0..(Size - 1)
         /\ Space = Size - 1 - Gap(readpos, writepos)
         /\ wdata \in Seq(Bytes) /\ Len(wdata) \in 0..(Size - 1)
         /\ rdata \in Seq(Bytes) /\ Len(rdata) \in 0..rlen
         /\ said \in Seq(Bytes) /\ heard \in Seq(Bytes)
<1> USE SfifoAssumption
<1>1. readpos \in Positions /\ writepos \in Positions /\ rlen \in 0..(Size - 1)
  BY DEF Inv, FifoTypeOK
<1>2. Used = Gap(readpos, writepos) /\ Used \in 0..(Size - 1)
  BY <1>1, UsedIsGap DEF Used
<1>3. /\ wdata \in Strings(Size - 1) /\ rdata \in Strings(rlen)
      /\ said \in Strings(Size - 1) /\ heard \in Strings(Size - 1)
  BY DEF Inv, FifoTypeOK
<1>4. Size - 1 \in Nat /\ rlen \in Nat
  BY <1>1
<1>5. /\ wdata \in Seq(Bytes) /\ Len(wdata) <= Size - 1
      /\ rdata \in Seq(Bytes) /\ Len(rdata) <= rlen
      /\ said \in Seq(Bytes) /\ heard \in Seq(Bytes)
  BY <1>3, <1>4, StringsAreSeqs
<1>6. Len(wdata) \in Nat /\ Len(rdata) \in Nat
  BY <1>5, LenProperties
<1> QED BY <1>1, <1>2, <1>5, <1>6 DEF Space

LEMMA StepInv == Inv /\ [FifoNext]_fifoVars => Inv'
<1> SUFFICES ASSUME Inv, [FifoNext]_fifoVars PROVE Inv'
  OBVIOUS
<1> USE SfifoAssumption
<1> DEFINE r == readpos
           w == writepos
<1>0. /\ FifoTypeOK /\ r \in Positions /\ w \in Positions
      /\ rlen \in 0..(Size - 1) /\ wcount \in 0..Len(wdata)
      /\ buffer \in [Cells -> Bytes]
  BY DEF Inv, FifoTypeOK
<1>f. /\ Used = Gap(r, w) /\ Used \in 0..(Size - 1)
      /\ Space = Size - 1 - Gap(r, w)
      /\ wdata \in Seq(Bytes) /\ Len(wdata) \in 0..(Size - 1)
      /\ rdata \in Seq(Bytes) /\ Len(rdata) \in 0..rlen
  BY InvFacts
<1>e. /\ <<>> \in Seq(Bytes) /\ Len(<<>>) = 0
      /\ \A n \in Nat : <<>> \in Strings(n)
  BY EmptyString
<1>1. ASSUME NEW n \in 1..(Size - 1), NEW data \in [1..n -> Bytes], WriteBegin(data)
      PROVE  Inv'
  <2>1. data \in Seq(Bytes) /\ Len(data) = n
    <3>1. data \in Seq(Bytes)
      BY SeqDef
    <3> QED BY <3>1, LenProperties
  <2>2. data \in Strings(Size - 1)
    BY <2>1, StringsAreSeqs
  <2>3. FifoTypeOK'
    BY <1>0, <1>1, <2>1, <2>2 DEF FifoTypeOK, WriteBegin, reader
  <2>4. Space' = Space /\ Used' = Used
    BY <1>1 DEF WriteBegin, Space, Used
  <2>5. WriterInv'
    BY <1>1, <2>1, <2>4 DEF WriterInv, WriteBegin
  <2>6. ReaderInv'
    BY <1>1, <2>4 DEF Inv, ReaderInv, WriteBegin, reader
  <2> QED BY <2>3, <2>5, <2>6 DEF Inv
<1>2. CASE CopyIn
  <2> DEFINE c == Cell(w, wcount)
  <2>1. /\ wpc = "copy" /\ Len(wdata) \in 1..Space /\ wcount \in 0..(Size - 2 - Gap(r, w))
    BY <1>0, <1>2, <1>f DEF CopyIn, Inv, WriterInv
  <2>2. wcount \in 0..(Size - 1) /\ wcount + 1 \in 1..Len(wdata)
    BY <1>0, <1>2, <1>f, <2>1 DEF CopyIn
  <2>3. c \in Cells /\ \A k \in 0..(Size - 1) : k # wcount => Cell(w, k) # c
    BY <1>0, <2>2, CellFacts
  <2>4. wdata[wcount + 1] \in Bytes
    BY <1>f, <2>2, ElementOfSeq
  <2>5. buffer' = [buffer EXCEPT ![c] = wdata[wcount + 1]]
    BY <1>2 DEF CopyIn
  <2>6. FifoTypeOK'
    BY <1>0, <1>2, <2>2, <2>3, <2>4, <2>5 DEF FifoTypeOK, CopyIn, reader
  <2>7. Space' = Space /\ Used' = Used
    BY <1>2 DEF CopyIn, Space, Used
  <2>8. ASSUME NEW k \in 0..wcount PROVE buffer'[Cell(w, k)] = wdata[k + 1]
    <3>1. CASE k = wcount
      BY <1>0, <2>3, <2>5, <3>1
    <3>2. CASE k # wcount
      <4>1. k \in 0..(wcount - 1) /\ k \in 0..(Size - 1)
        BY <1>0, <2>2, <3>2
      <4>2. buffer[Cell(w, k)] = wdata[k + 1]
        BY <2>1, <4>1 DEF Inv, WriterInv
      <4>3. Cell(w, k) # c /\ Cell(w, k) \in Cells
        BY <1>0, <2>3, <3>2, <4>1, CellFacts
      <4> QED BY <1>0, <2>5, <4>2, <4>3
    <3> QED BY <3>1, <3>2
  <2>9. WriterInv'
    BY <1>0, <1>2, <2>1, <2>7, <2>8 DEF WriterInv, CopyIn
  <2>10. ReaderInv'
    <3>1. ASSUME rpc = "copy", NEW k \in 1..Len(rdata)
          PROVE  buffer'[Cell(r, k - 1)] = buffer[Cell(r, k - 1)]
      <4>1. rlen \in 1..Used
        BY <3>1 DEF Inv, ReaderInv
      <4>2. k - 1 \in 0..(Gap(r, w) - 1) /\ k - 1 \in 0..(Size - 1)
        BY <1>f, <3>1, <4>1
      <4>3. Cell(r, k - 1) # c /\ Cell(r, k - 1) \in Cells
        BY <1>0, <2>1, <4>2, FreeCells, CellFacts
      <4> QED BY <1>0, <2>5, <4>3
    <3> QED BY <1>2, <2>7, <3>1 DEF Inv, ReaderInv, CopyIn, reader
  <2> QED BY <2>6, <2>9, <2>10 DEF Inv
<1>3. CASE WriteEnd
  <2>1. wpc = "copy" /\ Len(wdata) \in 1..Space
    BY <1>3 DEF WriteEnd, Inv, WriterInv
  <2>2. Len(wdata) \in 1..(Size - 1) /\ Len(wdata) \in 1..(Size - 1 - Gap(r, w))
    BY <1>f, <2>1
  <2>3. writepos' = EndPos(w, Len(wdata)) /\ writepos' \in Positions
    BY <1>0, <1>3, <2>2, EndPosFacts DEF WriteEnd
  <2>4. wdata \in Strings(Size - 1)
    BY <1>0 DEF FifoTypeOK
  <2>5. FifoTypeOK'
    BY <1>0, <1>3, <1>e, <2>3, <2>4 DEF FifoTypeOK, WriteEnd, reader
  <2>6. Used' = Used + Len(wdata)
    <3>1. Used' = Gap(r, writepos')
      BY <1>0, <1>3, <2>3, UsedIsGap DEF WriteEnd, Used
    <3> QED BY <1>0, <1>f, <2>2, <2>3, <3>1, GapAfterWrite
  <2>7. WriterInv'
    BY <1>3 DEF WriterInv, WriteEnd
  <2>8. ReaderInv'
    BY <1>3, <1>f, <2>2, <2>6 DEF Inv, ReaderInv, WriteEnd, reader
  <2> QED BY <2>5, <2>7, <2>8 DEF Inv
<1>4. ASSUME NEW len \in 1..Size, wpc # "reset", ReadBegin(len)
      PROVE  Inv'
  <2>1. rlen' \in 1..Used /\ Used > 0
    BY <1>4, <1>f DEF ReadBegin, Least
  <2>2. rlen' \in 0..(Size - 1) /\ rlen' \in Nat
    BY <1>f, <2>1
  <2>3. rdata' = <<>> /\ rdata' \in Strings(rlen')
    BY <1>4, <1>e, <2>2 DEF ReadBegin
  <2>4. FifoTypeOK'
    BY <1>0, <1>4, <2>2, <2>3 DEF FifoTypeOK, ReadBegin, writer
  <2>5. Used' = Used /\ Space' = Space
    BY <1>4 DEF ReadBegin, Used, Space
  <2>6. WriterInv'
    BY <1>4, <2>5 DEF Inv, WriterInv, ReadBegin, writer
  <2>7. ReaderInv'
    BY <1>4, <1>e, <2>1, <2>3, <2>5 DEF ReaderInv, ReadBegin
  <2> QED BY <2>4, <2>6, <2>7 DEF Inv
<1>5. CASE CopyOut
  <2> DEFINE n == Len(rdata)
             b == buffer[Cell(r, n)]
  <2>1. rpc = "copy" /\ n < rlen /\ rlen \in 1..Used /\ n \in 0..(Size - 1)
    BY <1>5, <1>f DEF CopyOut, Inv, ReaderInv
  <2>2. b \in Bytes
    BY <1>0, <2>1, CellFacts
  <2>3. /\ rdata' = Append(rdata, b) /\ rdata' \in Seq(Bytes) /\ Len(rdata') = n + 1
        /\ \A k \in 1..n : rdata'[k] = rdata[k]
        /\ rdata'[n + 1] = b
    BY <1>5, <1>f, <2>2 DEF CopyOut
  <2>4. rdata' \in Strings(rlen)
    <3>1. rlen \in Nat /\ Len(rdata') <= rlen
      BY <1>0, <1>f, <2>1, <2>3
    <3> QED BY <2>3, <3>1, StringsAreSeqs
  <2>5. FifoTypeOK'
    BY <1>0, <1>5, <2>4 DEF FifoTypeOK, CopyOut, writer
  <2>6. Used' = Used /\ Space' = Space
    BY <1>5 DEF CopyOut, Used, Space
  <2>7. WriterInv'
    BY <1>5, <2>6 DEF Inv, WriterInv, CopyOut, writer
  <2>8. ASSUME NEW k \in 1..(n + 1) PROVE rdata'[k] = buffer[Cell(r, k - 1)]
    <3>1. CASE k = n + 1
      BY <2>1, <2>3, <3>1
    <3>2. CASE k # n + 1
      <4>1. k \in 1..n
        BY <2>1, <3>2
      <4> QED BY <2>1, <2>3, <4>1 DEF Inv, ReaderInv
    <3> QED BY <3>1, <3>2
  <2>9. ReaderInv'
    BY <1>5, <2>1, <2>3, <2>6, <2>8 DEF ReaderInv, CopyOut
  <2> QED BY <2>5, <2>7, <2>9 DEF Inv
<1>6. CASE ReadEnd
  <2>1. rpc = "copy" /\ rlen \in 1..Used /\ Len(rdata) = rlen
    BY <1>6 DEF ReadEnd, Inv, ReaderInv
  <2>2. rlen \in 1..(Size - 1) /\ rlen \in 1..Gap(r, w)
    BY <1>f, <2>1
  <2>3. readpos' = EndPos(r, rlen) /\ readpos' \in Positions
    BY <1>0, <1>6, <2>2, EndPosFacts DEF ReadEnd
  <2>4. rdata \in Strings(Size - 1)
    BY <1>f, <2>1, <2>2, StringsAreSeqs
  <2>5. FifoTypeOK'
    BY <1>0, <1>6, <1>e, <2>3, <2>4 DEF FifoTypeOK, ReadEnd, writer
  <2>6. Used' = Used - rlen /\ Space' = Space + rlen
    <3>1. Used' = Gap(readpos', w)
      BY <1>0, <1>6, <2>3, UsedIsGap DEF ReadEnd, Used
    <3>2. Used' = Used - rlen
      BY <1>0, <1>f, <2>2, <2>3, <3>1, GapAfterRead
    <3> QED BY <1>f, <2>2, <3>2 DEF Space
  <2>7. WriterInv'
    BY <1>6, <1>f, <2>1, <2>2, <2>6 DEF Inv, WriterInv, ReadEnd, writer
  <2>8. ReaderInv'
    BY <1>6 DEF ReaderInv, ReadEnd
  <2> QED BY <2>5, <2>7, <2>8 DEF Inv
<1>7. CASE rpc = "out" /\ ResetRead
  <2>1. FifoTypeOK'
    BY <1>0, <1>7 DEF FifoTypeOK, ResetRead, reader, Positions
  <2>2. WriterInv'
    BY <1>7 DEF Inv, WriterInv, ResetRead, reader
  <2>3. ReaderInv'
    BY <1>7 DEF Inv, ReaderInv, ResetRead, reader
  <2> QED BY <2>1, <2>2, <2>3 DEF Inv
<1>8. ASSUME NEW ring \in [Cells -> Bytes], ResetWrite(ring)
      PROVE  Inv'
  <2>1. FifoTypeOK'
    BY <1>0, <1>8 DEF FifoTypeOK, ResetWrite, reader, Positions
  <2>2. WriterInv'
    BY <1>8 DEF Inv, WriterInv, ResetWrite
  <2>3. ReaderInv'
    BY <1>8 DEF Inv, WriterInv, ReaderInv, ResetWrite, reader
  <2> QED BY <2>1, <2>2, <2>3 DEF Inv
<1>9. CASE UNCHANGED fifoVars
  <2>1. Used' = Used /\ Space' = Space
    BY <1>9 DEF fifoVars, Used, Space
  <2>2. FifoTypeOK'
    BY <1>0, <1>9 DEF FifoTypeOK, fifoVars, writer, reader
  <2>3. WriterInv' /\ ReaderInv'
    BY <1>9, <2>1 DEF Inv, WriterInv, ReaderInv, fifoVars, writer, reader
  <2> QED BY <2>2, <2>3 DEF Inv
<1> QED BY <1>1, <1>2, <1>3, <1>4, <1>5, <1>6, <1>7, <1>8, <1>9 DEF FifoNext

THEOREM FifoInvariant == FifoSpec => []Inv
BY InitInv, StepInv, PTL DEF FifoSpec

-----------------------------------------------------------------------------
(* What waits, byte by byte.                                               *)
IsWhatWaits(s) == /\ s \in Seq(Bytes) /\ Len(s) = Used
                  /\ \A k \in 1..Used : s[k] = buffer[Cell(readpos, k - 1)]

LEMMA WaitingFacts == Inv /\ wpc # "reset" => IsWhatWaits(Waiting)
<1> SUFFICES ASSUME Inv, wpc # "reset" PROVE IsWhatWaits(Waiting)
  OBVIOUS
<1> USE SfifoAssumption
<1>1. Used \in 0..(Size - 1) /\ readpos \in Positions /\ buffer \in [Cells -> Bytes]
  BY InvFacts DEF Inv, FifoTypeOK
<1>2. Waiting = [k \in 1..Used |-> buffer[Cell(readpos, k - 1)]]
  BY DEF Waiting
<1>3. ASSUME NEW k \in 1..Used PROVE buffer[Cell(readpos, k - 1)] \in Bytes
  <2>1. k - 1 \in 0..(Size - 1)
    BY <1>1
  <2> QED BY <1>1, <2>1, CellFacts
<1>4. Waiting \in [1..Used -> Bytes]
  BY <1>2, <1>3
<1>5. Waiting \in Seq(Bytes)
  BY <1>1, <1>4, SeqDef
<1>6. Len(Waiting) = Used
  BY <1>1, <1>4, <1>5, LenProperties
<1> QED BY <1>2, <1>5, <1>6 DEF IsWhatWaits

LEMMA NothingWaits == Inv /\ (wpc = "reset" \/ Used = 0) => Waiting = <<>>
<1> SUFFICES ASSUME Inv, wpc = "reset" \/ Used = 0 PROVE Waiting = <<>>
  OBVIOUS
<1>1. CASE wpc = "reset"
  BY <1>1 DEF Waiting
<1>2. CASE wpc # "reset" /\ Used = 0
  <2>1. Waiting \in Seq(Bytes) /\ Len(Waiting) = 0
    BY <1>2, WaitingFacts DEF IsWhatWaits
  <2> QED BY <2>1, EmptySeq
<1> QED BY <1>1, <1>2

LEMMA InitMaps == FifoInit => Queue!Init
<1> SUFFICES ASSUME FifoInit PROVE Queue!Init
  OBVIOUS
<1>1. Inv
  BY InitInv
<1>2. Used = 0
  <2>1. Used = Gap(readpos, writepos)
    BY <1>1, InvFacts
  <2> QED BY <2>1, SfifoAssumption DEF FifoInit, Gap
<1> QED BY <1>1, <1>2, NothingWaits DEF FifoInit, Queue!Init

LEMMA WaitingFactsAfter == (Inv /\ wpc # "reset")' => IsWhatWaits(Waiting)'
BY WaitingFacts, PTL

(* The queue is left alone if the waiting cells are.                       *)
LEMMA SameWaiting ==
  ASSUME Inv, Inv', wpc # "reset", wpc' # "reset", UNCHANGED <<readpos, writepos>>,
         \A k \in 1..Used : buffer'[Cell(readpos, k - 1)] = buffer[Cell(readpos, k - 1)]
  PROVE  Waiting' = Waiting
<1>1. /\ Waiting \in Seq(Bytes) /\ Len(Waiting) = Used
      /\ \A k \in 1..Used : Waiting[k] = buffer[Cell(readpos, k - 1)]
  BY WaitingFacts DEF IsWhatWaits
<1>2. Used' = Used
  BY DEF Used
<1>3. /\ Waiting' \in Seq(Bytes) /\ Len(Waiting') = Used
      /\ \A k \in 1..Used : Waiting'[k] = buffer'[Cell(readpos, k - 1)]
  BY <1>2, WaitingFactsAfter DEF IsWhatWaits
<1>4. \A k \in 1..Len(Waiting) : Waiting[k] = Waiting'[k]
  BY <1>1, <1>3
<1> HIDE DEF Waiting
<1> QED BY <1>1, <1>3, <1>4, SeqEqual

LEMMA WriteEndMaps == ASSUME Inv, Inv', WriteEnd PROVE Queue!Write
<1> USE SfifoAssumption
<1> DEFINE n == Len(wdata)
<1>1. /\ wpc = "copy" /\ wpc' = "out" /\ n \in 1..Space /\ wcount = n
      /\ \A k \in 0..(n - 1) : buffer[Cell(writepos, k)] = wdata[k + 1]
  BY DEF WriteEnd, Inv, WriterInv
<1>2. /\ Used = Gap(readpos, writepos) /\ Used \in 0..(Size - 1)
      /\ Space = Size - 1 - Used /\ wdata \in Seq(Bytes)
      /\ readpos \in Positions /\ writepos \in Positions
  BY InvFacts DEF Inv, FifoTypeOK
<1>3. n \in 1..(Size - 1 - Used) /\ n \in 1..(Size - 1)
  BY <1>1, <1>2
<1>4. Used' = Used + n
  <2>1. Used' = Gap(readpos, EndPos(writepos, n))
    BY <1>2, <1>3, EndPosFacts, UsedIsGap DEF WriteEnd, Used
  <2> QED BY <1>2, <1>3, <2>1, GapAfterWrite
<1>5. IsWhatWaits(Waiting) /\ Len(Waiting) = Used /\ Waiting \in Seq(Bytes)
  BY <1>1, WaitingFacts DEF IsWhatWaits
<1>6. /\ Waiting' \in Seq(Bytes) /\ Len(Waiting') = Used + n
      /\ \A k \in 1..(Used + n) : Waiting'[k] = buffer[Cell(readpos, k - 1)]
  BY <1>1, <1>4, WaitingFactsAfter DEF IsWhatWaits, WriteEnd
<1>7. /\ Waiting \o wdata \in Seq(Bytes) /\ Len(Waiting \o wdata) = Used + n
      /\ \A k \in 1..(Used + n) : (Waiting \o wdata)[k] =
             IF k <= Used THEN Waiting[k] ELSE wdata[k - Used]
  <2>1. /\ Waiting \o wdata \in Seq(Bytes)
        /\ Len(Waiting \o wdata) = Len(Waiting) + n
        /\ \A k \in 1..(Len(Waiting) + n) : (Waiting \o wdata)[k] =
               IF k <= Len(Waiting) THEN Waiting[k] ELSE wdata[k - Len(Waiting)]
    BY <1>2, <1>5, ConcatProperties
  <2> QED BY <1>5, <2>1
<1>8. ASSUME NEW k \in 1..(Used + n) PROVE Waiting'[k] = (Waiting \o wdata)[k]
  <2>1. CASE k <= Used
    <3>1. k \in 1..Used
      BY <1>2, <2>1
    <3>2. Waiting[k] = buffer[Cell(readpos, k - 1)]
      BY <1>5, <3>1 DEF IsWhatWaits
    <3> QED BY <1>6, <1>7, <2>1, <3>2
  <2>2. CASE k > Used
    <3>1. k - Used - 1 \in 0..(n - 1) /\ k - Used - 1 \in 0..(Size - 2 - Used)
      BY <1>2, <1>3, <2>2
    <3>2. Cell(readpos, Used + (k - Used - 1)) = Cell(writepos, k - Used - 1)
      BY <1>2, <3>1, FreeFollows
    <3>3. Used + (k - Used - 1) = k - 1 /\ (k - Used - 1) + 1 = k - Used
      BY <1>2, <1>3
    <3>4. buffer[Cell(readpos, k - 1)] = wdata[k - Used]
      BY <1>1, <3>1, <3>2, <3>3
    <3>5. ~(k <= Used)
      BY <1>2, <1>3, <2>2
    <3> QED BY <1>6, <1>7, <3>4, <3>5
  <2>3. k <= Used \/ k > Used
    BY <1>2, <1>3
  <2> QED BY <2>1, <2>2, <2>3
<1>9. Waiting' = Waiting \o wdata
  <2> HIDE DEF Waiting
  <2> QED BY <1>6, <1>7, <1>8, SeqEqual
<1>10. wdata \in UNION {[1..m -> Bytes] : m \in 1..(Size - 1)}
  <2>1. wdata \in [1..n -> Bytes]
    BY <1>2, LenProperties
  <2> QED BY <1>3, <2>1
<1>11. Used + n <= Size - 1
  BY <1>2, <1>3
<1>12. said' = wdata /\ UNCHANGED heard
  BY DEF WriteEnd, reader
<1> QED BY <1>5, <1>9, <1>10, <1>11, <1>12 DEF Queue!Write, Queue!Chunks

LEMMA ReadEndMaps == ASSUME Inv, Inv', ReadEnd PROVE Queue!Read
<1> USE SfifoAssumption
<1>1. /\ rpc = "copy" /\ wpc # "reset" /\ wpc' # "reset"
      /\ rlen \in 1..Used /\ Len(rdata) = rlen
      /\ \A k \in 1..rlen : rdata[k] = buffer[Cell(readpos, k - 1)]
  BY DEF ReadEnd, Inv, WriterInv, ReaderInv, writer
<1>2. /\ Used = Gap(readpos, writepos) /\ Used \in 0..(Size - 1)
      /\ rdata \in Seq(Bytes)
      /\ readpos \in Positions /\ writepos \in Positions
  BY InvFacts DEF Inv, FifoTypeOK
<1>3. rlen \in 1..(Size - 1) /\ rlen \in Int /\ Used \in Int
  BY <1>1, <1>2
<1>4. Used' = Used - rlen
  <2>1. Used' = Gap(EndPos(readpos, rlen), writepos)
    BY <1>2, <1>3, EndPosFacts, UsedIsGap DEF ReadEnd, Used
  <2> QED BY <1>1, <1>2, <2>1, GapAfterRead
<1>5. /\ Waiting \in Seq(Bytes) /\ Len(Waiting) = Used
      /\ \A k \in 1..Used : Waiting[k] = buffer[Cell(readpos, k - 1)]
  BY <1>1, WaitingFacts DEF IsWhatWaits
<1>6. /\ Waiting' \in Seq(Bytes) /\ Len(Waiting') = Used - rlen
      /\ \A k \in 1..(Used - rlen) :
             Waiting'[k] = buffer[Cell(EndPos(readpos, rlen), k - 1)]
  BY <1>1, <1>4, WaitingFactsAfter DEF IsWhatWaits, ReadEnd
<1>7. \A k \in 1..Used : Waiting[k] \in Bytes
  BY <1>5, ElementOfSeq
<1> HIDE DEF Waiting
<1>8. heard' = SubSeq(Waiting, 1, rlen)
  <2>1. \A k \in 1..rlen : Waiting[k] \in Bytes
    BY <1>1, <1>3, <1>7
  <2>2. /\ SubSeq(Waiting, 1, rlen) \in Seq(Bytes)
        /\ Len(SubSeq(Waiting, 1, rlen)) = rlen
        /\ \A k \in 1..rlen : SubSeq(Waiting, 1, rlen)[k] = Waiting[k]
    <3>1. rlen - 1 + 1 = rlen /\ \A k \in 1..rlen : 1 + k - 1 = k
      BY <1>3
    <3>2. 1 <= rlen
      BY <1>1
    <3>3. \A k \in 1..(rlen - 1 + 1) : SubSeq(Waiting, 1, rlen)[k] = Waiting[1 + k - 1]
      BY <1>3, <2>1, SubSeqProperties
    <3>4. Len(SubSeq(Waiting, 1, rlen)) = rlen - 1 + 1 /\ SubSeq(Waiting, 1, rlen) \in Seq(Bytes)
      BY <1>3, <2>1, <3>2, SubSeqProperties
    <3> QED BY <3>1, <3>3, <3>4
  <2>3. heard' = rdata
    BY DEF ReadEnd
  <2>4. \A k \in 1..Len(rdata) : rdata[k] = SubSeq(Waiting, 1, rlen)[k]
    BY <1>1, <1>3, <1>5, <2>2
  <2> QED BY <1>1, <1>2, <2>2, <2>3, <2>4, SeqEqual
<1>9. Waiting' = SubSeq(Waiting, rlen + 1, Used)
  <2> DEFINE rest == SubSeq(Waiting, rlen + 1, Used)
  <2>1. \A k \in (rlen + 1)..Used : Waiting[k] \in Bytes
    BY <1>3, <1>7
  <2>2. /\ rest \in Seq(Bytes)
        /\ Len(rest) = IF rlen + 1 <= Used THEN Used - (rlen + 1) + 1 ELSE 0
        /\ \A k \in 1..(Used - (rlen + 1) + 1) : rest[k] = Waiting[rlen + 1 + k - 1]
    BY <1>3, <2>1, SubSeqProperties
  <2>3. Len(rest) = Used - rlen
    BY <1>1, <1>3, <2>2
  <2>4. ASSUME NEW k \in 1..(Used - rlen) PROVE Waiting'[k] = rest[k]
    <3>1. /\ k \in 1..(Used - (rlen + 1) + 1) /\ rlen + 1 + k - 1 = rlen + k
          /\ rlen + k \in 1..Used /\ k - 1 \in 0..(Size - 1 - rlen)
      BY <1>1, <1>2, <1>3
    <3>2. rest[k] = Waiting[rlen + k]
      BY <2>2, <3>1
    <3>3. Cell(EndPos(readpos, rlen), k - 1) = Cell(readpos, rlen + (k - 1))
      BY <1>2, <1>3, <3>1, EndPosFacts
    <3>4. rlen + (k - 1) = (rlen + k) - 1
      BY <1>3
    <3> QED BY <1>5, <1>6, <3>1, <3>2, <3>3, <3>4
  <2> HIDE DEF rest
  <2> QED BY <1>6, <2>2, <2>3, <2>4, SeqEqual DEF rest
<1>10. rlen \in 1..Len(Waiting) /\ UNCHANGED said
  BY <1>1, <1>5 DEF ReadEnd, writer
<1> QED BY <1>5, <1>8, <1>9, <1>10 DEF Queue!Read

LEMMA StepMaps == Inv /\ Inv' /\ [FifoNext]_fifoVars => [Queue!Next]_(Queue!vars)
<1> SUFFICES ASSUME Inv, Inv', [FifoNext]_fifoVars
             PROVE  Queue!Next \/ UNCHANGED <<Waiting, said, heard>>
  BY DEF Queue!vars
<1> USE SfifoAssumption
<1>f. /\ Used = Gap(readpos, writepos) /\ Used \in 0..(Size - 1)
      /\ readpos \in Positions /\ writepos \in Positions
      /\ buffer \in [Cells -> Bytes] /\ wcount \in 0..Len(wdata)
      /\ Space = Size - 1 - Used
  BY InvFacts DEF Inv, FifoTypeOK
<1>1. ASSUME NEW data, WriteBegin(data)
      PROVE  UNCHANGED <<Waiting, said, heard>>
  <2>1. wpc # "reset" /\ wpc' # "reset" /\ UNCHANGED <<readpos, writepos, buffer, said, heard>>
    BY <1>1 DEF WriteBegin, reader
  <2> QED BY <2>1, SameWaiting
<1>2. CASE CopyIn
  <2>1. /\ wpc = "copy" /\ wpc # "reset" /\ wpc' # "reset"
        /\ UNCHANGED <<readpos, writepos, said, heard>>
    BY <1>2 DEF CopyIn, reader
  <2>2. wcount \in 0..(Size - 2 - Gap(readpos, writepos)) /\ wcount \in 0..(Size - 1)
    BY <1>2, <1>f, <2>1 DEF CopyIn, Inv, WriterInv
  <2>3. ASSUME NEW k \in 1..Used
        PROVE  buffer'[Cell(readpos, k - 1)] = buffer[Cell(readpos, k - 1)]
    <3>1. k - 1 \in 0..(Gap(readpos, writepos) - 1) /\ k - 1 \in 0..(Size - 1)
      BY <1>f
    <3>2. Cell(readpos, k - 1) # Cell(writepos, wcount)
      BY <1>f, <2>2, <3>1, FreeCells
    <3>3. Cell(readpos, k - 1) \in Cells
      BY <1>f, <3>1, CellFacts
    <3> QED BY <1>2, <1>f, <3>2, <3>3 DEF CopyIn
  <2>4. Waiting' = Waiting
    BY <2>1, <2>3, SameWaiting
  <2> QED BY <2>1, <2>4
<1>3. CASE WriteEnd
  BY <1>3, WriteEndMaps DEF Queue!Next
<1>4. ASSUME NEW len, wpc # "reset", ReadBegin(len)
      PROVE  UNCHANGED <<Waiting, said, heard>>
  <2>1. wpc' # "reset" /\ UNCHANGED <<readpos, writepos, buffer, said, heard>>
    BY <1>4 DEF ReadBegin, writer
  <2> QED BY <1>4, <2>1, SameWaiting
<1>5. CASE CopyOut
  <2>1. wpc # "reset" /\ wpc' # "reset" /\ UNCHANGED <<readpos, writepos, buffer, said, heard>>
    BY <1>5 DEF CopyOut, writer, Inv, WriterInv
  <2> QED BY <2>1, SameWaiting
<1>6. CASE ReadEnd
  BY <1>6, ReadEndMaps DEF Queue!Next
<1>7. CASE rpc = "out" /\ ResetRead
  <2>1. wpc' = "reset" /\ UNCHANGED <<said, heard>>
    BY <1>7 DEF ResetRead, reader
  <2>2. Waiting' = <<>>
    BY <2>1 DEF Waiting
  <2> QED BY <2>1, <2>2 DEF Queue!Next, Queue!Flush
<1>8. ASSUME NEW ring, ResetWrite(ring)
      PROVE  UNCHANGED <<Waiting, said, heard>>
  <2>1. wpc = "reset" /\ readpos' = 0 /\ writepos' = 0 /\ UNCHANGED <<said, heard>>
    BY <1>8 DEF ResetWrite, reader, Inv, WriterInv
  <2>2. Waiting = <<>>
    BY <2>1, NothingWaits
  <2>3. Used' = 0
    <3>1. Used' = Gap(0, 0)
      BY <2>1, UsedIsGap DEF Used, Positions
    <3> QED BY <3>1 DEF Gap
  <2>4. (Inv /\ (wpc = "reset" \/ Used = 0))' => (Waiting = <<>>)'
    BY NothingWaits, PTL
  <2>5. Waiting' = <<>>
    BY <2>3, <2>4
  <2> QED BY <2>1, <2>2, <2>5
<1>9. CASE UNCHANGED fifoVars
  <2>1. Waiting' = Waiting
    BY <1>9 DEF fifoVars, Waiting, Used, writer
  <2> QED BY <1>9, <2>1 DEF fifoVars, writer, reader
<1> QED BY <1>1, <1>2, <1>3, <1>4, <1>5, <1>6, <1>7, <1>8, <1>9 DEF FifoNext

(* For any size of the ring and any interleaving of the steps of its two   *)
(* sides, the bytes come out of the FIFO once and in order.                *)
THEOREM FifoImplementsQueue == FifoSpec => ImplementsQueue
<1>1. FifoSpec => []Inv
  BY FifoInvariant
<1>2. []Inv /\ [][FifoNext]_fifoVars => [][Queue!Next]_(Queue!vars)
  BY StepMaps, PTL
<1>3. FifoInit => Queue!Init
  BY InitMaps
<1> QED BY <1>1, <1>2, <1>3, PTL DEF FifoSpec, ImplementsQueue, Queue!Spec

-----------------------------------------------------------------------------
(* The driver, a user of the FIFO that keeps to its contract.              *)

(* Which steps of the FIFO belong to which task of the main thread.        *)
TaskInv ==
  /\ wpc = "copy" => task = "write" /\ Len(wdata) <= left
  /\ wpc = "reset" => task \in {"flush", "close", "open"}
  /\ task = "write" => ~menu
  /\ task = "flush" => menu /\ wpc = "reset"
  /\ menu => rpc = "out"

(* sound.c, the driver and the audio thread agree; they are paused while   *)
(* the device is closed or opened.                                         *)
PauseInv ==
  /\ sound_initted <=> playdev
  /\ sound_rendering <=> ~paused
  /\ task \in {"close", "open"} => paused /\ rpc = "out"
  /\ task \notin {"close", "open"} => (sound_rendering <=> playdev /\ ~issuspended)
  /\ task = "close" => playdev
  /\ ~playdev => paused

(* If the audio thread runs on in the menu, there is nothing for it to     *)
(* play, and the resets of sound_flush_psp change nothing.                 *)
MenuInv == menu /\ ~paused => readpos = 0 /\ writepos = 0

FlagsTypeOK ==
  /\ paused \in BOOLEAN /\ sound_rendering \in BOOLEAN /\ sound_initted \in BOOLEAN
  /\ playdev \in BOOLEAN /\ issuspended \in BOOLEAN

ControlTypeOK ==
  /\ FlagsTypeOK /\ menu \in BOOLEAN
  /\ task \in {"none", "write", "flush", "close", "open"}
  /\ sids \in 0..MaxSids /\ left \in Nat

SoundInv == ControlTypeOK /\ Inv /\ TaskInv /\ PauseInv /\ MenuInv

-----------------------------------------------------------------------------
LEMMA SoundInit == Init => SoundInv
<1> SUFFICES ASSUME Init PROVE SoundInv
  OBVIOUS
<1>1. Inv
  BY InitInv DEF Init
<1>2. sids \in 0..MaxSids /\ left \in Nat
  BY SoundAssumption DEF Init
<1>3. ControlTypeOK
  BY <1>2 DEF Init, ControlTypeOK, FlagsTypeOK
<1> QED BY <1>1, <1>3 DEF Init, FifoInit, SoundInv, TaskInv, PauseInv, MenuInv

(* Every step of the two threads is a step of the FIFO, or none.           *)
LEMMA StepKeepsContract == SoundInv /\ [Next]_vars => [FifoNext]_fifoVars
<1> SUFFICES ASSUME SoundInv, [Next]_vars PROVE FifoNext \/ UNCHANGED fifoVars
  OBVIOUS
<1>f. /\ Used = Gap(readpos, writepos) /\ Used \in 0..(Size - 1)
      /\ Space = Size - 1 - Used /\ left \in Nat
      /\ readpos \in Positions /\ writepos \in Positions
      /\ buffer \in [Cells -> Bytes]
  BY InvFacts DEF SoundInv, ControlTypeOK, Inv, FifoTypeOK
<1>1. CASE Callback
  <2>1. wpc # "reset"
    <3>1. ASSUME wpc = "reset" PROVE Used = 0
      <4>1. readpos = 0 /\ writepos = 0
        BY <1>1, <3>1 DEF Callback, SoundInv, TaskInv, PauseInv, MenuInv
      <4> QED BY <1>f, <4>1, SfifoAssumption DEF Gap
    <3> QED BY <1>1, <1>f, <3>1 DEF Callback, ReadBegin
  <2> QED BY <1>1, <2>1, SoundAssumption DEF Callback, FifoNext
<1>2. CASE CopyOut \/ ReadEnd
  BY <1>2 DEF FifoNext
<1>3. CASE AudioSleeps /\ Settings
  <2>1. CASE Suspend \/ Resume \/ EnterMenu \/ LeaveMenu \/ SoundFlush
    BY <2>1 DEF Suspend, Resume, EnterMenu, LeaveMenu, SoundFlush
  <2>2. CASE FlushPsp \/ CloseReset \/ OpenReset
    BY <1>3, <2>2 DEF FlushPsp, CloseReset, OpenReset, AudioSleeps, FifoNext
  <2>3. CASE FlushEnd \/ CloseEnd
    BY <1>f, <2>3 DEF FlushEnd, CloseEnd, FifoNext
  <2>4. CASE OpenEnd
    BY <2>4 DEF OpenEnd, FifoNext
  <2>5. CASE Close \/ ReadSids \/ Open
    BY <2>5 DEF Close, ReadSids, SoundClose, Open
  <2> QED BY <1>3, <2>1, <2>2, <2>3, <2>4, <2>5 DEF Settings
<1>4. CASE AudioSleeps /\ Writing
  <2>1. CASE WriteSome
    <3>1. PICK data \in [1..Least(Space, left) -> Bytes] : WriteBegin(data)
      BY <2>1 DEF WriteSome
    <3>2. Space \in 1..(Size - 1)
      BY <1>f, <3>1, SfifoAssumption DEF WriteBegin
    <3>3. left > 0
      BY <2>1 DEF WriteSome
    <3>4. Least(Space, left) \in 1..(Size - 1)
      BY <1>f, <3>2, <3>3, SfifoAssumption DEF Least
    <3> QED BY <3>1, <3>4 DEF FifoNext
  <2>2. CASE WriteStep \/ WriteMore
    BY <2>2 DEF WriteStep, WriteMore, FifoNext
  <2>3. CASE WriteReturns
    BY <2>3 DEF WriteReturns
  <2> QED BY <1>4, <2>1, <2>2, <2>3 DEF Writing
<1>5. CASE UNCHANGED vars
  BY <1>5 DEF vars
<1> QED BY <1>1, <1>2, <1>3, <1>4, <1>5 DEF Next, Audio, Main

ControlInv == ControlTypeOK /\ TaskInv /\ PauseInv /\ MenuInv

(* The audio thread.                                                       *)
LEMMA AudioKeeps == ASSUME SoundInv, Audio PROVE ControlInv'
<1>1. ControlTypeOK'
  BY DEF SoundInv, Audio, Callback, ControlTypeOK, FlagsTypeOK, control, driver, engine
<1>2. CASE Callback
  <2>1. /\ ~paused /\ rpc = "out" /\ Used > 0
        /\ UNCHANGED <<control, readpos, writepos, writer>>
    BY <1>2 DEF Callback, ReadBegin
  <2>2. ~menu
    <3>1. ASSUME menu PROVE FALSE
      <4>1. readpos = 0 /\ writepos = 0 /\ readpos \in Positions
        BY <2>1, <3>1 DEF SoundInv, MenuInv, Inv, FifoTypeOK
      <4>2. Used = Gap(0, 0)
        BY <4>1, UsedIsGap DEF Used
      <4> QED BY <2>1, <4>2 DEF Gap
    <3> QED BY <3>1 DEF SoundInv, ControlTypeOK
  <2> QED BY <1>1, <2>1, <2>2
          DEF SoundInv, ControlInv, TaskInv, PauseInv, MenuInv, control, driver, engine, writer
<1>3. CASE (CopyOut \/ ReadEnd) /\ UNCHANGED control
  <2>1. rpc = "copy" /\ UNCHANGED <<control, writepos, writer>>
    BY <1>3 DEF CopyOut, ReadEnd
  <2> QED BY <1>1, <2>1
          DEF SoundInv, ControlInv, TaskInv, PauseInv, MenuInv, control, driver, engine, writer
<1> QED BY <1>2, <1>3 DEF Audio

(* What sound_suspend and sound_resume leave behind.                       *)
LEMMA SuspendEffect ==
  ASSUME SoundInv, task \notin {"close", "open"}, SoundSuspend
  PROVE  /\ FlagsTypeOK'
         /\ paused' /\ ~sound_rendering'
         /\ playdev' => issuspended'
         /\ sound_initted' <=> playdev'
<1>1. /\ FlagsTypeOK
      /\ sound_initted <=> playdev
      /\ sound_rendering <=> ~paused
      /\ sound_rendering <=> playdev /\ ~issuspended
  BY DEF SoundInv, PauseInv, ControlTypeOK
<1>2. CASE playdev /\ ~issuspended
  BY <1>1, <1>2 DEF SoundSuspend, PspSuspend, FlagsTypeOK
<1>3. CASE ~(playdev /\ ~issuspended)
  BY <1>1, <1>3 DEF SoundSuspend, driver, engine, FlagsTypeOK
<1> QED BY <1>2, <1>3

LEMMA ResumeEffect ==
  ASSUME SoundInv, task \notin {"close", "open"}, SoundResume
  PROVE  /\ FlagsTypeOK'
         /\ sound_rendering' <=> ~paused'
         /\ sound_rendering' <=> playdev' /\ ~issuspended'
         /\ sound_initted' <=> playdev'
         /\ playdev' <=> playdev
<1>1. /\ FlagsTypeOK
      /\ sound_initted <=> playdev
      /\ sound_rendering <=> ~paused
      /\ sound_rendering <=> playdev /\ ~issuspended
  BY DEF SoundInv, PauseInv, ControlTypeOK
<1>2. CASE playdev /\ issuspended
  BY <1>1, <1>2 DEF SoundResume, PspResume, FlagsTypeOK
<1>3. CASE ~(playdev /\ issuspended)
  BY <1>1, <1>3 DEF SoundResume, driver, engine, FlagsTypeOK
<1> QED BY <1>2, <1>3

(* The main thread, one step of it after the other.                        *)
LEMMA MainKeeps == ASSUME SoundInv, Main PROVE ControlInv'
<1> USE SoundAssumption
<1>0. rpc = "out"
  BY DEF Main, AudioSleeps
<1>1. CASE Suspend \/ EnterMenu
  <2>1. /\ task = "none" /\ SoundSuspend
        /\ UNCHANGED <<fifoVars, task, sids, left>> /\ menu' \in BOOLEAN
    BY <1>1 DEF Suspend, EnterMenu, MainIsFree, SoundInv, ControlTypeOK
  <2>2. /\ FlagsTypeOK' /\ paused' /\ ~sound_rendering'
        /\ playdev' => issuspended'
        /\ sound_initted' <=> playdev'
    BY <2>1, SuspendEffect
  <2>3. UNCHANGED <<readpos, writepos, wpc, wdata, rpc>>
    BY <2>1 DEF fifoVars, writer, reader
  <2>4. ControlTypeOK'
    BY <2>1, <2>2 DEF SoundInv, ControlTypeOK
  <2>5. TaskInv'
    BY <1>0, <2>1, <2>3 DEF SoundInv, ControlTypeOK, TaskInv
  <2>6. PauseInv'
    BY <1>0, <2>1, <2>2, <2>3 DEF PauseInv
  <2>7. MenuInv'
    BY <2>1, <2>2, <2>3 DEF SoundInv, ControlTypeOK, MenuInv, PauseInv
  <2> QED BY <2>4, <2>5, <2>6, <2>7 DEF ControlInv
<1>2. CASE Resume \/ LeaveMenu
  <2>1. /\ task = "none" /\ SoundResume /\ ~menu' /\ menu' \in BOOLEAN
        /\ UNCHANGED <<fifoVars, task, sids, left>>
    <3>1. menu \in BOOLEAN
      BY DEF SoundInv, ControlTypeOK
    <3>2. CASE Resume
      BY <3>1, <3>2 DEF Resume, MainIsFree
    <3>3. CASE LeaveMenu
      BY <3>3 DEF LeaveMenu, MainIsFree
    <3> QED BY <1>2, <3>2, <3>3
  <2>2. /\ FlagsTypeOK'
        /\ sound_rendering' <=> ~paused'
        /\ sound_rendering' <=> playdev' /\ ~issuspended'
        /\ sound_initted' <=> playdev'
    BY <2>1, ResumeEffect
  <2>3. UNCHANGED <<readpos, writepos, wpc, wdata, rpc>>
    BY <2>1 DEF fifoVars, writer, reader
  <2>4. ControlTypeOK'
    BY <2>1, <2>2 DEF SoundInv, ControlTypeOK
  <2>5. TaskInv'
    BY <1>0, <2>1, <2>3 DEF SoundInv, ControlTypeOK, TaskInv
  <2>6. PauseInv'
    BY <1>0, <2>1, <2>2, <2>3 DEF PauseInv
  <2>7. MenuInv'
    BY <2>1, <2>2, <2>3 DEF SoundInv, ControlTypeOK, MenuInv, PauseInv
  <2> QED BY <2>4, <2>5, <2>6, <2>7 DEF ControlInv
<1>3. CASE FlushPsp
  BY <1>0, <1>3 DEF FlushPsp, ResetRead, MainIsFree, SoundInv, ControlInv, ControlTypeOK, FlagsTypeOK, TaskInv, PauseInv, MenuInv, reader, driver, engine
<1>4. CASE FlushEnd
  BY <1>0, <1>4 DEF FlushEnd, ResetWrite, Inv, WriterInv, SoundInv, ControlInv, ControlTypeOK, FlagsTypeOK, TaskInv, PauseInv, MenuInv, reader, driver, engine
<1>5. CASE Close \/ ReadSids
  <2>1. CASE \E n \in 0..MaxSids : SoundClose(n)
    <3>1. PICK n \in 0..MaxSids : SoundClose(n)
      BY <2>1
    <3>2. /\ task = "none" /\ task' = "close" /\ playdev /\ sids' = n
          /\ UNCHANGED <<fifoVars, sound_initted, playdev, issuspended, menu, left>>
      BY <3>1 DEF SoundClose, MainIsFree, engine
    <3>3. paused' = TRUE /\ sound_rendering' = FALSE
      BY <3>1 DEF SoundClose, PspSuspend, SoundInv, PauseInv, ControlTypeOK
    <3>4. UNCHANGED <<readpos, writepos, wpc, wdata, rpc>>
      BY <3>2 DEF fifoVars, writer, reader
    <3>5. ControlTypeOK'
      BY <3>1, <3>2, <3>3 DEF SoundInv, ControlTypeOK, FlagsTypeOK
    <3>6. TaskInv' /\ MenuInv'
      BY <1>0, <3>2, <3>3, <3>4 DEF SoundInv, TaskInv, MenuInv
    <3>7. PauseInv'
      BY <1>0, <3>2, <3>3, <3>4 DEF SoundInv, PauseInv
    <3> QED BY <3>5, <3>6, <3>7 DEF ControlInv
  <2>2. CASE \E n \in 1..MaxSids : sids' = n /\ ~playdev /\ UNCHANGED <<fifoVars, driver, engine, menu, task, left>>
    BY <1>0, <2>2 DEF SoundInv, ControlInv, ControlTypeOK, FlagsTypeOK, TaskInv, PauseInv, MenuInv, fifoVars, writer, reader, driver, engine
  <2>3. 0 \in 0..MaxSids /\ 1..MaxSids \subseteq 0..MaxSids
    OBVIOUS
  <2> QED BY <1>5, <2>1, <2>2, <2>3 DEF Close, ReadSids
<1>6. CASE CloseReset \/ OpenReset
  BY <1>0, <1>6 DEF CloseReset, OpenReset, ResetRead, SoundInv, ControlInv, ControlTypeOK, FlagsTypeOK, TaskInv, PauseInv, MenuInv, control, reader, driver, engine
<1>7. CASE CloseEnd
  BY <1>0, <1>7 DEF CloseEnd, ResetWrite, Inv, WriterInv, SoundInv, ControlInv, ControlTypeOK, FlagsTypeOK, TaskInv, PauseInv, MenuInv, reader
<1>8. CASE Open
  <2>1. /\ task = "none" /\ SoundSuspend /\ task' = "open"
        /\ UNCHANGED <<fifoVars, menu, sids, left>>
    BY <1>8 DEF Open
  <2>2. /\ FlagsTypeOK' /\ paused' /\ ~sound_rendering'
        /\ playdev' => issuspended'
        /\ sound_initted' <=> playdev'
    BY <2>1, SuspendEffect
  <2>3. UNCHANGED <<readpos, writepos, wpc, wdata, rpc>>
    BY <2>1 DEF fifoVars, writer, reader
  <2>4. ControlTypeOK'
    BY <2>1, <2>2 DEF SoundInv, ControlTypeOK
  <2>5. TaskInv'
    BY <1>0, <2>1, <2>3 DEF SoundInv, ControlTypeOK, TaskInv
  <2>6. PauseInv'
    BY <1>0, <2>1, <2>2, <2>3 DEF PauseInv
  <2>7. MenuInv'
    BY <2>1, <2>2, <2>3 DEF SoundInv, ControlTypeOK, MenuInv, PauseInv
  <2> QED BY <2>4, <2>5, <2>6, <2>7 DEF ControlInv
<1>9. CASE OpenEnd
  <2>1. PICK ring \in [Cells -> Bytes] : ResetWrite(ring)
    BY <1>9 DEF OpenEnd
  <2>2. readpos = 0
    BY <2>1 DEF ResetWrite, SoundInv, Inv, WriterInv
  <2>3. /\ task = "open" /\ task' = "none" /\ wpc' = "out" /\ writepos' = 0
        /\ UNCHANGED <<readpos, rpc, menu, left>>
        /\ ~paused' /\ sound_rendering' /\ sound_initted' /\ playdev' /\ ~issuspended'
    BY <1>9, <2>1 DEF OpenEnd, ResetWrite, reader
  <2>4. ControlTypeOK'
    <3>1. sids' \in 0..MaxSids
      BY <1>9 DEF OpenEnd, SoundInv, ControlTypeOK
    <3> QED BY <1>9, <3>1 DEF OpenEnd, SoundInv, ControlTypeOK, FlagsTypeOK
  <2>5. TaskInv' /\ MenuInv'
    BY <1>0, <2>2, <2>3 DEF TaskInv, MenuInv
  <2>6. PauseInv'
    BY <1>9, <2>3 DEF OpenEnd, PauseInv
  <2> QED BY <2>4, <2>5, <2>6 DEF ControlInv
<1>10. CASE SoundFlush
  <2>1. /\ task = "none" /\ SoundResume /\ ~menu /\ task' = "write" /\ left' \in Nat
        /\ UNCHANGED <<fifoVars, menu, sids>>
    BY <1>10 DEF SoundFlush, MainIsFree
  <2>2. /\ FlagsTypeOK'
        /\ sound_rendering' <=> ~paused'
        /\ sound_rendering' <=> playdev' /\ ~issuspended'
        /\ sound_initted' <=> playdev'
    BY <2>1, ResumeEffect
  <2>3. UNCHANGED <<readpos, writepos, wpc, wdata, rpc>>
    BY <2>1 DEF fifoVars, writer, reader
  <2>4. ControlTypeOK'
    BY <2>1, <2>2 DEF SoundInv, ControlTypeOK
  <2>5. TaskInv'
    BY <1>0, <2>1, <2>3 DEF SoundInv, ControlTypeOK, TaskInv
  <2>6. PauseInv'
    BY <1>0, <2>1, <2>2, <2>3 DEF PauseInv
  <2>7. MenuInv'
    BY <2>1, <2>2, <2>3 DEF SoundInv, ControlTypeOK, MenuInv, PauseInv
  <2> QED BY <2>4, <2>5, <2>6, <2>7 DEF ControlInv
<1>11. CASE WriteSome
  <2>1. PICK data \in [1..Least(Space, left) -> Bytes] : WriteBegin(data)
    BY <1>11 DEF WriteSome
  <2>2. /\ Len(data) \in 1..Space /\ Space \in Int /\ left \in Nat
    BY <2>1, InvFacts, SfifoAssumption DEF WriteBegin, SoundInv, ControlTypeOK
  <2>3. Len(data) <= left
    <3>1. Least(Space, left) \in Nat /\ Least(Space, left) <= left
      BY <2>2 DEF Least
    <3>2. data \in Seq(Bytes)
      BY <2>1, <3>1, SeqDef
    <3>3. Len(data) = Least(Space, left)
      BY <2>1, <3>1, <3>2, LenProperties
    <3> QED BY <3>1, <3>3
  <2> QED BY <1>0, <1>11, <2>1, <2>3
          DEF WriteSome, WriteBegin, SoundInv, ControlInv, ControlTypeOK, FlagsTypeOK, TaskInv, PauseInv, MenuInv, control, reader, driver, engine
<1>12. CASE WriteStep
  BY <1>0, <1>12 DEF WriteStep, CopyIn, SoundInv, ControlInv, ControlTypeOK, FlagsTypeOK, TaskInv, PauseInv, MenuInv, control, reader, driver, engine
<1>13. CASE WriteMore
  <2>1. left' \in Nat
    <3>1. wpc = "copy" /\ left' = left - Len(wdata)
      BY <1>13 DEF WriteMore, WriteEnd
    <3>2. Len(wdata) \in Nat /\ left \in Nat /\ Len(wdata) <= left
      BY <3>1, InvFacts, SfifoAssumption DEF SoundInv, ControlTypeOK, TaskInv
    <3> QED BY <3>1, <3>2
  <2> QED BY <1>0, <1>13, <2>1 DEF WriteMore, WriteEnd, SoundInv, ControlInv, ControlTypeOK, FlagsTypeOK, TaskInv, PauseInv, MenuInv, reader, driver, engine
<1>14. CASE WriteReturns
  BY <1>0, <1>14 DEF WriteReturns, SoundInv, ControlInv, ControlTypeOK, FlagsTypeOK, TaskInv, PauseInv, MenuInv, fifoVars, writer, reader, driver, engine
<1> QED BY <1>1, <1>2, <1>3, <1>4, <1>5, <1>6, <1>7, <1>8, <1>9, <1>10, <1>11, <1>12,
           <1>13, <1>14 DEF Main, Settings, Writing

LEMMA SoundStep == SoundInv /\ [Next]_vars => SoundInv'
<1> SUFFICES ASSUME SoundInv, [Next]_vars PROVE SoundInv'
  OBVIOUS
<1>1. Inv'
  <2>1. Inv /\ [FifoNext]_fifoVars
    BY StepKeepsContract DEF SoundInv
  <2> QED BY <2>1, StepInv
<1>2. CASE UNCHANGED vars
  BY <1>1, <1>2 DEF vars, control, SoundInv, ControlInv, ControlTypeOK, FlagsTypeOK, TaskInv, PauseInv, MenuInv, fifoVars, writer, reader, driver, engine
<1>3. CASE Audio
  BY <1>1, <1>3, AudioKeeps DEF SoundInv, ControlInv
<1>4. CASE Main
  BY <1>1, <1>4, MainKeeps DEF SoundInv, ControlInv
<1> QED BY <1>2, <1>3, <1>4 DEF Next

THEOREM SoundInvariant == Spec => []SoundInv
BY SoundInit, SoundStep, PTL DEF Spec

-----------------------------------------------------------------------------
(* Every part of the driver's state keeps its type, whatever the size of   *)
(* the ring: no position leaves the ring, no write counts below zero.      *)
THEOREM SoundIsTyped == Spec => []TypeOK
<1>1. SoundInv => TypeOK
  BY DEF SoundInv, ControlTypeOK, FlagsTypeOK, Inv, TypeOK
<1> QED BY <1>1, SoundInvariant, PTL

(* sound.c, the driver and the audio thread agree whether sound is on.     *)
THEOREM SuspensionIsAgreed == Spec => []SuspensionAgrees
<1>1. SoundInv => SuspensionAgrees
  BY DEF SoundInv, ControlTypeOK, PauseInv, SuspensionAgrees
<1> QED BY <1>1, SoundInvariant, PTL

(* The driver never lets the audio thread copy while it resets positions.  *)
THEOREM SoundKeepsContract == Spec => KeepsContract
<1>1. Init => FifoInit
  BY DEF Init
<1>2. []SoundInv /\ [][Next]_vars => [][FifoNext]_fifoVars
  BY StepKeepsContract, PTL
<1> QED BY <1>1, <1>2, SoundInvariant, PTL DEF Spec, KeepsContract, FifoSpec

(* Whatever settings, menus and snapshots do in between, the audio thread  *)
(* plays the bytes the emulator wrote once and in order.                   *)
THEOREM SoundPlaysInOrder == Spec => ImplementsQueue
BY SoundKeepsContract, FifoImplementsQueue DEF KeepsContract
=============================================================================
