------------------------------- MODULE Sfifo --------------------------------
(***************************************************************************)
(* The lock-free FIFO of the PSP sound driver (arch/psp/sfifo.c): a ring   *)
(* of Size bytes, a position only the reader moves and one only the writer *)
(* moves.  Each call reads both positions once, copies byte after byte,    *)
(* and publishes its own position last; the other side may run between any *)
(* two of these steps.  The positions run from 0 to Size, both ends        *)
(* included: a copy that ends at the end of the ring is not wrapped.       *)
(***************************************************************************)
EXTENDS Integers, Sequences

CONSTANTS
  Size,    \* bytes in the ring, a power of two
  Bytes    \* the values of a byte

ASSUME SfifoAssumption == Size \in Nat /\ Size >= 2 /\ Bytes # {}

VARIABLES
  buffer,    \* the ring
  readpos,   \* Read position
  writepos,  \* Write position
  wpc,       \* where the writer is: outside, copying, or resetting positions
  wdata,     \* the bytes this sfifo_write accepted
  wcount,    \* how many of them are copied
  rpc,       \* where the reader is
  rlen,      \* how many bytes this sfifo_read will give
  rdata,     \* the ones copied so far
  said,      \* what the last complete sfifo_write accepted
  heard      \* what the last complete sfifo_read gave

writer   == <<wpc, wdata, wcount, said>>
reader   == <<rpc, rlen, rdata, heard>>
fifoVars == <<buffer, readpos, writepos, writer, reader>>

Cells     == 0..(Size - 1)
Positions == 0..Size

Used  == (writepos - readpos) % Size
SpaceAllCells == Size - Used
Space == Size - 1 - Used

Least(m, n) == IF m < n THEN m ELSE n

(* The two memcpy of a copy that starts at position p: its byte k goes to  *)
(* (or comes from) Cell(p, k), and its end is EndPos(p, len).              *)
Cell(p, k) == IF p + k < Size THEN p + k ELSE p + k - Size

EndPosNoWrap(p, len) == p + len
EndPos(p, len) == IF p + len > Size THEN p + len - Size ELSE p + len

(* sfifo_init: nothing is known of the bytes of a new ring.                *)
FifoInit == /\ buffer \in [Cells -> Bytes]
            /\ readpos = 0 /\ writepos = 0
            /\ wpc = "out" /\ wdata = <<>> /\ wcount = 0 /\ said = <<>>
            /\ rpc = "out" /\ rlen = 0 /\ rdata = <<>> /\ heard = <<>>

-----------------------------------------------------------------------------
(* sfifo_write(f, buf, len), of which data is the part there is room for   *)
WriteBegin(data) ==
  /\ wpc = "out"
  /\ Len(data) \in 1..Space
  /\ wpc' = "copy" /\ wdata' = data /\ wcount' = 0
  /\ UNCHANGED <<buffer, readpos, writepos, said, reader>>

CopyIn == /\ wpc = "copy" /\ wcount < Len(wdata)
          /\ buffer' = [buffer EXCEPT ![Cell(writepos, wcount)] = wdata[wcount + 1]]
          /\ wcount' = wcount + 1
          /\ UNCHANGED <<readpos, writepos, wpc, wdata, said, reader>>

WriteEnd == /\ wpc = "copy" /\ wcount = Len(wdata)
            /\ writepos' = EndPos(writepos, Len(wdata))
            /\ wpc' = "out" /\ wdata' = <<>> /\ wcount' = 0
            /\ said' = wdata
            /\ UNCHANGED <<buffer, readpos, reader>>

(* sfifo_read(f, buf, len); nothing happens if nothing waits               *)
ReadBegin(len) ==
  /\ rpc = "out"
  /\ Used > 0
  /\ rpc' = "copy" /\ rlen' = Least(len, Used) /\ rdata' = <<>>
  /\ UNCHANGED <<buffer, readpos, writepos, writer, heard>>

CopyOut == /\ rpc = "copy" /\ Len(rdata) < rlen
           /\ rdata' = Append(rdata, buffer[Cell(readpos, Len(rdata))])
           /\ UNCHANGED <<buffer, readpos, writepos, writer, rpc, rlen, heard>>

ReadEnd == /\ rpc = "copy" /\ Len(rdata) = rlen
           /\ readpos' = EndPos(readpos, rlen)
           /\ rpc' = "out" /\ rlen' = 0 /\ rdata' = <<>>
           /\ heard' = rdata
           /\ UNCHANGED <<buffer, writepos, writer>>

(* sfifo_flush, and sfifo_init, which also brings a new ring: both sides'  *)
(* positions are reset one after the other by the writer.                  *)
ResetRead == /\ wpc = "out"
             /\ wpc' = "reset"
             /\ readpos' = 0
             /\ UNCHANGED <<buffer, writepos, wdata, wcount, said, reader>>

ResetWrite(ring) ==
  /\ wpc = "reset"
  /\ wpc' = "out"
  /\ writepos' = 0
  /\ buffer' = ring
  /\ UNCHANGED <<readpos, wdata, wcount, said, reader>>

-----------------------------------------------------------------------------
(* What the FIFO asks of its users: the reader stays out while the         *)
(* positions are reset.  Nothing else is asked.                            *)
FifoNext ==
  \/ \E n \in 1..(Size - 1) : \E data \in [1..n -> Bytes] : WriteBegin(data)
  \/ CopyIn \/ WriteEnd
  \/ wpc # "reset" /\ \E len \in 1..Size : ReadBegin(len)
  \/ CopyOut \/ ReadEnd
  \/ rpc = "out" /\ ResetRead
  \/ \E ring \in [Cells -> Bytes] : ResetWrite(ring)

FifoSpec == FifoInit /\ [][FifoNext]_fifoVars

-----------------------------------------------------------------------------
Strings(n) == UNION {[1..k -> Bytes] : k \in 0..n}

FifoTypeOK ==
  /\ buffer \in [Cells -> Bytes]
  /\ readpos \in Positions /\ writepos \in Positions
  /\ wpc \in {"out", "copy", "reset"}
  /\ wdata \in Strings(Size - 1) /\ wcount \in 0..Len(wdata) /\ said \in Strings(Size - 1)
  /\ rpc \in {"out", "copy"}
  /\ rlen \in 0..(Size - 1) /\ rdata \in Strings(rlen) /\ heard \in Strings(Size - 1)

(* The bytes that wait; between the two steps of a reset there are none.   *)
Waiting == IF wpc = "reset" THEN <<>>
           ELSE [k \in 1..Used |-> buffer[Cell(readpos, k - 1)]]

Queue == INSTANCE ByteQueue WITH Capacity <- Size - 1, queue <- Waiting

(* The bytes come out once, in the order they were written, however the    *)
(* steps of the two sides interleave: none is read before it is written,   *)
(* none is overwritten before it is read.                                  *)
ImplementsQueue == Queue!Spec
=============================================================================
