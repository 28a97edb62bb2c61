----------------------------- MODULE ByteQueue ------------------------------
(***************************************************************************)
(* What the FIFO between the emulator and the audio thread promises: the   *)
(* bytes that were written come out once, in their order, and at most      *)
(* Capacity of them wait at a time.                                        *)
(***************************************************************************)
EXTENDS Integers, Sequences

CONSTANTS Bytes, Capacity

VARIABLES
  queue,   \* the bytes that wait
  said,    \* the bytes the last write added
  heard    \* the bytes the last read gave

vars == <<queue, said, heard>>

Init == queue = <<>> /\ said = <<>> /\ heard = <<>>

Chunks == UNION {[1..n -> Bytes] : n \in 1..Capacity}

Write == \E s \in Chunks : /\ Len(queue) + Len(s) <= Capacity
                           /\ queue' = queue \o s
                           /\ said' = s
                           /\ UNCHANGED heard

Read == \E n \in 1..Len(queue) : /\ heard' = SubSeq(queue, 1, n)
                                 /\ queue' = SubSeq(queue, n + 1, Len(queue))
                                 /\ UNCHANGED said

Flush == queue' = <<>> /\ UNCHANGED <<said, heard>>

Next == Write \/ Read \/ Flush

Spec == Init /\ [][Next]_vars
=============================================================================
