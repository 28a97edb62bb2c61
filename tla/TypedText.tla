----------------------------- MODULE TypedText ------------------------------
(***************************************************************************)
(* What the keyboard buffer of the emulator promises: the text it is given *)
(* reaches the keyboard buffer of the KERNAL a piece at a time, in its     *)
(* order, every character once, behind what is there already.              *)
(***************************************************************************)
EXTENDS Naturals, Sequences

CONSTANTS Texts, Keys, Contents

VARIABLES
  waiting,  \* the characters that have not been typed
  buffer    \* the keyboard buffer of the KERNAL

vars == <<waiting, buffer>>

Init == waiting = <<>> /\ buffer = <<>>

Type(text, n) == /\ waiting' = SubSeq(text, n + 1, Len(text))
                 /\ buffer' = buffer \o SubSeq(text, 1, n)

Feed == \E t \in Texts \union {<<>>} :
          \E n \in 0..Len(waiting \o t) : Type(waiting \o t, n)

\* The emulated machine: the user's keys, a character read, memory cleared.
Key   == \E c \in Keys : buffer' = Append(buffer, c) /\ UNCHANGED waiting
Take  == buffer # <<>> /\ buffer' = Tail(buffer) /\ UNCHANGED waiting
Clear == buffer' \in Contents /\ UNCHANGED waiting

Next == Feed \/ Key \/ Take \/ Clear

Spec == Init /\ [][Next]_vars
=============================================================================
