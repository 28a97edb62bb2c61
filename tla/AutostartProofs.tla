-------------------------- MODULE AutostartProofs ---------------------------
(***************************************************************************)
(* Text typed through the keyboard buffer, for any texts, sizes and        *)
(* contents: the alarm finds its RETURN, the KERNAL's buffer is overrun by *)
(* one at the most, and TypedText is implemented.  Then autostart, which   *)
(* types it: it gives back what it borrows and types nothing wrong, for    *)
(* any settings and delays, however often the user boots.  The lemmas      *)
(* about the buffer are on its operators, since the functions of           *)
(* autostart.c, followed one by one, call several of them in one step.     *)
(* The machine that is typed to may do anything.                           *)
(***************************************************************************)
EXTENDS Autostart, Integers, SequenceTheorems,
        WellFoundedInduction, TLAPS

ReturnFirst(k) == k.alarm # "unset" => k.queue # <<>> /\ Head(k.queue) = Return

Own(k) == \E i \in 1..Len(k.buffer) : k.buffer[i] \in Keys

(* While the alarm of a RETURN is pending there is room for it, or the     *)
(* user has taken it.                                                      *)
Room(k) == /\ Len(k.buffer) <= BufferSize + 1
           /\ Len(k.buffer) > BufferSize => Own(k)
           /\ k.alarm # "unset" => /\ Len(k.buffer) <= BufferSize
                                   /\ Len(k.buffer) = BufferSize => Own(k)

Good == {k \in KbdState : ReturnFirst(k) /\ Room(k)}

\* How many characters a flush takes.
Taken(k) == IF Delayed(k) = {} THEN Burst(k) ELSE First(Delayed(k)) - 1

-----------------------------------------------------------------------------
(* The loop of kbdbuf_flush stops in front of the first RETURN.            *)
LEMMA TakenFacts ==
  ASSUME NEW k \in KbdState
  PROVE  /\ Taken(k) \in 0..Len(k.queue)
         /\ Taken(k) <= BufferSize
         /\ Delayed(k) # {} => /\ Taken(k) < BufferSize
                               /\ Taken(k) < Len(k.queue)
                               /\ k.queue[Taken(k) + 1] = Return
<1>1. Len(k.queue) \in Nat
  BY DEF KbdState
<1>2. Burst(k) \in 0..Len(k.queue) /\ Burst(k) <= BufferSize
  BY <1>1, KbdBufAssumption DEF Burst
<1>3. CASE Delayed(k) = {}
  BY <1>1, <1>2, <1>3 DEF Taken
<1>4. CASE Delayed(k) # {}
  <2> DEFINE S == Delayed(k)
  <2>1. S \subseteq Nat
    BY <1>2 DEF Delayed
  <2>2. \E i \in S : \A j \in S : i <= j
    <3> HIDE DEF S
    <3> DEFINE Less == {p \in Nat \X Nat : p[1] < p[2]}
    <3>1. IsWellFoundedOn(Less, Nat)
      BY NatLessThanWellFounded DEF OpToRel
    <3>2. S # {}
      BY <1>4 DEF S
    <3>3. PICK i \in S : \A j \in S : ~(<<j, i>> \in Less)
      <4> HIDE DEF Less
      <4> QED BY <2>1, <3>1, <3>2, WFMin
    <3>4. ASSUME NEW j \in S PROVE i <= j
      <4>1. i \in Nat /\ j \in Nat /\ <<j, i>> \notin Less
        BY <2>1, <3>3
      <4>2. ~(j < i)
        BY <4>1
      <4> QED BY <4>1, <4>2
    <3> QED BY <3>3, <3>4
  <2>3. First(S) \in S
    BY <2>2 DEF First
  <2>4. First(S) \in 1..Burst(k) /\ k.queue[First(S)] = Return
    BY <2>3 DEF Delayed
  <2>5. Taken(k) = First(S) - 1
    BY <1>4 DEF Taken
  <2> HIDE DEF S
  <2>6. First(S) \in Int
    BY <1>1, <1>2, <2>4
  <2>7. First(S) = Taken(k) + 1 /\ Taken(k) \in Int
    BY <2>5, <2>6
  <2>8. Taken(k) + 1 \in 1..Burst(k) /\ k.queue[Taken(k) + 1] = Return
    BY <2>4, <2>7
  <2> QED BY <1>1, <1>2, <2>7, <2>8, KbdBufAssumption
<1> QED BY <1>3, <1>4

LEMMA FlushIs ==
  ASSUME NEW k \in KbdState, MayFlush(k)
  PROVE  Flush(k) = [k EXCEPT !.queue  = SubSeq(k.queue, Taken(k) + 1, Len(k.queue)),
                              !.buffer = k.buffer \o SubSeq(k.queue, 1, Taken(k)),
                              !.alarm  = IF Delayed(k) = {} THEN k.alarm ELSE "set",
                              !.waited = IF Delayed(k) = {} THEN k.waited ELSE 0]
BY DEF Flush, Taken

(* What a part of a sequence is.                                           *)
LEMMA Cut ==
  ASSUME NEW S, NEW q \in Seq(S), NEW n \in 0..Len(q)
  PROVE  /\ SubSeq(q, 1, n) \in Seq(S)
         /\ Len(SubSeq(q, 1, n)) = n
         /\ SubSeq(q, n + 1, Len(q)) \in Seq(S)
         /\ Len(SubSeq(q, n + 1, Len(q))) = Len(q) - n
         /\ n < Len(q) => Head(SubSeq(q, n + 1, Len(q))) = q[n + 1]
<1>1. Len(q) \in Nat /\ \A i \in 1..Len(q) : q[i] \in S
  BY LenProperties, ElementOfSeq
<1>2. /\ SubSeq(q, 1, n) \in Seq(S)
      /\ Len(SubSeq(q, 1, n)) = IF 1 <= n THEN n - 1 + 1 ELSE 0
  <2>1. \A i \in 1..n : q[i] \in S
    BY <1>1
  <2> QED BY <1>1, <2>1, SubSeqProperties
<1>3. /\ SubSeq(q, n + 1, Len(q)) \in Seq(S)
      /\ Len(SubSeq(q, n + 1, Len(q))) = IF n + 1 <= Len(q) THEN Len(q) - (n + 1) + 1 ELSE 0
  <2>1. \A i \in n + 1..Len(q) : q[i] \in S
    BY <1>1
  <2> QED BY <1>1, <2>1, SubSeqProperties
<1>4. ASSUME n < Len(q) PROVE Head(SubSeq(q, n + 1, Len(q))) = q[n + 1]
  <2>1. n + 1 \in 1..Len(q) /\ Len(q) \in n + 1..Len(q)
    BY <1>1, <1>4
  <2> QED BY <2>1, HeadTailOfSubSeq
<1> QED BY <1>1, <1>2, <1>3, <1>4

(* A flush types what it takes from the queue, and stops where the alarm   *)
(* will find its RETURN.                                                   *)
LEMMA FlushIsGood ==
  ASSUME NEW k \in Good
  PROVE  Flush(k) \in Good
<1>1. k \in KbdState
  BY DEF Good
<1>2. CASE ~MayFlush(k)
  BY <1>2 DEF Flush
<1>3. CASE MayFlush(k)
  <2> DEFINE n == Taken(k)
             j == Flush(k)
             typed == SubSeq(k.queue, 1, n)
             rest == SubSeq(k.queue, n + 1, Len(k.queue))
  <2>1. /\ k.queue \in Seq(Chars) /\ k.buffer = <<>> /\ k.alarm = "unset"
        /\ n \in 0..Len(k.queue) /\ n <= BufferSize
    BY <1>1, <1>3, TakenFacts DEF MayFlush, KbdState
  <2>2. typed \in Seq(Chars) /\ Len(typed) = n /\ rest \in Seq(Chars)
    BY <2>1, Cut
  <2>3. typed \in Seq(Chars \union Keys) /\ <<>> \o typed = typed
    BY <2>2, SeqMonotonic, ConcatEmptySeq
  <2>4. j = [k EXCEPT !.queue = rest, !.buffer = typed,
                      !.alarm = IF Delayed(k) = {} THEN "unset" ELSE "set",
                      !.waited = IF Delayed(k) = {} THEN k.waited ELSE 0]
    BY <1>1, <1>3, <2>1, <2>3, FlushIs
  <2>5. /\ j.queue = rest /\ j.buffer = typed
        /\ j.alarm = IF Delayed(k) = {} THEN "unset" ELSE "set"
    BY <1>1, <2>4 DEF KbdState
  <2> HIDE DEF j, typed, rest
  <2>6. j \in KbdState
    <3>1. k.waited \in 0..2 /\ 0 \in 0..2
      BY <1>1 DEF KbdState
    <3>2. CASE Delayed(k) = {}
      <4>1. j = [k EXCEPT !.queue = rest, !.buffer = typed, !.alarm = "unset", !.waited = k.waited]
        BY <2>4, <3>2
      <4> QED BY <1>1, <2>2, <2>3, <3>1, <4>1 DEF KbdState
    <3>3. CASE Delayed(k) # {}
      <4>1. j = [k EXCEPT !.queue = rest, !.buffer = typed, !.alarm = "set", !.waited = 0]
        BY <2>4, <3>3
      <4> QED BY <1>1, <2>2, <2>3, <3>1, <4>1 DEF KbdState
    <3> QED BY <3>2, <3>3
  <2>7. ASSUME Delayed(k) # {}
        PROVE  n < BufferSize /\ rest # <<>> /\ Head(rest) = Return
    <3>1. n < BufferSize /\ n < Len(k.queue) /\ k.queue[n + 1] = Return
      BY <1>1, <2>7, TakenFacts
    <3>2. Len(rest) = Len(k.queue) - n /\ Head(rest) = Return
      BY <2>1, <3>1, Cut DEF rest
    <3>3. Len(k.queue) \in Nat
      BY <2>1, LenProperties
    <3>4. Len(rest) # 0
      BY <2>1, <3>1, <3>2, <3>3
    <3> QED BY <3>1, <3>2, <3>4, EmptySeq
  <2>8. ReturnFirst(j)
    BY <2>5, <2>7 DEF ReturnFirst
  <2>9. Room(j)
    BY <2>1, <2>2, <2>5, <2>7, KbdBufAssumption DEF Room
  <2> QED BY <2>6, <2>8, <2>9 DEF Good, j
<1> QED BY <1>2, <1>3

-----------------------------------------------------------------------------
(* Text is put behind what waits, so the RETURN of the alarm stays first.  *)
LEMMA QueueIsGood ==
  ASSUME NEW k \in Good, NEW text \in Seq(Chars), NEW d \in BOOLEAN
  PROVE  [k EXCEPT !.use_alarm = d, !.queue = @ \o text] \in Good
<1> DEFINE j == [k EXCEPT !.use_alarm = d, !.queue = @ \o text]
           q == k.queue
<1>1. k \in KbdState /\ q \in Seq(Chars) /\ q \o text \in Seq(Chars)
  BY ConcatProperties DEF Good, KbdState
<1>2. j \in KbdState
  BY <1>1 DEF KbdState
<1>3. j.queue = q \o text /\ j.alarm = k.alarm /\ j.buffer = k.buffer
  BY <1>1 DEF KbdState
<1>4. ASSUME q # <<>> PROVE q \o text # <<>> /\ Head(q \o text) = Head(q)
  <2>1. Len(q) \in Nat \ {0} /\ Len(text) \in Nat
    BY <1>1, <1>4, EmptySeq, LenProperties
  <2>2. /\ Len(q \o text) = Len(q) + Len(text)
        /\ (q \o text)[1] = q[1]
    BY <1>1, <2>1, ConcatProperties
  <2>3. Len(q \o text) # 0
    BY <2>1, <2>2
  <2> QED BY <1>1, <1>4, <2>2, <2>3, EmptySeq
<1> HIDE DEF j, q
<1>5. ReturnFirst(j)
  BY <1>3, <1>4 DEF ReturnFirst, Good, q
<1>6. Room(j)
  BY <1>3 DEF Room, Own, Good
<1> QED BY <1>2, <1>5, <1>6 DEF Good, j

LEMMA FeedIsGood ==
  ASSUME NEW k \in Good, NEW text \in Seq(Chars), NEW d \in BOOLEAN
  PROVE  Feed(k, text, d) \in Good
<1>1. k \in KbdState /\ <<>> \in Seq(Chars) /\ k.queue \o <<>> = k.queue
  BY EmptySeq, ConcatEmptySeq DEF Good, KbdState
<1>2. [k EXCEPT !.use_alarm = d] \in Good
  <2>1. [k EXCEPT !.use_alarm = d, !.queue = @ \o <<>>] \in Good
    BY <1>1, QueueIsGood
  <2>2. [k EXCEPT !.use_alarm = d, !.queue = @ \o <<>>]
          = [k EXCEPT !.use_alarm = d, !.queue = k.queue]
    BY <1>1
  <2>3. [k EXCEPT !.use_alarm = d, !.queue = k.queue] = [k EXCEPT !.use_alarm = d]
    BY <1>1 DEF KbdState
  <2> QED BY <2>1, <2>2, <2>3
<1>3. [[k EXCEPT !.use_alarm = d] EXCEPT !.queue = @ \o text]
        = [k EXCEPT !.use_alarm = d, !.queue = @ \o text]
  BY <1>1 DEF KbdState
<1> QED BY <1>2, <1>3, QueueIsGood, FlushIsGood DEF Feed

(* A frame leaves everything but the time.                                 *)
LEMMA PassedIsGood ==
  ASSUME NEW k \in Good, MayPass(k)
  PROVE  Passed(k) \in Good
<1> DEFINE j == Passed(k)
<1>1. k \in KbdState
  BY DEF Good
<1>2. j \in KbdState
  <2> DEFINE f == IF k.frame < LastFrame THEN k.frame + 1 ELSE k.frame
             w == IF k.alarm = "set" THEN k.waited + 1 ELSE k.waited
  <2>1. f \in 0..LastFrame
    BY <1>1, KbdBufAssumption DEF KbdState
  <2>2. w \in 0..2
    BY <1>1 DEF KbdState, MayPass
  <2>3. j = [k EXCEPT !.frame = f, !.waited = w]
    BY <1>1 DEF KbdState, Passed
  <2> HIDE DEF f, w
  <2> QED BY <1>1, <2>1, <2>2, <2>3 DEF KbdState
<1>3. j.queue = k.queue /\ j.alarm = k.alarm /\ j.buffer = k.buffer
  BY <1>1 DEF KbdState, Passed
<1> HIDE DEF j
<1> QED BY <1>2, <1>3 DEF Good, ReturnFirst, Room, Own, j

LEMMA RestartedIsGood ==
  ASSUME NEW k \in Good
  PROVE  Restarted(k) \in Good
<1> DEFINE j == Restarted(k)
<1>1. k \in KbdState
  BY DEF Good
<1>2. j \in KbdState
  <2> DEFINE a == IF k.alarm = "unset" THEN k.alarm ELSE "late"
  <2>1. a \in {"unset", "set", "late"} /\ 0 \in 0..LastFrame /\ 0 \in 0..2
    BY KbdBufAssumption
  <2>2. j = [k EXCEPT !.frame = 0, !.waited = 0, !.alarm = a]
    BY <1>1 DEF KbdState, Restarted
  <2> HIDE DEF a
  <2> QED BY <1>1, <2>1, <2>2 DEF KbdState
<1>3. /\ j.queue = k.queue /\ j.buffer = k.buffer
      /\ j.alarm # "unset" <=> k.alarm # "unset"
  BY <1>1 DEF KbdState, Restarted
<1> HIDE DEF j
<1> QED BY <1>2, <1>3 DEF Good, ReturnFirst, Room, Own, j

(* The machine and the user change the KERNAL's buffer only.               *)
LEMMA BufferIsGood ==
  ASSUME NEW k \in Good, NEW b \in Seq(Chars \union Keys),
         Room([k EXCEPT !.buffer = b])
  PROVE  [k EXCEPT !.buffer = b] \in Good
BY DEF Good, KbdState, ReturnFirst

LEMMA ContentsAreGood ==
  ASSUME NEW k \in Good, NEW b \in Contents \union {<<>>}
  PROVE  [k EXCEPT !.buffer = b] \in Good
<1>1. b \in Seq(Keys) /\ Len(b) <= BufferSize /\ Len(b) \in Nat
  <2>1. CASE b \in Contents
    BY <2>1, KbdBufAssumption, LenProperties
  <2>2. CASE b = <<>>
    BY <2>2, KbdBufAssumption, EmptySeq
  <2> QED BY <2>1, <2>2
<1>2. b \in Seq(Chars \union Keys)
  BY <1>1, SeqMonotonic
<1>3. ASSUME Len(b) >= BufferSize PROVE b[1] \in Keys /\ 1 \in 1..Len(b)
  BY <1>1, <1>3, ElementOfSeq, KbdBufAssumption
<1>4. [k EXCEPT !.buffer = b].buffer = b
  BY DEF Good, KbdState
<1>5. Room([k EXCEPT !.buffer = b])
  BY <1>1, <1>3, <1>4, KbdBufAssumption DEF Room, Own
<1> QED BY <1>2, <1>5, BufferIsGood

LEMMA PressIsGood ==
  ASSUME NEW k \in Good, Len(k.buffer) < BufferSize, NEW c \in Keys
  PROVE  [k EXCEPT !.buffer = Append(@, c)] \in Good
<1> DEFINE b == Append(k.buffer, c)
<1>1. k \in KbdState /\ k.buffer \in Seq(Chars \union Keys) /\ Len(k.buffer) \in Nat
  BY LenProperties DEF Good, KbdState
<1>2. /\ b \in Seq(Chars \union Keys) /\ Len(b) = Len(k.buffer) + 1
      /\ b[Len(b)] \in Keys /\ Len(b) \in 1..Len(b)
  BY <1>1, AppendProperties
<1>3. [k EXCEPT !.buffer = b].buffer = b
  BY <1>1 DEF KbdState
<1> HIDE DEF b
<1>4. Room([k EXCEPT !.buffer = b])
  BY <1>1, <1>2, <1>3, KbdBufAssumption DEF Room, Own
<1>5. [k EXCEPT !.buffer = b] \in Good
  BY <1>2, <1>4, BufferIsGood
<1> QED BY <1>5 DEF b

LEMMA TakeIsGood ==
  ASSUME NEW k \in Good, k.buffer # <<>>
  PROVE  [k EXCEPT !.buffer = Tail(@)] \in Good
<1> DEFINE b == Tail(k.buffer)
<1>1. k \in KbdState /\ Room(k) /\ k.buffer \in Seq(Chars \union Keys)
  BY DEF Good, KbdState
<1>2. b \in Seq(Chars \union Keys) /\ Len(b) = Len(k.buffer) - 1
  BY <1>1, HeadTailProperties
<1>3. Len(k.buffer) \in Nat /\ Len(b) \in Nat
  BY <1>1, <1>2, LenProperties
<1>4. /\ [k EXCEPT !.buffer = b].buffer = b
      /\ [k EXCEPT !.buffer = b].alarm = k.alarm
  BY <1>1 DEF KbdState
<1> HIDE DEF b
<1>5. Room([k EXCEPT !.buffer = b])
  BY <1>1, <1>2, <1>3, <1>4, KbdBufAssumption DEF Room
<1>6. [k EXCEPT !.buffer = b] \in Good
  BY <1>2, <1>5, BufferIsGood
<1> QED BY <1>6 DEF b

(* The alarm types its RETURN, for which there is room if the user has     *)
(* left it.                                                                *)
LEMMA AlarmIsGood ==
  ASSUME NEW k \in Good, AlarmIsDue(k)
  PROVE  /\ AlarmTriggered(k) \in Good
         /\ k.queue # <<>> /\ Head(k.queue) = Return
<1> DEFINE j == AlarmTriggered(k)
           b == Append(k.buffer, Return)
<1>1. k \in KbdState /\ Room(k) /\ k.queue \in Seq(Chars) /\ k.alarm # "unset"
      /\ k.queue # <<>> /\ Head(k.queue) = Return
      /\ k.buffer \in Seq(Chars \union Keys) /\ Len(k.buffer) \in Nat
  BY LenProperties DEF Good, KbdState, AlarmIsDue, ReturnFirst
<1>2. Tail(k.queue) \in Seq(Chars)
  BY <1>1, HeadTailProperties
<1>3. /\ b \in Seq(Chars \union Keys) /\ Len(b) = Len(k.buffer) + 1
      /\ \A i \in 1..Len(k.buffer) : b[i] = k.buffer[i]
  <2>1. Return \in Chars \union Keys
    BY KbdBufAssumption
  <2> QED BY <1>1, <2>1, AppendProperties
<1>4. j = [k EXCEPT !.alarm = "unset", !.waited = 0, !.buffer = b,
                    !.queue = Tail(k.queue)]
  BY <1>1 DEF AlarmTriggered, KbdState
<1> HIDE DEF b
<1>5. j.alarm = "unset" /\ j.buffer = b /\ j \in KbdState
  <2>1. j.alarm = "unset" /\ j.buffer = b
    BY <1>1, <1>4 DEF KbdState
  <2>2. j \in KbdState
    <3>1. 0 \in 0..2 /\ "unset" \in {"unset", "set", "late"}
      OBVIOUS
    <3> HIDE DEF j
    <3> QED BY <1>1, <1>2, <1>3, <1>4, <3>1 DEF KbdState
  <2> QED BY <2>1, <2>2
<1> HIDE DEF j
<1>6. Len(k.buffer) <= BufferSize /\ (Len(k.buffer) = BufferSize => Own(k))
  BY <1>1 DEF Room
<1>7. ASSUME Own(k) PROVE Own(j)
  BY <1>1, <1>3, <1>5, <1>7 DEF Own
<1>8. Room(j)
  BY <1>1, <1>3, <1>5, <1>6, <1>7, KbdBufAssumption DEF Room
<1>9. ReturnFirst(j)
  BY <1>5 DEF ReturnFirst
<1> QED BY <1>1, <1>5, <1>8, <1>9 DEF Good, j

-----------------------------------------------------------------------------
KbdInv == kbd \in Good

LEMMA GoodIsEnough == KbdInv => KbdTypeOK /\ ReturnIsNext /\ TypingFits
<1> SUFFICES ASSUME KbdInv PROVE KbdTypeOK /\ ReturnIsNext /\ TypingFits
  OBVIOUS
<1>1. kbd \in KbdState /\ ReturnFirst(kbd) /\ Room(kbd)
  BY DEF KbdInv, Good
<1>2. TypingFits
  BY <1>1 DEF TypingFits, Room, Own, OwnKeys
<1> QED BY <1>1, <1>2 DEF KbdTypeOK, ReturnFirst, ReturnIsNext

LEMMA InitIsGood == Init => KbdInv
<1> SUFFICES ASSUME Init PROVE kbd \in Good
  BY DEF KbdInv
<1>1. /\ <<>> \in Seq(Chars) /\ <<>> \in Seq(Chars \union Keys) /\ Len(<<>>) = 0
      /\ 0 \in 0..2 /\ 0 \in 0..LastFrame
  BY EmptySeq, KbdBufAssumption
<1>2. kbd \in KbdState
  BY <1>1 DEF Init, Idle, KbdState
<1>3. kbd.alarm = "unset" /\ kbd.buffer = <<>>
  BY DEF Init, Idle
<1> QED BY <1>1, <1>2, <1>3, KbdBufAssumption DEF Good, ReturnFirst, Room, Own

LEMMA NextIsGood == KbdInv /\ [Next]_kbd => KbdInv'
<1> SUFFICES ASSUME kbd \in Good, [Next]_kbd PROVE kbd' \in Good
  BY DEF KbdInv
<1>1. CASE FeedString
  BY <1>1, KbdBufAssumption, FeedIsGood DEF FeedString
<1>2. CASE KbdbufFlush
  BY <1>2, PassedIsGood, FlushIsGood DEF KbdbufFlush
<1>3. CASE FlushAlarm
  BY <1>3, AlarmIsGood DEF FlushAlarm
<1>4. CASE TakeKey
  BY <1>4, TakeIsGood DEF TakeKey
<1>5. CASE PressKey
  BY <1>5, PressIsGood DEF PressKey
<1>6. CASE Reset
  BY <1>6, RestartedIsGood, ContentsAreGood DEF Reset
<1>7. CASE UNCHANGED kbd
  BY <1>7
<1> QED BY <1>1, <1>2, <1>3, <1>4, <1>5, <1>6, <1>7 DEF Next

LEMMA KbdStaysGood == Spec => []KbdInv
BY InitIsGood, NextIsGood, PTL DEF Spec

-----------------------------------------------------------------------------
(* The abstract Type, of a text that is put behind what waits in k.        *)
Typing(k, j, text) ==
  \E n \in 0..Len(k.queue \o text) :
    /\ j.queue = SubSeq(k.queue \o text, n + 1, Len(k.queue \o text))
    /\ j.buffer = k.buffer \o SubSeq(k.queue \o text, 1, n)

LEMMA NothingTyped ==
  ASSUME NEW k \in KbdState, NEW j, NEW text \in Seq(Chars),
         j.queue = k.queue \o text, j.buffer = k.buffer
  PROVE  Typing(k, j, text)
<1> DEFINE q == k.queue \o text
<1>1. q \in Seq(Chars) /\ Len(q) \in Nat /\ k.buffer \in Seq(Chars \union Keys)
  BY ConcatProperties, LenProperties DEF KbdState
<1>2. SubSeq(q, 1, Len(q)) = q /\ SubSeq(q, 1, 0) = <<>>
  BY <1>1, SubSeqFull, SubSeqEmpty
<1>3. k.buffer \o <<>> = k.buffer
  BY <1>1, ConcatEmptySeq
<1>4. 0 \in 0..Len(q) /\ 0 + 1 = 1
  BY <1>1
<1> QED BY <1>2, <1>3, <1>4 DEF Typing

(* A flush of a state that waits with the text already behind.             *)
LEMMA FlushTypes ==
  ASSUME NEW k \in KbdState, NEW m \in KbdState, NEW text \in Seq(Chars),
         m.queue = k.queue \o text, m.buffer = k.buffer
  PROVE  Typing(k, Flush(m), text)
<1>1. CASE ~MayFlush(m)
  BY <1>1, NothingTyped DEF Flush
<1>2. CASE MayFlush(m)
  <2>1. Taken(m) \in 0..Len(m.queue)
    BY TakenFacts
  <2>2. /\ Flush(m).queue = SubSeq(m.queue, Taken(m) + 1, Len(m.queue))
        /\ Flush(m).buffer = m.buffer \o SubSeq(m.queue, 1, Taken(m))
    BY <1>2, FlushIs DEF KbdState
  <2> QED BY <2>1, <2>2 DEF Typing
<1> QED BY <1>1, <1>2

LEMMA FeedTypes ==
  ASSUME NEW k \in KbdState, NEW text \in Seq(Chars), NEW d \in BOOLEAN
  PROVE  Typing(k, Feed(k, text, d), text) \/ Typing(k, Feed(k, text, d), <<>>)
<1> DEFINE j == [k EXCEPT !.use_alarm = d]
           m == [j EXCEPT !.queue = @ \o text]
<1>1. k.queue \in Seq(Chars) /\ <<>> \in Seq(Chars) /\ k.queue \o text \in Seq(Chars)
  BY EmptySeq, ConcatProperties DEF KbdState
<1>2. j \in KbdState /\ j.queue = k.queue /\ j.buffer = k.buffer
  BY DEF KbdState
<1>3. m \in KbdState /\ m.queue = k.queue \o text /\ m.buffer = k.buffer
  BY <1>1 DEF KbdState
<1>4. k.queue \o <<>> = k.queue
  BY <1>1, ConcatEmptySeq
<1>5. CASE Len(k.queue) + Len(text) > QUEUE_SIZE
  <2>1. Feed(k, text, d) = j
    BY <1>5 DEF Feed
  <2> HIDE DEF j
  <2> QED BY <1>1, <1>2, <1>4, <2>1, NothingTyped
<1>6. CASE ~(Len(k.queue) + Len(text) > QUEUE_SIZE)
  <2>1. Feed(k, text, d) = Flush(m)
    BY <1>6 DEF Feed
  <2> HIDE DEF m, j
  <2> QED BY <1>3, <2>1, FlushTypes
<1> QED BY <1>5, <1>6

LEMMA TypesIsFeed ==
  ASSUME NEW text \in Texts \union {<<>>}, Typing(kbd, kbd', text)
  PROVE  Typed!Feed
BY DEF Typing, Typed!Feed, Typed!Type

LEMMA AlarmTypes ==
  ASSUME NEW k \in Good, AlarmIsDue(k)
  PROVE  Typing(k, AlarmTriggered(k), <<>>)
<1> DEFINE q == k.queue
           j == AlarmTriggered(k)
<1>1. /\ k \in KbdState /\ q \in Seq(Chars) /\ q # <<>> /\ Head(q) = Return
      /\ k.buffer \in Seq(Chars \union Keys) /\ Return \in Chars \union Keys
  BY AlarmIsGood, KbdBufAssumption DEF Good, KbdState
<1>2. j.queue = Tail(q) /\ j.buffer = Append(k.buffer, Return)
  BY <1>1 DEF AlarmTriggered, KbdState
<1>3. Len(q) \in Nat /\ Len(q) # 0 /\ q \o <<>> = q
  BY <1>1, EmptySeq, LenProperties, ConcatEmptySeq
<1>4. Tail(q) = SubSeq(q, 1 + 1, Len(q))
  BY <1>1, TailIsSubSeq
<1>5. SubSeq(q, 1, 1) = <<Return>>
  <2>1. 1 \in 1..Len(q) /\ SubSeq(q, 1 + 1, 1) = <<>>
    BY <1>3, SubSeqEmpty
  <2>2. SubSeq(q, 1, 1) = <<q[1]>> \o SubSeq(q, 1 + 1, 1)
    BY <1>1, <2>1, SubSeqRecursiveFirst
  <2>3. q[1] = Return /\ <<q[1]>> \in Seq(Chars)
    BY <1>1, KbdBufAssumption
  <2> QED BY <2>1, <2>2, <2>3, ConcatEmptySeq
<1>6. Append(k.buffer, Return) = k.buffer \o <<Return>>
  BY <1>1, AppendIsConcat
<1>7. 1 \in 0..Len(q)
  BY <1>3
<1> HIDE DEF j, q
<1> QED BY <1>2, <1>3, <1>4, <1>5, <1>6, <1>7 DEF Typing, q, j

(* A text that is typed through the keyboard buffer, in any interleaving   *)
(* with frames, the alarm, the user and resets, arrives in its order.      *)
THEOREM BufferTypesTheText == Spec => TypesTheText
<1>1. Init => Typed!Init
  BY DEF Init, Idle, Typed!Init
<1>2. KbdInv /\ [Next]_kbd => [Typed!Next]_(Typed!vars)
  <2> SUFFICES ASSUME kbd \in Good, [Next]_kbd
               PROVE  [Typed!Next]_(Typed!vars)
    BY DEF KbdInv
  <2> USE DEF Typed!Next, Typed!vars
  <2>0. kbd \in KbdState /\ <<>> \in Seq(Chars)
    BY EmptySeq DEF Good
  <2>1. CASE FeedString
    <3>1. PICK text \in Texts, d \in BOOLEAN : kbd' = Feed(kbd, text, d)
      BY <2>1 DEF FeedString
    <3>2. Typing(kbd, kbd', text) \/ Typing(kbd, kbd', <<>>)
      BY <2>0, <3>1, FeedTypes, KbdBufAssumption
    <3> QED BY <3>2, TypesIsFeed
  <2>2. CASE KbdbufFlush
    <3>1. Passed(kbd) \in KbdState
      BY <2>2, PassedIsGood DEF KbdbufFlush, Good
    <3>2. Passed(kbd).queue = kbd.queue \o <<>> /\ Passed(kbd).buffer = kbd.buffer
      BY <2>0, ConcatEmptySeq DEF Passed, KbdState
    <3>3. Typing(kbd, kbd', <<>>)
      BY <2>0, <2>2, <3>1, <3>2, FlushTypes DEF KbdbufFlush
    <3> QED BY <3>3, TypesIsFeed
  <2>3. CASE FlushAlarm
    BY <2>3, AlarmTypes, TypesIsFeed DEF FlushAlarm
  <2>4. CASE TakeKey
    BY <2>0, <2>4 DEF TakeKey, Typed!Take, KbdState
  <2>5. CASE PressKey
    BY <2>0, <2>5 DEF PressKey, Typed!Key, KbdState
  <2>6. CASE Reset
    BY <2>0, <2>6 DEF Reset, Restarted, Typed!Clear, KbdState
  <2>7. CASE UNCHANGED kbd
    BY <2>7
  <2> QED BY <2>1, <2>2, <2>3, <2>4, <2>5, <2>6, <2>7 DEF Next
<1> QED BY <1>1, <1>2, KbdStaysGood, PTL DEF Spec, TypesTheText, Typed!Spec

-----------------------------------------------------------------------------
(* Autostart.  Each of its functions keeps the state in Fine.              *)
Borrowing == {"HASTAPE", "PRESSPLAYONTAPE", "LOADINGTAPE", "HASDISK", "LOADINGDISK",
              "WAITLOADREADY", "WAITLOADING", "WAITSEARCHINGFOR"}

(* Warp mode is on because autostart has turned it on, and remembers that  *)
(* it was off, or else because a boot has been asked for during another.   *)
WarpHeld(a) == a.warp = 1 => /\ settings.warp
                             /\ \/ user.overlapped
                                \/ a.autostartmode \in Borrowing /\ a.orig_warp = 0
WarpKnown(a) == a.warp = 1 => settings.warp /\ (user.overlapped \/ a.orig_warp = 0)
WarpFree(a)  == a.warp = 1 => settings.warp /\ user.overlapped

(* True drive emulation is what the user wants, but while a program is     *)
(* loaded by traps, if that is what is remembered.                         *)
TdeFree(a) ==
  IF settings.handle
  THEN (/\ settings.devices /\ ~user.overlapped
        /\ a.orig_tde = user.wanted) => a.tde = user.wanted
  ELSE a.tde = user.wanted
TdeHeld(a) == \/ settings.handle /\ a.autostartmode = "LOADINGDISK"
              \/ TdeFree(a)

Sound == [kbd : Good, auto : AutoState]
Fine  == {s \in Sound : WarpHeld(s.auto) /\ TdeHeld(s.auto)}
Free  == {s \in Sound : WarpFree(s.auto) /\ TdeFree(s.auto)}

User == [left : [boots : Nat, acts : Nat], overlapped : BOOLEAN,
         disturbed : BOOLEAN, wanted : {0, 1}]

-----------------------------------------------------------------------------
(* What is borrowed has been given back: the boot may end.                 *)
LEMMA FreeIsFine == ASSUME NEW s \in Free PROVE s \in Fine
BY DEF Free, Fine, WarpFree, WarpHeld, TdeHeld

LEMMA ModeOfFree ==
  ASSUME NEW s \in Free, NEW mode \in Modes
  PROVE  InMode(s, mode) \in Free
<1> DEFINE a == [s.auto EXCEPT !.autostartmode = mode]
<1>1. s \in Sound /\ WarpFree(s.auto) /\ TdeFree(s.auto)
  BY DEF Free
<1>2. a \in AutoState /\ a.warp = s.auto.warp /\ a.tde = s.auto.tde
      /\ a.orig_tde = s.auto.orig_tde
  BY <1>1 DEF Sound, AutoState
<1>3. InMode(s, mode) = [s EXCEPT !.auto = a]
  BY <1>1 DEF InMode, Sound
<1> HIDE DEF a
<1>4. [s EXCEPT !.auto = a] \in Sound /\ [s EXCEPT !.auto = a].auto = a
  BY <1>1, <1>2 DEF Sound
<1> QED BY <1>1, <1>2, <1>3, <1>4 DEF Free, WarpFree, TdeFree

(* A step from a borrowing mode to another.                                *)
LEMMA ModeOfFine ==
  ASSUME NEW s \in Fine, s.auto.autostartmode # "LOADINGDISK", NEW mode \in Borrowing
  PROVE  InMode(s, mode) \in Fine
<1> DEFINE a == [s.auto EXCEPT !.autostartmode = mode]
<1>1. s \in Sound /\ WarpHeld(s.auto) /\ TdeFree(s.auto)
  BY DEF Fine, TdeHeld
<1>2. a \in AutoState /\ a.warp = s.auto.warp /\ a.tde = s.auto.tde
      /\ a.orig_tde = s.auto.orig_tde /\ a.orig_warp = s.auto.orig_warp
      /\ a.autostartmode = mode
  BY <1>1 DEF Sound, AutoState, Borrowing, Modes
<1>3. InMode(s, mode) = [s EXCEPT !.auto = a]
  BY <1>1 DEF InMode, Sound
<1> HIDE DEF a
<1>4. [s EXCEPT !.auto = a] \in Sound /\ [s EXCEPT !.auto = a].auto = a
  BY <1>1, <1>2 DEF Sound
<1>5. WarpHeld(a)
  BY <1>1, <1>2 DEF WarpHeld
<1>6. TdeHeld(a)
  BY <1>1, <1>2 DEF TdeFree, TdeHeld
<1> QED BY <1>3, <1>4, <1>5, <1>6 DEF Fine

LEMMA TypesIs ==
  ASSUME NEW s \in Sound, NEW text \in Texts, NEW d \in BOOLEAN
  PROVE  Types(s, text, d) \in Sound /\ Types(s, text, d).auto = s.auto
<1>1. Feed(s.kbd, text, d) \in Good
  BY FeedIsGood, KbdBufAssumption DEF Sound
<1>2. Types(s, text, d) = [s EXCEPT !.kbd = Feed(s.kbd, text, d)]
  BY DEF Types
<1> QED BY <1>1, <1>2 DEF Sound

LEMMA TypingIsFree ==
  ASSUME NEW s \in Sound, NEW text \in Texts, NEW d \in BOOLEAN
  PROVE  /\ s \in Fine => Types(s, text, d) \in Fine
         /\ s \in Free => Types(s, text, d) \in Free
<1>1. Types(s, text, d) \in Sound /\ Types(s, text, d).auto = s.auto
  BY TypesIs
<1> QED BY <1>1 DEF Fine, Free

LEMMA FinishIsFree ==
  ASSUME NEW s \in Free, settings \in Settings
  PROVE  Finish(s) \in Free
BY TypingIsFree, AutostartAssumption DEF Finish, Free

(* disable_warp_if_was_requested finds warp mode as it was before.         *)
LEMMA DisableWarpIs ==
  ASSUME NEW s \in Sound, WarpKnown(s.auto)
  PROVE  /\ DisableWarp(s) \in Sound
         /\ WarpFree(DisableWarp(s).auto)
         /\ DisableWarp(s).auto.tde = s.auto.tde
         /\ DisableWarp(s).auto.orig_tde = s.auto.orig_tde
         /\ DisableWarp(s).auto.autostartmode = s.auto.autostartmode
<1>1. CASE settings.warp /\ s.auto.orig_warp = 0
  <2> DEFINE a == [s.auto EXCEPT !.warp = 0]
  <2>1. a \in AutoState /\ a.warp = 0 /\ a.tde = s.auto.tde
        /\ a.orig_tde = s.auto.orig_tde /\ a.autostartmode = s.auto.autostartmode
    BY DEF Sound, AutoState
  <2>2. DisableWarp(s) = [s EXCEPT !.auto = a]
    BY <1>1 DEF DisableWarp, Sound
  <2> HIDE DEF a
  <2>3. [s EXCEPT !.auto = a] \in Sound /\ [s EXCEPT !.auto = a].auto = a
    BY <2>1 DEF Sound
  <2> QED BY <2>1, <2>2, <2>3 DEF WarpFree
<1>2. CASE ~(settings.warp /\ s.auto.orig_warp = 0)
  BY <1>2 DEF DisableWarp, WarpKnown, WarpFree
<1> QED BY <1>1, <1>2

LEMMA DisableWarpFrees ==
  ASSUME NEW s \in Fine, s.auto.autostartmode # "LOADINGDISK"
  PROVE  DisableWarp(s) \in Free
<1>1. TdeFree(s.auto) /\ s \in Sound /\ WarpHeld(s.auto)
  BY DEF Fine, TdeHeld
<1> QED BY <1>1, DisableWarpIs DEF Free, TdeFree, WarpHeld, WarpKnown

LEMMA GivesUpIsFree ==
  ASSUME NEW s \in Fine, s.auto.autostartmode # "LOADINGDISK"
  PROVE  GivesUp(s) \in Free
BY DisableWarpFrees, ModeOfFree DEF GivesUp, Modes

LEMMA LeavesIsFree ==
  ASSUME NEW s \in Fine, s.auto.autostartmode # "LOADINGDISK", settings \in Settings
  PROVE  Leaves(s) \in Free
BY DisableWarpFrees, FinishIsFree, ModeOfFree DEF Leaves, Done, Modes

(* The EOF callback, from whatever mode.                                   *)
LEMMA DiskEofIsFree ==
  ASSUME NEW s \in Sound, WarpKnown(s.auto), settings.handle \/ TdeFree(s.auto),
         settings \in Settings
  PROVE  DiskEof(s) \in Free
<1> DEFINE t == IF settings.handle THEN [s EXCEPT !.auto.tde = s.auto.orig_tde] ELSE s
           f == IF t.auto.autostartmode = "NONE" THEN t ELSE Finish(t)
           e == [Done(f) EXCEPT !.auto.eof = FALSE]
<1>1. t \in Sound /\ WarpKnown(t.auto) /\ TdeFree(t.auto)
  <2>1. CASE settings.handle
    <3> DEFINE a == [s.auto EXCEPT !.tde = s.auto.orig_tde]
    <3>1. s.auto \in AutoState
      BY DEF Sound
    <3>2. /\ a \in AutoState /\ a.tde = s.auto.orig_tde
          /\ a.orig_tde = s.auto.orig_tde /\ a.warp = s.auto.warp
          /\ a.orig_warp = s.auto.orig_warp
      BY <3>1 DEF AutoState
    <3>3. t = [s EXCEPT !.auto = a]
      BY <2>1 DEF Sound
    <3> HIDE DEF a, t
    <3>4. t \in Sound /\ t.auto = a
      BY <3>2, <3>3 DEF Sound
    <3> QED BY <2>1, <3>2, <3>4 DEF WarpKnown, TdeFree
  <2>2. CASE ~settings.handle
    BY <2>2
  <2> QED BY <2>1, <2>2
<1> HIDE DEF t
<1>2. f \in Sound /\ f.auto = t.auto
  BY <1>1, TypesIs, AutostartAssumption DEF Finish
<1> HIDE DEF f
<1>3. /\ e \in Sound /\ e.auto.warp = t.auto.warp
      /\ e.auto.orig_warp = t.auto.orig_warp /\ e.auto.tde = t.auto.tde
      /\ e.auto.orig_tde = t.auto.orig_tde
  <2> DEFINE a == [f.auto EXCEPT !.autostartmode = "DONE", !.eof = FALSE]
  <2>1. f.auto \in AutoState
    BY <1>2 DEF Sound
  <2>2. /\ a \in AutoState /\ a.warp = f.auto.warp /\ a.orig_warp = f.auto.orig_warp
        /\ a.tde = f.auto.tde /\ a.orig_tde = f.auto.orig_tde
    BY <2>1 DEF AutoState, Modes
  <2>3. e = [f EXCEPT !.auto = a]
    BY <1>2 DEF Done, InMode, Sound
  <2> HIDE DEF a, e
  <2>4. e \in Sound /\ e.auto = a
    BY <1>2, <2>2, <2>3 DEF Sound
  <2> QED BY <1>2, <2>2, <2>4
<1>4. DiskEof(s) = DisableWarp(e)
  BY DEF DiskEof, t, f
<1> HIDE DEF e
<1>5. WarpKnown(e.auto) /\ TdeFree(e.auto)
  BY <1>1, <1>3 DEF WarpKnown, TdeFree
<1> QED BY <1>3, <1>4, <1>5, DisableWarpIs DEF Free, TdeFree

-----------------------------------------------------------------------------
(* One look at the screen.                                                 *)
LEMMA AnswerIs ==
  ASSUME NEW s, NEW text, NEW yes, NEW no, NEW notYet
  PROVE  Answer(s, text, yes, no, notYet) \in {yes, no, notYet}
BY DEF Answer

(* Flags that nothing here depends on.                                     *)
LEMMA FlagIsFine ==
  ASSUME NEW s \in Fine, NEW b \in BOOLEAN
  PROVE  /\ [s EXCEPT !.auto.entered_rom = b] \in Fine
         /\ [s EXCEPT !.auto.play = b] \in Fine
         /\ [s EXCEPT !.auto.attention = b] \in Fine
         /\ [s EXCEPT !.auto.trap = b] \in Fine
         /\ [s EXCEPT !.auto.wait_for_reset = b] \in Fine
         /\ [s EXCEPT !.auto.ignore_reset = b] \in Fine
<1>1. s.auto \in AutoState /\ s \in Sound /\ WarpHeld(s.auto) /\ TdeHeld(s.auto)
  BY DEF Fine, Sound
<1>2. ASSUME NEW a \in AutoState,
             a.warp = s.auto.warp, a.tde = s.auto.tde, a.orig_tde = s.auto.orig_tde,
             a.orig_warp = s.auto.orig_warp, a.autostartmode = s.auto.autostartmode
      PROVE  [s EXCEPT !.auto = a] \in Fine
  <2>1. [s EXCEPT !.auto = a] \in Sound /\ [s EXCEPT !.auto = a].auto = a
    BY <1>1 DEF Sound
  <2>2. WarpHeld(a) /\ TdeHeld(a)
    BY <1>1, <1>2 DEF WarpHeld, TdeHeld, TdeFree
  <2> QED BY <2>1, <2>2 DEF Fine
<1>3. [s EXCEPT !.auto.entered_rom = b] \in Fine
  <2> DEFINE a == [s.auto EXCEPT !.entered_rom = b]
  <2>1. a \in AutoState /\ [s EXCEPT !.auto = a] \in Fine
    BY <1>1, <1>2 DEF AutoState
  <2> QED BY <1>1, <2>1 DEF Sound
<1>4. [s EXCEPT !.auto.play = b] \in Fine
  <2> DEFINE a == [s.auto EXCEPT !.play = b]
  <2>1. a \in AutoState /\ [s EXCEPT !.auto = a] \in Fine
    BY <1>1, <1>2 DEF AutoState
  <2> QED BY <1>1, <2>1 DEF Sound
<1>5. [s EXCEPT !.auto.attention = b] \in Fine
  <2> DEFINE a == [s.auto EXCEPT !.attention = b]
  <2>1. a \in AutoState /\ [s EXCEPT !.auto = a] \in Fine
    BY <1>1, <1>2 DEF AutoState
  <2> QED BY <1>1, <2>1 DEF Sound
<1>6. [s EXCEPT !.auto.trap = b] \in Fine
  <2> DEFINE a == [s.auto EXCEPT !.trap = b]
  <2>1. a \in AutoState /\ [s EXCEPT !.auto = a] \in Fine
    BY <1>1, <1>2 DEF AutoState
  <2> QED BY <1>1, <2>1 DEF Sound
<1>7. [s EXCEPT !.auto.wait_for_reset = b] \in Fine
  <2> DEFINE a == [s.auto EXCEPT !.wait_for_reset = b]
  <2>1. a \in AutoState /\ [s EXCEPT !.auto = a] \in Fine
    BY <1>1, <1>2 DEF AutoState
  <2> QED BY <1>1, <2>1 DEF Sound
<1>8. [s EXCEPT !.auto.ignore_reset = b] \in Fine
  <2> DEFINE a == [s.auto EXCEPT !.ignore_reset = b]
  <2>1. a \in AutoState /\ [s EXCEPT !.auto = a] \in Fine
    BY <1>1, <1>2 DEF AutoState
  <2> QED BY <1>1, <2>1 DEF Sound
<1> QED BY <1>3, <1>4, <1>5, <1>6, <1>7, <1>8

(* What is remembered of true drive emulation may change with it.          *)
LEMMA TdeIsFine ==
  ASSUME NEW s \in Fine, s.auto.autostartmode # "LOADINGDISK",
         NEW now \in {0, 1}, NEW orig \in {0, 1},
         \/ now = s.auto.tde /\ orig = now
         \/ settings.handle /\ (~settings.devices \/ now = orig)
  PROVE  LET t == [s EXCEPT !.auto.orig_tde = orig, !.auto.tde = now]
         IN  t \in Fine /\ t.auto.autostartmode = s.auto.autostartmode
<1> DEFINE a == [s.auto EXCEPT !.orig_tde = orig, !.tde = now]
<1>1. /\ s.auto \in AutoState /\ s \in Sound
      /\ WarpHeld(s.auto) /\ TdeFree(s.auto)
  BY DEF Fine, Sound, TdeHeld
<1>2. /\ a \in AutoState /\ a.warp = s.auto.warp /\ a.orig_warp = s.auto.orig_warp
      /\ a.autostartmode = s.auto.autostartmode /\ a.tde = now /\ a.orig_tde = orig
  BY <1>1 DEF AutoState
<1>3. [s EXCEPT !.auto.orig_tde = orig, !.auto.tde = now] = [s EXCEPT !.auto = a]
  BY <1>1 DEF Sound
<1> HIDE DEF a
<1>4. [s EXCEPT !.auto = a] \in Sound /\ [s EXCEPT !.auto = a].auto = a
  BY <1>1, <1>2 DEF Sound
<1>5. WarpHeld(a)
  BY <1>1, <1>2 DEF WarpHeld
<1>6. TdeHeld(a)
  BY <1>1, <1>2 DEF TdeHeld, TdeFree
<1> QED BY <1>2, <1>3, <1>4, <1>5, <1>6 DEF Fine

LEMMA CheckRomAreaIsFine ==
  ASSUME NEW s \in Fine, s.auto.autostartmode # "LOADINGDISK"
  PROVE  CheckRomArea(s) \in Fine
<1>1. Done(DisableWarp(s)) \in Fine
  BY DisableWarpFrees, ModeOfFree, FreeIsFine DEF Done, Modes
<1>2. InRom(kernal) \in BOOLEAN
  BY DEF InRom
<1> QED BY <1>1, <1>2, FlagIsFine DEF CheckRomArea

(* LOAD by the traps borrows true drive emulation.                         *)
LEMMA LoadsDiskIsFine ==
  ASSUME NEW s \in Fine, s.auto.autostartmode = "HASDISK", settings \in Settings
  PROVE  LoadsDisk(s) \in Fine
<1> DEFINE a     == s.auto
           traps == IF settings.handle THEN settings.devices ELSE a.tde = 0
           now   == IF ~settings.handle THEN a.tde ELSE IF traps THEN 0 ELSE 1
           k     == [s EXCEPT !.auto.orig_tde = a.tde, !.auto.tde = now]
           typed == Types(k, LOAD, FALSE)
<1>1. s \in Sound /\ a \in AutoState /\ a.tde \in {0, 1} /\ now \in {0, 1}
  BY DEF Fine, Sound, AutoState
<1>2. LoadsDisk(s) = IF traps THEN [InMode(typed, "LOADINGDISK") EXCEPT !.auto.attention = TRUE]
                     ELSE IF settings.warp THEN InMode(typed, "WAITSEARCHINGFOR")
                     ELSE Done(Finish(typed))
  BY DEF LoadsDisk
<1>3. CASE settings.handle /\ traps
  <2> DEFINE b == [a EXCEPT !.orig_tde = a.tde, !.tde = now]
             l == InMode(typed, "LOADINGDISK")
             c == [b EXCEPT !.autostartmode = "LOADINGDISK"]
  <2>1. /\ b \in AutoState /\ c \in AutoState /\ c.autostartmode = "LOADINGDISK"
        /\ c.warp = a.warp /\ c.orig_warp = a.orig_warp
    BY <1>1 DEF AutoState, Modes
  <2>2. k = [s EXCEPT !.auto = b]
    BY <1>1 DEF Sound
  <2> HIDE DEF now, b
  <2>3. k \in Sound /\ k.auto = b
    BY <1>1, <2>1, <2>2 DEF Sound
  <2> HIDE DEF k
  <2>4. typed \in Sound /\ typed.auto = b
    BY <2>3, TypesIs, AutostartAssumption
  <2> HIDE DEF typed
  <2>5. l = [typed EXCEPT !.auto = c]
    BY <2>4 DEF InMode, Sound
  <2> HIDE DEF c
  <2>6. l \in Sound /\ l.auto = c
    BY <2>1, <2>4, <2>5 DEF Sound
  <2>7. WarpHeld(c) /\ TdeHeld(c)
    BY <1>3, <2>1 DEF WarpHeld, TdeHeld, Fine, Borrowing
  <2>8. l \in Fine
    BY <2>6, <2>7 DEF Fine
  <2> QED BY <1>2, <1>3, <2>8, FlagIsFine
<1>4. CASE ~settings.handle \/ ~traps
  <2>1. k \in Fine /\ k.auto.autostartmode = "HASDISK"
    <3>1. \/ now = a.tde
          \/ settings.handle /\ ~settings.devices
      BY <1>4
    <3>2. s.auto.autostartmode # "LOADINGDISK" /\ a.tde \in {0, 1} /\ a = s.auto
      BY <1>1
    <3> HIDE DEF now, traps, a
    <3>3. \/ now = s.auto.tde /\ a.tde = now
          \/ settings.handle /\ (~settings.devices \/ now = a.tde)
      BY <3>1, <3>2
    <3>4. LET t == [s EXCEPT !.auto.orig_tde = a.tde, !.auto.tde = now]
          IN  t \in Fine /\ t.auto.autostartmode = s.auto.autostartmode
      BY <1>1, <3>2, <3>3, TdeIsFine
    <3> QED BY <3>4
  <2> HIDE DEF k
  <2>2. typed \in Fine /\ typed.auto.autostartmode = "HASDISK"
    BY <2>1, TypingIsFree, TypesIs, AutostartAssumption DEF Fine
  <2> HIDE DEF typed
  <2>3. /\ InMode(typed, "LOADINGDISK") \in Fine
        /\ InMode(typed, "WAITSEARCHINGFOR") \in Fine
    BY <2>2, ModeOfFine DEF Borrowing
  <2>4. ASSUME ~settings.warp PROVE Done(Finish(typed)) \in Fine
    <3>1. typed \in Free
      BY <2>2, <2>4 DEF Fine, Free, WarpHeld, WarpFree, TdeHeld
    <3> QED BY <3>1, FinishIsFree, ModeOfFree, FreeIsFine DEF Done, Modes
  <2> QED BY <1>2, <2>3, <2>4, FlagIsFine
<1> QED BY <1>3, <1>4

LEMMA AdvancedIsFine ==
  ASSUME NEW s \in Fine, settings \in Settings
  PROVE  Advanced(s) \in Fine
<1> DEFINE m == s.auto.autostartmode
<1>0. s \in Sound
  BY DEF Fine
<1>1. CASE m = "HASTAPE"
  <2>1. Types(s, LOAD, FALSE) \in Fine /\ Types(s, LOAD, FALSE).auto = s.auto
    BY <1>0, TypingIsFree, TypesIs, AutostartAssumption
  <2>2. InMode(Types(s, LOAD, FALSE), "PRESSPLAYONTAPE") \in Fine
    BY <1>1, <2>1, ModeOfFine DEF Borrowing
  <2>3. [InMode(Types(s, LOAD, FALSE), "PRESSPLAYONTAPE")
           EXCEPT !.auto.entered_rom = FALSE] \in Fine
    BY <2>2, FlagIsFine
  <2>4. GivesUp(s) \in Fine
    BY <1>1, GivesUpIsFree, FreeIsFine
  <2> QED BY <1>1, <2>3, <2>4, AnswerIs DEF Advanced
<1>2. CASE m = "PRESSPLAYONTAPE"
  <2>1. InMode(s, "LOADINGTAPE") \in Fine
    BY <1>2, ModeOfFine DEF Borrowing
  <2> DEFINE y == [InMode(s, "LOADINGTAPE") EXCEPT !.auto.play = TRUE]
  <2>2. y \in Fine
    BY <2>1, FlagIsFine
  <2>3. GivesUp(s) \in Fine
    BY <1>2, GivesUpIsFree, FreeIsFine
  <2> DEFINE text == "PRESS PLAY ON TAPE"
  <2>4. Advanced(s) = Answer(s, text, y, GivesUp(s), s)
    BY <1>2 DEF Advanced
  <2> HIDE DEF y, text
  <2> QED BY <2>2, <2>3, <2>4, AnswerIs
<1>3. CASE m \in {"LOADINGTAPE", "WAITLOADREADY"}
  <2>1. Leaves(s) \in Fine /\ GivesUp(s) \in Fine /\ CheckRomArea(s) \in Fine
    BY <1>3, LeavesIsFree, GivesUpIsFree, FreeIsFine, CheckRomAreaIsFine
  <2>2. Advanced(s) = Answer(s, "READY.", Leaves(s), GivesUp(s), CheckRomArea(s))
    BY <1>3 DEF Advanced
  <2> QED BY <2>1, <2>2, AnswerIs
<1>4. CASE m = "HASDISK"
  <2> DEFINE t == [s EXCEPT !.auto.orig_tde = s.auto.tde]
  <2>1. t \in Fine /\ t.auto.autostartmode = "HASDISK"
    <3> DEFINE o == s.auto.tde
               u == [s EXCEPT !.auto.orig_tde = o, !.auto.tde = o]
    <3>1. s.auto \in AutoState /\ o \in {0, 1}
      BY <1>0 DEF Sound, AutoState
    <3>2. u = t
      <4>1. [s.auto EXCEPT !.orig_tde = o, !.tde = o] = [s.auto EXCEPT !.orig_tde = o]
        BY <3>1 DEF AutoState
      <4> QED BY <1>0, <4>1 DEF Sound
    <3>3. u \in Fine /\ u.auto.autostartmode = s.auto.autostartmode
      BY <1>4, <3>1, TdeIsFine
    <3> QED BY <1>4, <3>2, <3>3
  <2> HIDE DEF t
  <2>2. GivesUp(t) \in Fine /\ LoadsDisk(s) \in Fine
    BY <1>4, <2>1, GivesUpIsFree, FreeIsFine, LoadsDiskIsFine
  <2>3. Advanced(s) = Answer(s, "READY.", LoadsDisk(s), GivesUp(t), s)
    BY <1>4 DEF Advanced, t
  <2> QED BY <2>2, <2>3, AnswerIs
<1>5. CASE m = "HASSNAPSHOT"
  <2>1. s \in Free
    BY <1>5 DEF Fine, Free, WarpHeld, WarpFree, TdeHeld, Borrowing
  <2>2. Done(s) \in Fine /\ InMode(s, "ERROR") \in Fine
    BY <2>1, ModeOfFree, FreeIsFine DEF Done, Modes
  <2>3. [Done(s) EXCEPT !.auto.trap = TRUE] \in Fine
    BY <2>2, FlagIsFine
  <2> QED BY <1>5, <2>2, <2>3, AnswerIs DEF Advanced
<1>6. CASE m = "WAITSEARCHINGFOR"
  <2>1. InMode(s, "WAITLOADING") \in Fine /\ GivesUp(s) \in Fine
    BY <1>6, ModeOfFine, GivesUpIsFree, FreeIsFine DEF Borrowing
  <2> DEFINE text == "SEARCHING FOR"
  <2>2. Advanced(s) = Answer(s, text, InMode(s, "WAITLOADING"), GivesUp(s), s)
    BY <1>6 DEF Advanced
  <2> HIDE DEF text
  <2> QED BY <2>1, <2>2, AnswerIs
<1>7. CASE m = "WAITLOADING"
  <2>1. InMode(s, "WAITLOADREADY") \in Fine /\ GivesUp(s) \in Fine
    BY <1>7, ModeOfFine, GivesUpIsFree, FreeIsFine DEF Borrowing
  <2> DEFINE y == [InMode(s, "WAITLOADREADY") EXCEPT !.auto.entered_rom = FALSE]
             n == IF Check(s, "SEARCHING FOR") = "YES" THEN s ELSE GivesUp(s)
  <2>2. y \in Fine /\ n \in Fine
    BY <2>1, FlagIsFine
  <2>3. Advanced(s) = Answer(s, "LOADING", y, n, s)
    BY <1>7 DEF Advanced
  <2> HIDE DEF y, n
  <2> QED BY <2>1, <2>2, <2>3, AnswerIs
<1>8. CASE m \notin {"HASTAPE", "PRESSPLAYONTAPE", "LOADINGTAPE", "WAITLOADREADY",
                     "HASDISK", "HASSNAPSHOT", "WAITSEARCHINGFOR", "WAITLOADING"}
  BY <1>8 DEF Advanced
<1> QED BY <1>1, <1>2, <1>3, <1>4, <1>5, <1>6, <1>7, <1>8

LEMMA AdvanceIsFine ==
  ASSUME NEW s \in Fine, settings \in Settings
  PROVE  Advance(s) \in Fine
<1>1. ASSUME NEW t \in Fine PROVE Restored(s, t) \in Fine
  <2>1. CASE t.auto.autostartmode = "ERROR" /\ settings.handle
    <3> DEFINE o == t.auto.orig_tde
    <3>1. t \in Sound /\ t.auto \in AutoState /\ o \in {0, 1}
      BY DEF Fine, Sound, AutoState
    <3>2. [t EXCEPT !.auto.orig_tde = o, !.auto.tde = o] = [t EXCEPT !.auto.tde = o]
      BY <3>1 DEF Sound, AutoState
    <3>3. [t EXCEPT !.auto.tde = o] \in Fine
      BY <2>1, <3>1, <3>2, TdeIsFine
    <3> QED BY <3>3 DEF Restored
  <2>2. CASE ~(t.auto.autostartmode = "ERROR" /\ settings.handle)
    BY <2>2 DEF Restored
  <2> QED BY <2>1, <2>2
<1>2. Advanced(s) \in Fine
  BY AdvancedIsFine
<1>3. [s EXCEPT !.auto.wait_for_reset = FALSE] \in Fine
  BY FlagIsFine
<1> QED BY <1>1, <1>2, <1>3 DEF Advance

(* A reset of the machine ends a boot, but for the one that autostart has  *)
(* asked for itself.                                                       *)
LEMMA ResetIsFine ==
  ASSUME NEW s \in Fine, settings \in Settings
  PROVE  AutostartReset(s) \in Fine
<1> DEFINE off   == InMode(s, "NONE")
           ended == IF s.auto.autostartmode = "DONE" THEN off
                    ELSE InMode(DiskEof(off), "NONE")
<1>1. s \in Sound /\ WarpHeld(s.auto) /\ TdeHeld(s.auto)
  BY DEF Fine
<1>2. ended \in Fine
  <2>1. CASE s.auto.autostartmode = "DONE"
    <3>1. s \in Free
      BY <1>1, <2>1 DEF Free, WarpHeld, WarpFree, TdeHeld, Borrowing
    <3> QED BY <2>1, <3>1, ModeOfFree, FreeIsFine DEF Modes
  <2>2. CASE s.auto.autostartmode # "DONE"
    <3> DEFINE a == [s.auto EXCEPT !.autostartmode = "NONE"]
    <3>1. s.auto \in AutoState
      BY <1>1 DEF Sound
    <3>2. /\ a \in AutoState /\ a.warp = s.auto.warp /\ a.tde = s.auto.tde
          /\ a.orig_tde = s.auto.orig_tde /\ a.orig_warp = s.auto.orig_warp
      BY <3>1 DEF AutoState, Modes
    <3>3. off = [s EXCEPT !.auto = a]
      BY <1>1 DEF InMode, Sound
    <3> HIDE DEF a, off
    <3>4. off \in Sound /\ off.auto = a
      BY <1>1, <3>2, <3>3 DEF Sound
    <3>5. WarpKnown(off.auto) /\ (settings.handle \/ TdeFree(off.auto))
      BY <1>1, <3>2, <3>4 DEF WarpHeld, WarpKnown, TdeHeld, TdeFree
    <3>6. DiskEof(off) \in Free
      BY <3>4, <3>5, DiskEofIsFree
    <3> QED BY <2>2, <3>6, ModeOfFree, FreeIsFine DEF Modes
  <2> QED BY <2>1, <2>2
<1>3. AutostartReset(s)
        = [(IF s.auto.ignore_reset \/ s.auto.autostartmode \in {"NONE", "ERROR"}
            THEN s ELSE ended) EXCEPT !.auto.ignore_reset = FALSE]
  BY DEF AutostartReset
<1> HIDE DEF ended
<1> QED BY <1>2, <1>3, FlagIsFine

-----------------------------------------------------------------------------
(* The inductive invariant.                                                *)
AutoInv == Now \in Fine /\ settings \in Settings /\ user \in User

(* What a step of the program leaves, when the user wants what he wanted.  *)
LEMMA StepIsFine ==
  ASSUME AutoInv, NEW s \in Fine, kbd' = s.kbd, auto' = s.auto,
         settings' = settings, user' \in User,
         user'.overlapped = user.overlapped, user'.wanted = user.wanted
  PROVE  AutoInv'
<1>1. Now' = s
  BY DEF Now, Fine, Sound
<1>2. s \in Sound /\ WarpHeld(s.auto) /\ TdeHeld(s.auto)
  BY DEF Fine
<1>3. WarpHeld(s.auto)' /\ TdeHeld(s.auto)'
  BY <1>1, <1>2 DEF WarpHeld, TdeHeld, TdeFree, Now
<1> QED BY <1>1, <1>2, <1>3 DEF AutoInv, Fine, Now

(* A step that changes the keyboard buffer, and flags that nothing here     *)
(* depends on.                                                             *)
LEMMA SameIsFine ==
  ASSUME Now \in Fine, NEW k \in Good, NEW a \in AutoState,
         a.warp = auto.warp, a.orig_warp = auto.orig_warp, a.tde = auto.tde,
         a.orig_tde = auto.orig_tde, a.autostartmode = auto.autostartmode
  PROVE  [kbd |-> k, auto |-> a] \in Fine
<1>1. WarpHeld(auto) /\ TdeHeld(auto)
  BY DEF Fine, Now
<1>2. WarpHeld(a) /\ TdeHeld(a)
  BY <1>1 DEF WarpHeld, TdeHeld, TdeFree
<1> QED BY <1>2 DEF Fine, Sound

LEMMA InitIsFine == AutostartInit => AutoInv
<1> SUFFICES ASSUME AutostartInit PROVE AutoInv
  OBVIOUS
<1>1. PICK tde \in {0, 1}, left \in Budgets :
        /\ auto = [autostartmode |-> "NONE", wait_for_reset |-> FALSE,
                   ignore_reset |-> FALSE, entered_rom |-> FALSE,
                   initial_delay |-> Delay, orig_warp |-> -1, orig_tde |-> tde,
                   warp |-> 0, tde |-> tde, attention |-> FALSE, eof |-> FALSE,
                   play |-> FALSE, trap |-> FALSE, reset |-> "none"]
        /\ user = [left |-> left, overlapped |-> FALSE, disturbed |-> TRUE,
                   wanted |-> tde]
  BY DEF AutostartInit
<1>2. settings \in Settings /\ user \in User
  BY <1>1, AutostartAssumption DEF AutostartInit, User
<1>3. auto \in AutoState
  BY <1>1, AutostartAssumption DEF AutoState, Modes
<1>4. kbd \in Good
  <2>1. /\ <<>> \in Seq(Chars) /\ <<>> \in Seq(Chars \union Keys) /\ Len(<<>>) = 0
        /\ 0 \in 0..2 /\ LastFrame \in 0..LastFrame
    BY EmptySeq, KbdBufAssumption
  <2>2. kbd \in KbdState /\ kbd.alarm = "unset" /\ kbd.buffer = <<>>
    BY <2>1 DEF AutostartInit, Idle, KbdState
  <2> QED BY <2>1, <2>2, KbdBufAssumption DEF Good, ReturnFirst, Room, Own
<1>5. WarpHeld(auto) /\ TdeHeld(auto)
  BY <1>1 DEF WarpHeld, TdeHeld, TdeFree
<1> QED BY <1>2, <1>3, <1>4, <1>5 DEF AutoInv, Fine, Sound, Now

LEMMA FramesAreFine == AutoInv /\ Vsync => AutoInv'
<1> SUFFICES ASSUME AutoInv, Vsync PROVE AutoInv'
  OBVIOUS
<1> DEFINE k == Flush(Passed(kbd))
           r == IF auto.reset = "asked" THEN "due" ELSE auto.reset
           a == [auto EXCEPT !.reset = r]
           s == [kbd |-> k, auto |-> a]
<1>1. Now \in Fine /\ kbd \in Good /\ auto \in AutoState
  BY DEF AutoInv, Fine, Sound, Now
<1>2. k \in Good
  BY <1>1, PassedIsGood, FlushIsGood DEF Vsync
<1>3. r \in {"none", "asked", "due"}
  BY <1>1 DEF AutoState
<1>4. EndOfFrame = Advance(s)
  BY DEF EndOfFrame
<1> HIDE DEF r
<1>5. s \in Fine
  <2>1. /\ a \in AutoState
        /\ a.warp = auto.warp /\ a.orig_warp = auto.orig_warp /\ a.tde = auto.tde
        /\ a.orig_tde = auto.orig_tde /\ a.autostartmode = auto.autostartmode
    BY <1>1, <1>3 DEF AutoState
  <2> HIDE DEF k, a
  <2> QED BY <1>1, <1>2, <2>1, SameIsFine
<1> HIDE DEF s
<1>6. Advance(s) \in Fine
  BY <1>5, AdvanceIsFine DEF AutoInv
<1> QED BY <1>4, <1>6, StepIsFine DEF Vsync, Become, AutoInv

LEMMA ResetsAreFine == AutoInv /\ MachineReset => AutoInv'
<1> SUFFICES ASSUME AutoInv, MachineReset PROVE AutoInv'
  OBVIOUS
<1> DEFINE k == [Restarted(kbd) EXCEPT !.buffer = <<>>]
           a == [auto EXCEPT !.reset = "none", !.trap = FALSE]
           s == [kbd |-> k, auto |-> a]
<1>1. Now \in Fine /\ Now = [kbd |-> kbd, auto |-> auto] /\ kbd \in Good /\ auto \in AutoState
  BY DEF AutoInv, Fine, Sound, Now
<1>2. k \in Good
  BY <1>1, RestartedIsGood, ContentsAreGood
<1>3. s \in Fine
  <2>1. /\ a \in AutoState
        /\ a.warp = auto.warp /\ a.orig_warp = auto.orig_warp /\ a.tde = auto.tde
        /\ a.orig_tde = auto.orig_tde /\ a.autostartmode = auto.autostartmode
    BY <1>1 DEF AutoState
  <2> HIDE DEF k, a
  <2> QED BY <1>1, <1>2, <2>1, SameIsFine
<1> HIDE DEF s
<1>4. AutostartReset(s) \in Fine
  BY <1>3, ResetIsFine DEF AutoInv
<1>5. kbd' = AutostartReset(s).kbd /\ auto' = AutostartReset(s).auto
  BY DEF MachineReset, Become, s
<1> QED BY <1>4, <1>5, StepIsFine DEF MachineReset, AutoInv

LEMMA MachineIsFine == AutoInv /\ Machine => AutoInv'
<1> SUFFICES ASSUME AutoInv, Machine PROVE AutoInv'
  OBVIOUS
<1>0. Now \in Fine /\ Now = [kbd |-> kbd, auto |-> auto] /\ kbd \in Good /\ auto \in AutoState
  BY DEF AutoInv, Fine, Sound, Now
<1>1. ASSUME NEW s \in Fine, kbd' = s.kbd, auto' = s.auto PROVE AutoInv'
  BY <1>1, StepIsFine DEF Machine, AutoInv
<1>2. CASE Start
  BY <1>0, <1>1, <1>2 DEF Start
<1>3. CASE GoOn
  BY <1>0, <1>1, <1>3 DEF GoOn
<1>4. CASE ReadKey
  <2>1. kbd' \in Good
    BY <1>0, <1>4, TakeIsGood DEF ReadKey, TakeKey
  <2>2. [kbd |-> kbd', auto |-> auto] \in Fine
    BY <1>0, <2>1, SameIsFine
  <2> QED BY <1>1, <1>4, <2>2 DEF ReadKey
<1>5. CASE Attention
  <2> DEFINE t == [auto EXCEPT !.attention = FALSE, !.eof = TRUE]
  <2>1. [kbd |-> kbd, auto |-> t] \in Fine
    <3>1. /\ t \in AutoState /\ t.warp = auto.warp /\ t.tde = auto.tde
          /\ t.orig_tde = auto.orig_tde /\ t.orig_warp = auto.orig_warp
          /\ t.autostartmode = auto.autostartmode
      BY <1>0 DEF AutoState
    <3> HIDE DEF t
    <3> QED BY <1>0, <3>1, SameIsFine
  <2> HIDE DEF t
  <2>2. kbd' = kbd /\ (auto' = t \/ auto' = auto)
    BY <1>5 DEF Attention, t
  <2> QED BY <1>0, <1>1, <2>1, <2>2
<1>6. CASE ReceiveEof
  <2>1. ASSUME auto.eof PROVE DiskEof(Now) \in Fine
    <3>1. Now \in Sound /\ WarpHeld(Now.auto) /\ TdeHeld(Now.auto)
      BY <1>0 DEF Fine
    <3>2. WarpKnown(Now.auto) /\ (settings.handle \/ TdeFree(Now.auto))
      BY <3>1 DEF WarpHeld, WarpKnown, TdeHeld
    <3> QED BY <3>1, <3>2, DiskEofIsFree, FreeIsFine DEF AutoInv
  <2> QED BY <1>0, <1>1, <1>6, <2>1 DEF ReceiveEof, Become
<1>7. CASE LoadSnapshot
  <2> DEFINE t == [auto EXCEPT !.trap = FALSE]
  <2>1. [kbd |-> kbd, auto |-> t] \in Fine
    <3>1. /\ t \in AutoState /\ t.warp = auto.warp /\ t.tde = auto.tde
          /\ t.orig_tde = auto.orig_tde /\ t.orig_warp = auto.orig_warp
          /\ t.autostartmode = auto.autostartmode
      BY <1>0 DEF AutoState
    <3> HIDE DEF t
    <3> QED BY <1>0, <3>1, SameIsFine
  <2> QED BY <1>1, <1>7, <2>1 DEF LoadSnapshot
<1> QED BY <1>2, <1>3, <1>4, <1>5, <1>6, <1>7 DEF Machine

LEMMA UserIsFine ==
  AutoInv /\ (TypesReturn \/ UserTypes \/ UserLoads \/ UserResets) => AutoInv'
<1> SUFFICES ASSUME AutoInv, TypesReturn \/ UserTypes \/ UserLoads \/ UserResets
             PROVE  AutoInv'
  OBVIOUS
<1>0. /\ Now \in Fine /\ Now = [kbd |-> kbd, auto |-> auto] /\ kbd \in Good
      /\ auto \in AutoState /\ user \in User
  BY DEF AutoInv, Fine, Sound, Now
<1>1. Disturbs => /\ user' \in User /\ user'.overlapped = user.overlapped
                  /\ user'.wanted = user.wanted
  <2> SUFFICES ASSUME Disturbs
               PROVE  /\ user' \in User /\ user'.overlapped = user.overlapped
                      /\ user'.wanted = user.wanted
    OBVIOUS
  <2> DEFINE l == [user.left EXCEPT !.acts = @ - 1]
  <2>1. l \in [boots : Nat, acts : Nat]
    BY <1>0 DEF Disturbs, User
  <2>2. user' = [user EXCEPT !.left = l, !.disturbed = TRUE]
    BY <1>0 DEF Disturbs, User
  <2> HIDE DEF l
  <2> QED BY <1>0, <2>1, <2>2 DEF User
<1>2. CASE TypesReturn
  <2>1. kbd' \in Good
    BY <1>0, <1>2, AlarmIsGood DEF TypesReturn, FlushAlarm
  <2>2. [kbd |-> kbd', auto |-> auto] \in Fine
    BY <1>0, <2>1, SameIsFine
  <2> QED BY <1>0, <1>2, <2>2, StepIsFine DEF TypesReturn
<1>3. CASE UserTypes
  <2>1. kbd' \in Good
    BY <1>0, <1>3, PressIsGood DEF UserTypes, PressKey
  <2>2. [kbd |-> kbd', auto |-> auto] \in Fine
    BY <1>0, <2>1, SameIsFine
  <2> QED BY <1>1, <1>3, <2>2, StepIsFine DEF UserTypes, Disturbs
<1>4. CASE UserLoads
  BY <1>0, <1>1, <1>4, StepIsFine DEF UserLoads, Disturbs
<1>5. CASE UserResets
  <2> DEFINE t == [auto EXCEPT !.reset = "asked"]
  <2>1. [kbd |-> kbd, auto |-> t] \in Fine
    <3>1. /\ t \in AutoState /\ t.warp = auto.warp /\ t.tde = auto.tde
          /\ t.orig_tde = auto.orig_tde /\ t.orig_warp = auto.orig_warp
          /\ t.autostartmode = auto.autostartmode
      BY <1>0 DEF AutoState
    <3> HIDE DEF t
    <3> QED BY <1>0, <3>1, SameIsFine
  <2> QED BY <1>1, <1>5, <2>1, StepIsFine DEF UserResets, Disturbs
<1> QED BY <1>2, <1>3, <1>4, <1>5

(* The user changes what he wants only between boots.                      *)
LEMMA ChangesAreFine == AutoInv /\ UserChanges => AutoInv'
<1> SUFFICES ASSUME AutoInv, UserChanges PROVE AutoInv'
  OBVIOUS
<1>0. /\ kbd \in Good /\ auto \in AutoState /\ user \in User
      /\ WarpHeld(auto) /\ TdeHeld(auto)
  BY DEF AutoInv, Fine, Sound, Now
<1>1. /\ user' \in User /\ user'.overlapped = user.overlapped
      /\ user'.wanted = 1 - auto.tde
  <2> DEFINE l == [user.left EXCEPT !.acts = @ - 1]
             w == 1 - auto.tde
  <2>1. l \in [boots : Nat, acts : Nat]
    BY <1>0 DEF UserChanges, User
  <2>2. user' = [user EXCEPT !.left = l, !.disturbed = TRUE, !.wanted = w]
    BY <1>0 DEF UserChanges, User
  <2>3. w \in {0, 1}
    BY <1>0 DEF AutoState
  <2> HIDE DEF l, w
  <2>4. user' \in User /\ user'.overlapped = user.overlapped /\ user'.wanted = w
    BY <1>0, <2>1, <2>2, <2>3 DEF User
  <2> QED BY <2>4 DEF w
<1>2. /\ auto' \in AutoState /\ auto'.warp = auto.warp /\ auto'.tde = 1 - auto.tde
      /\ auto'.orig_tde = auto.orig_tde /\ auto'.orig_warp = auto.orig_warp
      /\ auto'.autostartmode = auto.autostartmode
  BY <1>0 DEF UserChanges, AutoState
<1>3. WarpHeld(auto)'
  BY <1>0, <1>1, <1>2 DEF WarpHeld, UserChanges
<1>4. TdeHeld(auto)'
  BY <1>1, <1>2 DEF TdeHeld, TdeFree, UserChanges
<1> QED BY <1>0, <1>1, <1>2, <1>3, <1>4 DEF AutoInv, Fine, Sound, Now, UserChanges

LEMMA FailuresAreFine == AutoInv /\ BootFails => AutoInv'
<1> SUFFICES ASSUME AutoInv, BootFails PROVE AutoInv'
  OBVIOUS
<1>0. /\ kbd \in Good /\ auto \in AutoState /\ user \in User
      /\ WarpHeld(auto) /\ TdeHeld(auto)
  BY DEF AutoInv, Fine, Sound, Now
<1>1. /\ user' \in User /\ user'.overlapped = (user.overlapped \/ InProgress)
      /\ user'.wanted = user.wanted
  <2> DEFINE l == [user.left EXCEPT !.boots = @ - 1]
             o == user.overlapped \/ InProgress
  <2>1. l \in [boots : Nat, acts : Nat]
    BY <1>0 DEF BootFails, User
  <2>2. user' = [user EXCEPT !.left = l, !.disturbed = TRUE, !.overlapped = o]
    BY <1>0 DEF BootFails, User
  <2>3. o \in BOOLEAN
    BY <1>0 DEF User, InProgress
  <2> HIDE DEF l, o
  <2>4. user' \in User /\ user'.overlapped = o /\ user'.wanted = user.wanted
    BY <1>0, <2>1, <2>2, <2>3 DEF User
  <2> QED BY <2>4 DEF o
<1>2. /\ auto' \in AutoState /\ auto'.warp = auto.warp /\ auto'.tde = auto.tde
      /\ auto'.orig_tde = auto.orig_tde /\ auto'.autostartmode = "ERROR"
  BY <1>0 DEF BootFails, AutoState, Modes
<1>3. WarpHeld(auto)'
  BY <1>0, <1>1, <1>2 DEF WarpHeld, BootFails, InProgress, Borrowing
<1>4. TdeHeld(auto)'
  BY <1>0, <1>1, <1>2 DEF TdeHeld, TdeFree, BootFails, InProgress
<1> QED BY <1>0, <1>1, <1>2, <1>3, <1>4 DEF AutoInv, Fine, Sound, Now, BootFails

(* A boot that does not interrupt another one finds warp mode off.         *)
LEMMA BootsAreFine == AutoInv /\ Boot => AutoInv'
<1> SUFFICES ASSUME AutoInv, Boot PROVE AutoInv'
  OBVIOUS
<1>0. /\ kbd \in Good /\ auto \in AutoState /\ user \in User
      /\ WarpHeld(auto) /\ TdeHeld(auto)
  BY DEF AutoInv, Fine, Sound, Now
<1>1. /\ user' \in User /\ user'.overlapped = (user.overlapped \/ InProgress)
      /\ user'.wanted = user.wanted /\ settings' = settings
  <2> DEFINE l == [user.left EXCEPT !.boots = @ - 1]
             o == user.overlapped \/ InProgress
             d == kbd.queue # <<>>
  <2>1. l \in [boots : Nat, acts : Nat]
    BY <1>0 DEF Boot, User
  <2>2. user' = [user EXCEPT !.left = l, !.overlapped = o, !.disturbed = d]
    BY <1>0 DEF Boot, User
  <2>3. o \in BOOLEAN /\ d \in BOOLEAN
    BY <1>0 DEF User, InProgress
  <2> HIDE DEF l, o, d
  <2>4. user' \in User /\ user'.overlapped = o /\ user'.wanted = user.wanted
    BY <1>0, <2>1, <2>2, <2>3 DEF User
  <2> QED BY <2>4 DEF o, Boot
<1>2. PICK medium \in {"disk", "tape", "snapshot"}, delay \in {Delay, Delay + 1} :
        auto' = Rebooted(Mode(medium), delay)
  BY DEF Boot
<1> DEFINE mode == Mode(medium)
           a == [auto EXCEPT !.autostartmode = mode, !.ignore_reset = TRUE,
                             !.wait_for_reset = TRUE, !.initial_delay = delay,
                             !.play = FALSE, !.reset = "asked"]
<1>3. mode \in {"HASDISK", "HASTAPE", "HASSNAPSHOT"}
  BY DEF Mode
<1>4. auto' = IF mode = "HASSNAPSHOT" THEN a ELSE EnableWarp(a)
  BY <1>2 DEF Rebooted
<1> HIDE DEF mode
<1>5. /\ a \in AutoState /\ a.warp = auto.warp /\ a.tde = auto.tde
      /\ a.orig_tde = auto.orig_tde /\ a.autostartmode = mode
  <2>1. delay \in Delay..Delay + 1
    BY AutostartAssumption
  <2> QED BY <1>0, <1>3, <2>1 DEF AutoState, Modes
<1> HIDE DEF a
<1>6. /\ auto' \in AutoState /\ auto'.tde = auto.tde
      /\ auto'.orig_tde = auto.orig_tde /\ auto'.autostartmode = mode
      /\ auto'.warp = 1 => \/ auto.warp = 1 /\ (mode = "HASSNAPSHOT" \/ ~settings.warp)
                           \/ /\ settings.warp /\ mode # "HASSNAPSHOT"
                              /\ auto'.orig_warp = auto.warp
  <2>1. CASE mode = "HASSNAPSHOT" \/ ~settings.warp
    <3>1. auto' = a
      BY <1>4, <2>1 DEF EnableWarp
    <3> QED BY <1>5, <2>1, <3>1
  <2>2. CASE mode # "HASSNAPSHOT" /\ settings.warp
    <3>1. auto' = [a EXCEPT !.orig_warp = a.warp, !.warp = 1]
      BY <1>4, <2>2 DEF EnableWarp
    <3>2. a.warp \in {-1, 0, 1}
      BY <1>5 DEF AutoState
    <3>3. /\ auto' \in AutoState /\ auto'.tde = a.tde /\ auto'.orig_tde = a.orig_tde
          /\ auto'.autostartmode = a.autostartmode /\ auto'.orig_warp = a.warp
      BY <1>5, <3>1, <3>2 DEF AutoState
    <3> QED BY <1>5, <2>2, <3>3
  <2> QED BY <2>1, <2>2
<1>7. WarpHeld(auto)'
  <2>1. auto.warp \in {0, 1}
    BY <1>0 DEF AutoState
  <2> QED BY <1>0, <1>1, <1>3, <1>6, <2>1 DEF WarpHeld, InProgress, Borrowing
<1>8. TdeHeld(auto)'
  BY <1>0, <1>1, <1>3, <1>6 DEF TdeHeld, TdeFree, InProgress
<1>9. kbd' \in Good
  BY <1>0, ContentsAreGood DEF Boot
<1> QED BY <1>1, <1>6, <1>7, <1>8, <1>9 DEF AutoInv, Fine, Sound, Now

LEMMA NextIsFine == AutoInv /\ [AutostartNext]_vars => AutoInv'
<1> SUFFICES ASSUME AutoInv, [AutostartNext]_vars PROVE AutoInv'
  OBVIOUS
<1>1. CASE AutostartNext
  BY <1>1, FramesAreFine, ResetsAreFine, MachineIsFine, UserIsFine, ChangesAreFine,
     FailuresAreFine, BootsAreFine DEF AutostartNext
<1>2. CASE UNCHANGED vars
  BY <1>2 DEF vars, AutoInv, Fine, Sound, WarpHeld, TdeHeld, TdeFree, Now
<1> QED BY <1>1, <1>2

LEMMA AutoStaysFine == AutostartSpec => []AutoInv
BY InitIsFine, NextIsFine, PTL DEF AutostartSpec

-----------------------------------------------------------------------------
(* Whatever is typed on behalf of the user, and whenever a boot ends: the  *)
(* alarm of a RETURN finds it at the head of the queue                     *)
(* (kbdbuf_flush_alarm_triggered).                                         *)
THEOREM AlarmFindsReturn == AutostartSpec => []ReturnIsNext
<1>1. AutoInv => ReturnIsNext
  BY GoodIsEnough DEF AutoInv, Fine, Sound, Now, KbdInv
<1> QED BY <1>1, AutoStaysFine, PTL

(* The KERNAL's buffer is overrun by one at the most (kbdbuf_flush).       *)
THEOREM TypedTextFits == AutostartSpec => []TypingFits
<1>1. AutoInv => TypingFits
  BY GoodIsEnough DEF AutoInv, Fine, Sound, Now, KbdInv
<1> QED BY <1>1, AutoStaysFine, PTL

(* A boot that has ended, in whatever way, has given warp mode back        *)
(* (disable_warp_if_was_requested).                                        *)
THEOREM WarpComesBack == AutostartSpec => []WarpGivenBack
<1>1. AutoInv => WarpGivenBack
  <2> SUFFICES ASSUME AutoInv, ~InProgress, ~user.overlapped PROVE auto.warp = 0
    BY DEF WarpGivenBack
  <2>1. auto \in AutoState /\ WarpHeld(auto)
    BY DEF AutoInv, Fine, Sound, Now
  <2> QED BY <2>1 DEF AutoState, WarpHeld, InProgress, Borrowing
<1> QED BY <1>1, AutoStaysFine, PTL

(* And true drive emulation, as far as autostart remembers what the user   *)
(* has chosen (disk_eof_callback, autostart_advance).                      *)
THEOREM TdeComesBack == AutostartSpec => []TdeGivenBack
<1>1. AutoInv => TdeGivenBack
  <2> SUFFICES ASSUME AutoInv, ~InProgress, ~user.overlapped, settings.devices,
                      auto.orig_tde = user.wanted
               PROVE  auto.tde = user.wanted
    BY DEF TdeGivenBack
  <2>1. TdeHeld(auto)
    BY DEF AutoInv, Fine, Now
  <2> QED BY <2>1 DEF TdeHeld, TdeFree, InProgress
<1> QED BY <1>1, AutoStaysFine, PTL
-----------------------------------------------------------------------------
(* The machine that is typed to stays a machine, whatever is typed.        *)
Machines == Kernel(Chars \union Keys)
Doings == {"cleared", "starting", "prompt", "press", "searching", "loading",
           "failing", "running"}

LEMMA AtIsTyped ==
  ASSUME NEW m \in Machines, NEW doing \in Doings
  PROVE  At(m, doing) \in Machines
BY DEF At, Machines, Kernel, Doings

LEMMA LineIsTyped ==
  ASSUME NEW m \in Machines, NEW line \in Seq(Chars \union Keys)
  PROVE  [m EXCEPT !.line = line] \in Machines
BY DEF Machines, Kernel

LEMMA AboveIsTyped ==
  ASSUME NEW m \in Machines, NEW above \in {"READY.", "blank", "other"}
  PROVE  [m EXCEPT !.above = above] \in Machines
BY DEF Machines, Kernel

LEMMA ProgramIsTyped ==
  ASSUME NEW m \in Machines, NEW b \in BOOLEAN
  PROVE  [m EXCEPT !.program = b] \in Machines
BY DEF Machines, Kernel

LEMMA ViaIsTyped ==
  ASSUME NEW m \in Machines, NEW via \in {"drive", "trap"}
  PROVE  [m EXCEPT !.via = via] \in Machines
BY DEF Machines, Kernel

LEMMA NothingIsTyped == <<>> \in Seq(Chars \union Keys)
BY EmptySeq

LEMMA ReadyIsTyped ==
  ASSUME NEW m \in Machines
  PROVE  Ready(m) \in Machines
<1> DEFINE n == At(m, "prompt")
           l == [n EXCEPT !.line = <<>>]
           ready == "READY."
<1>1. n \in Machines
  BY AtIsTyped DEF Doings
<1> HIDE DEF n
<1>2. l \in Machines
  BY <1>1, LineIsTyped, NothingIsTyped
<1>3. [n EXCEPT !.line = <<>>, !.above = "READY."] = [l EXCEPT !.above = "READY."]
  OBVIOUS
<1> HIDE DEF l
<1>4. [l EXCEPT !.above = "READY."] \in Machines
  BY <1>2, AboveIsTyped
<1> QED BY <1>3, <1>4 DEF Ready, n

LEMMA RunsIsTyped ==
  ASSUME NEW m \in Machines, NEW n \in Runs(m)
  PROVE  n \in Machines
<1>1. At(m, "running") \in Machines
  BY AtIsTyped DEF Doings
<1>2. PICK x \in {"blank", "other"} : n = [At(m, "running") EXCEPT !.above = x]
  BY DEF Runs
<1> QED BY <1>1, <1>2, AboveIsTyped

LEMMA LoadsIsTyped ==
  ASSUME NEW m \in Machines, NEW truedrive, NEW traps
  PROVE  Loads(m, truedrive, traps) \in Machines
<1>1. At(m, "press") \in Machines /\ At(m, "searching") \in Machines
  BY AtIsTyped DEF Doings
<1>2. /\ [At(m, "searching") EXCEPT !.via = "drive"] \in Machines
      /\ [At(m, "searching") EXCEPT !.via = "trap"] \in Machines
  BY <1>1, ViaIsTyped
<1> QED BY <1>1, <1>2, ReadyIsTyped DEF Loads

LEMMA LoadedIsTyped ==
  ASSUME NEW m \in Machines, NEW n \in Loaded(m)
  PROVE  n \in Machines
<1>1. [Ready(m) EXCEPT !.program = TRUE] \in Machines
  BY ReadyIsTyped, ProgramIsTyped
<1> QED BY <1>1, RunsIsTyped DEF Loaded

LEMMA EnterIsTyped ==
  ASSUME NEW m \in Machines, NEW c \in Chars \union Keys, NEW truedrive, NEW traps,
         NEW n \in Enter(m, c, truedrive, traps)
  PROVE  n \in Machines
<1>1. CASE EndsLine(c)
  <2>1. PICK x \in Execute(m, truedrive, traps) : n = [x EXCEPT !.line = <<>>]
    BY <1>1 DEF Enter
  <2>2. [m EXCEPT !.above = "blank"] \in Machines
    BY AboveIsTyped
  <2>3. \/ x = Loads(m, truedrive, traps) \/ x \in Runs(m)
        \/ x = [m EXCEPT !.above = "blank"] \/ x = Ready(m)
    BY <2>1 DEF Execute
  <2>4. x \in Machines
    BY <2>2, <2>3, LoadsIsTyped, RunsIsTyped, ReadyIsTyped
  <2> QED BY <2>1, <2>4, LineIsTyped, NothingIsTyped
<1>2. CASE ~EndsLine(c)
  <2> DEFINE l == [m EXCEPT !.line = <<>>]
             a == Append(m.line, c)
  <2>1. l \in Machines
    BY LineIsTyped, NothingIsTyped
  <2>2. [m EXCEPT !.line = <<>>, !.above = "other"] = [l EXCEPT !.above = "other"]
    OBVIOUS
  <2>3. m.line \in Seq(Chars \union Keys)
    BY DEF Machines, Kernel
  <2>4. a \in Seq(Chars \union Keys)
    BY <2>3, AppendProperties
  <2>5. n = [m EXCEPT !.line = <<>>, !.above = "other"] \/ n = [m EXCEPT !.line = a]
    BY <1>2 DEF Enter
  <2> HIDE DEF a, l
  <2>6. [l EXCEPT !.above = "other"] \in Machines /\ [m EXCEPT !.line = a] \in Machines
    BY <2>1, <2>4, AboveIsTyped, LineIsTyped
  <2> QED BY <2>2, <2>5, <2>6
<1> QED BY <1>1, <1>2

LEMMA GoesIsTyped ==
  ASSUME NEW m \in Machines, NEW play, NEW n \in Goes(m, play)
  PROVE  n \in Machines
<1>1. \/ n \in {At(m, "searching"), At(m, "failing"), At(m, "loading"), Ready(m)}
      \/ n \in Loaded(m)
  BY DEF Goes
<1> QED BY <1>1, AtIsTyped, ReadyIsTyped, LoadedIsTyped DEF Doings

LEMMA OffIsTyped == Off \in Machines
BY NothingIsTyped DEF Off, Machines, Kernel

LEMMA MediumIsTyped ==
  ASSUME NEW m \in Machines,
         NEW medium \in {"disk", "tape", "snapshot"}, NEW file \in {"basic", "auto", "missing"}
  PROVE  [m EXCEPT !.medium = medium, !.file = file] \in Machines
BY DEF Machines, Kernel

(* Each step of the machine, of the emulator and of the user.              *)
LEMMA MachineIsTyped ==
  ASSUME AutoInv, kernal \in Machines, [AutostartNext]_vars
  PROVE  kernal' \in Machines
<1>0. kbd \in Good /\ kbd \in KbdState
  BY DEF AutoInv, Fine, Sound, Now, Good
<1>1. CASE Vsync
  BY <1>1 DEF Vsync, Shown, Machines, Kernel
<1>2. CASE MachineReset
  <2>1. At(kernal, "starting") \in Machines
    BY AtIsTyped DEF Doings
  <2> QED BY <1>2, <2>1, ProgramIsTyped DEF MachineReset
<1>3. CASE Machine
  <2>1. CASE Start
    BY <2>1, ReadyIsTyped DEF Start
  <2>2. CASE ReadKey
    <3>1. Head(kbd.buffer) \in Chars \union Keys
      BY <1>0, <2>2, HeadTailProperties DEF ReadKey, TakeKey, KbdState
    <3> QED BY <2>2, <3>1, EnterIsTyped DEF ReadKey
  <2>3. CASE GoOn
    BY <2>3, GoesIsTyped DEF GoOn
  <2>4. CASE Attention
    BY <2>4, ReadyIsTyped, AtIsTyped DEF Attention, Doings
  <2>5. CASE ReceiveEof
    BY <2>5, LoadedIsTyped DEF ReceiveEof
  <2>6. CASE LoadSnapshot
    BY <2>6, RunsIsTyped DEF LoadSnapshot
  <2> QED BY <1>3, <2>1, <2>2, <2>3, <2>4, <2>5, <2>6 DEF Machine
<1>4. CASE UserLoads
  BY <1>4, LoadsIsTyped, LineIsTyped, NothingIsTyped DEF UserLoads
<1>5. CASE Boot
  BY <1>5, OffIsTyped, MediumIsTyped DEF Boot
<1>6. CASE BootFails
  BY <1>6 DEF BootFails, Machines, Kernel
<1>7. CASE TypesReturn \/ UserTypes \/ UserResets \/ UserChanges \/ UNCHANGED vars
  BY <1>7 DEF TypesReturn, UserTypes, UserResets, UserChanges, vars
<1> QED BY <1>1, <1>2, <1>3, <1>4, <1>5, <1>6, <1>7 DEF AutostartNext

(* The keyboard buffer, autostart and the machine stay what they are, for  *)
(* any texts, keys, settings and delays.                                   *)
THEOREM AutostartIsTyped == AutostartSpec => []TypeOK
<1>1. AutostartInit => kernal \in Machines
  BY OffIsTyped, ReadyIsTyped DEF AutostartInit
<1>2. AutoInv /\ kernal \in Machines /\ [AutostartNext]_vars => (kernal \in Machines)'
  BY MachineIsTyped
<1>3. AutoInv /\ kernal \in Machines => TypeOK
  BY GoodIsEnough DEF AutoInv, Fine, Sound, Now, KbdInv, TypeOK, Machines
<1> QED BY <1>1, <1>2, <1>3, AutoStaysFine, PTL DEF AutostartSpec

-----------------------------------------------------------------------------
(* Autostart types the text, too.  What has been typed is a prefix of what *)
(* waited and was fed; two calls in a step type one text behind the other. *)
Prefix(k, j, text) ==
  \E typed \in Seq(Chars) : /\ k.queue \o text = typed \o j.queue
                            /\ j.buffer = k.buffer \o typed

LEMMA TypingIsPrefix ==
  ASSUME NEW k \in KbdState, NEW j, NEW text \in Seq(Chars), Typing(k, j, text)
  PROVE  Prefix(k, j, text)
<1> DEFINE q == k.queue \o text
<1>1. q \in Seq(Chars) /\ Len(q) \in Nat
  BY ConcatProperties, LenProperties DEF KbdState
<1>2. PICK n \in 0..Len(q) : /\ j.queue = SubSeq(q, n + 1, Len(q))
                             /\ j.buffer = k.buffer \o SubSeq(q, 1, n)
  BY DEF Typing
<1> HIDE DEF q
<1>3. 1 \in 1..Len(q) + 1 /\ n \in 1 - 1..Len(q) /\ Len(q) \in n..Len(q)
  BY <1>1
<1>4. SubSeq(q, 1, n) \o SubSeq(q, n + 1, Len(q)) = SubSeq(q, 1, Len(q))
  BY <1>1, <1>3, ConcatAdjacentSubSeq
<1>5. SubSeq(q, 1, Len(q)) = q /\ SubSeq(q, 1, n) \in Seq(Chars)
  BY <1>1, SubSeqFull, Cut
<1> QED BY <1>2, <1>4, <1>5 DEF Prefix, q

LEMMA PrefixIsTyping ==
  ASSUME NEW k \in KbdState, NEW j \in KbdState, NEW text \in Seq(Chars),
         Prefix(k, j, text)
  PROVE  Typing(k, j, text)
<1>1. PICK typed \in Seq(Chars) : /\ k.queue \o text = typed \o j.queue
                                  /\ j.buffer = k.buffer \o typed
  BY DEF Prefix
<1> DEFINE r == j.queue
           q == typed \o r
           n == Len(typed)
<1>2. r \in Seq(Chars) /\ n \in Nat /\ Len(r) \in Nat
  BY LenProperties DEF KbdState
<1>3. Len(q) = n + Len(r) /\ q \in Seq(Chars)
  BY <1>2, ConcatProperties
<1>4. SubSeq(q, 1, n) = typed
  <2>1. CASE typed = <<>>
    <3>1. n = 0 /\ SubSeq(q, 1, 0) = <<>>
      BY <1>3, <2>1, EmptySeq, SubSeqEmpty
    <3> QED BY <2>1, <3>1
  <2>2. CASE typed # <<>>
    <3>1. 1 \in 1..Len(typed) /\ n \in 1..Len(typed)
      BY <1>2, <2>2, EmptySeq
    <3>2. SubSeq(q, 1, n) = SubSeq(typed, 1, n)
      BY <1>2, <3>1, SubSeqOfConcat1
    <3> QED BY <3>2, SubSeqFull
  <2> QED BY <2>1, <2>2
<1>5. SubSeq(q, n + 1, Len(q)) = r
  <2>1. CASE r = <<>>
    <3>1. Len(q) = n
      BY <1>2, <1>3, <2>1, EmptySeq
    <3>2. SubSeq(q, n + 1, n) = <<>>
      BY <1>2, <1>3, SubSeqEmpty
    <3> QED BY <2>1, <3>1, <3>2
  <2>2. CASE r # <<>>
    <3>1. /\ n + 1 \in Len(typed) + 1..Len(typed) + Len(r)
          /\ Len(q) \in Len(typed) + 1..Len(typed) + Len(r)
          /\ n + 1 - Len(typed) = 1 /\ Len(q) - Len(typed) = Len(r)
      BY <1>2, <1>3, <2>2, EmptySeq
    <3>2. SubSeq(q, n + 1, Len(q))
            = SubSeq(r, n + 1 - Len(typed), Len(q) - Len(typed))
      BY <1>2, <3>1, SubSeqOfConcat2
    <3> QED BY <1>2, <3>1, <3>2, SubSeqFull
  <2> QED BY <2>1, <2>2
<1>6. n \in 0..Len(q)
  BY <1>2, <1>3
<1> HIDE DEF q, n
<1>7. k.queue \o text = q /\ j.queue = SubSeq(q, n + 1, Len(q))
      /\ j.buffer = k.buffer \o SubSeq(q, 1, n)
  BY <1>1, <1>4, <1>5 DEF q
<1> QED BY <1>6, <1>7 DEF Typing

Regroups(x, y, z) == (x \o y) \o z = x \o (y \o z)

LEMMA TextsRegroup ==
  ASSUME NEW S, NEW x \in Seq(S), NEW y \in Seq(S), NEW z \in Seq(S)
  PROVE  Regroups(x, y, z)
BY ConcatAssociative DEF Regroups

LEMMA TypingTwice ==
  ASSUME NEW k \in KbdState, NEW j \in KbdState, NEW i \in KbdState,
         NEW a \in Seq(Chars), NEW b \in Seq(Chars),
         Typing(k, j, a), Typing(j, i, b)
  PROVE  Typing(k, i, a \o b)
<1> DEFINE p == k.queue
           q == j.queue
           r == i.queue
           c == k.buffer
           S == Chars \union Keys
<1>1. Prefix(k, j, a) /\ Prefix(j, i, b)
  BY TypingIsPrefix
<1>2. PICK t \in Seq(Chars) : p \o a = t \o q /\ j.buffer = c \o t
  BY <1>1 DEF Prefix
<1>3. PICK u \in Seq(Chars) : q \o b = u \o r /\ i.buffer = j.buffer \o u
  BY <1>1 DEF Prefix
<1>4. p \in Seq(Chars) /\ q \in Seq(Chars) /\ r \in Seq(Chars)
  BY DEF KbdState
<1>5. c \in Seq(S) /\ t \in Seq(S) /\ u \in Seq(S)
  BY SeqMonotonic DEF KbdState
<1> HIDE DEF p, q, r, c, S
<1>6. p \o (a \o b) = (t \o u) \o r
  <2>1. Regroups(p, a, b) /\ Regroups(t, q, b) /\ Regroups(t, u, r)
    BY <1>4, TextsRegroup
  <2> QED BY <1>2, <1>3, <2>1 DEF Regroups
<1>7. i.buffer = c \o (t \o u)
  <2>1. Regroups(c, t, u)
    BY <1>5, TextsRegroup
  <2> QED BY <1>2, <1>3, <2>1 DEF Regroups
<1>8. a \o b \in Seq(Chars) /\ t \o u \in Seq(Chars)
  BY ConcatProperties
<1>9. Prefix(k, i, a \o b)
  BY <1>6, <1>7, <1>8 DEF Prefix, p, r, c
<1> QED BY <1>8, <1>9, PrefixIsTyping

LEMMA NoMoreTyped ==
  ASSUME NEW k \in KbdState
  PROVE  Typing(k, k, <<>>)
<1>1. <<>> \in Seq(Chars) /\ k.queue = k.queue \o <<>>
  BY EmptySeq, ConcatEmptySeq DEF KbdState
<1> QED BY <1>1, NothingTyped

(* What a function of autostart.c types in one step.                       *)
Lines == {<<>>, LOAD, RUN, LOAD \o RUN}
Says(k, j) == \E text \in Lines : Typing(k, j, text)

LEMMA LinesAreTexts ==
  /\ Lines \subseteq Texts \union {<<>>}
  /\ Lines \subseteq Seq(Chars)
BY AutostartAssumption, KbdBufAssumption, EmptySeq DEF Lines

LEMMA SaysNothing == ASSUME NEW k \in KbdState PROVE Says(k, k)
BY NoMoreTyped DEF Says, Lines

LEMMA FeedSays ==
  ASSUME NEW k \in Good, NEW text \in {LOAD, RUN}, NEW d \in BOOLEAN
  PROVE  Says(k, Feed(k, text, d))
<1>1. k \in KbdState /\ text \in Seq(Chars) /\ text \in Lines /\ <<>> \in Lines
  BY LinesAreTexts DEF Lines, Good
<1> QED BY <1>1, FeedTypes DEF Says

LEMMA FeedTwiceSays ==
  ASSUME NEW k \in Good, NEW d \in BOOLEAN, NEW e \in BOOLEAN
  PROVE  Says(k, Feed(Feed(k, LOAD, d), RUN, e))
<1> DEFINE j == Feed(k, LOAD, d)
           i == Feed(j, RUN, e)
<1>1. LOAD \in Seq(Chars) /\ RUN \in Seq(Chars) /\ <<>> \in Seq(Chars)
  BY LinesAreTexts DEF Lines
<1>2. j \in Good /\ (Typing(k, j, LOAD) \/ Typing(k, j, <<>>))
  <2>1. j \in Good
    BY <1>1, FeedIsGood
  <2>2. k \in KbdState
    BY DEF Good
  <2> QED BY <1>1, <2>1, <2>2, FeedTypes
<1> HIDE DEF j
<1>3. i \in Good /\ (Typing(j, i, RUN) \/ Typing(j, i, <<>>))
  <2>1. i \in Good
    BY <1>1, <1>2, FeedIsGood
  <2>2. j \in KbdState
    BY <1>2 DEF Good
  <2> QED BY <1>1, <2>1, <2>2, FeedTypes
<1> HIDE DEF i
<1>4. PICK a \in {LOAD, <<>>}, b \in {RUN, <<>>} :
        Typing(k, j, a) /\ Typing(j, i, b)
  BY <1>2, <1>3
<1>5. Typing(k, i, a \o b)
  BY <1>1, <1>2, <1>3, <1>4, TypingTwice DEF Good
<1>6. a \o b \in Lines
  <2>1. /\ LOAD \o <<>> = LOAD /\ <<>> \o RUN = RUN /\ <<>> \o <<>> = <<>>
    BY <1>1, ConcatEmptySeq
  <2> QED BY <2>1 DEF Lines
<1>7. Says(k, i)
  BY <1>5, <1>6 DEF Says
<1> QED BY <1>7 DEF i, j

LEMMA FrameThenSays ==
  ASSUME NEW k \in KbdState, NEW j \in KbdState, NEW i \in KbdState,
         Typing(k, j, <<>>), Says(j, i)
  PROVE  Says(k, i)
<1>1. PICK text \in Lines : Typing(j, i, text)
  BY DEF Says
<1>2. text \in Seq(Chars) /\ <<>> \in Seq(Chars) /\ <<>> \o text = text
  BY LinesAreTexts, EmptySeq, ConcatEmptySeq
<1>3. Typing(k, i, text)
  BY <1>1, <1>2, TypingTwice
<1> QED BY <1>3 DEF Says

-----------------------------------------------------------------------------
(* The functions that leave the keyboard buffer alone.                     *)
Pair(s) == DOMAIN s = {"kbd", "auto"}

LEMMA ModeIsQuiet ==
  ASSUME NEW s, Pair(s), NEW mode
  PROVE  Pair(InMode(s, mode)) /\ InMode(s, mode).kbd = s.kbd
BY DEF Pair, InMode

LEMMA WarpIsQuiet ==
  ASSUME NEW s, Pair(s)
  PROVE  Pair(DisableWarp(s)) /\ DisableWarp(s).kbd = s.kbd
BY DEF Pair, DisableWarp

LEMMA GivesUpIsQuiet ==
  ASSUME NEW s, Pair(s)
  PROVE  GivesUp(s).kbd = s.kbd
BY ModeIsQuiet, WarpIsQuiet DEF GivesUp

LEMMA CheckRomAreaIsQuiet ==
  ASSUME NEW s, Pair(s)
  PROVE  CheckRomArea(s).kbd = s.kbd
<1>1. Done(DisableWarp(s)).kbd = s.kbd
  BY ModeIsQuiet, WarpIsQuiet DEF Done
<1>2. [s EXCEPT !.auto.entered_rom = InRom(kernal)].kbd = s.kbd
  BY DEF Pair
<1> QED BY <1>1, <1>2 DEF CheckRomArea

LEMMA FinishSays ==
  ASSUME NEW s, Pair(s), s.kbd \in Good, settings \in Settings
  PROVE  Pair(Finish(s)) /\ Finish(s).kbd = Feed(s.kbd, RUN, settings.random)
         /\ settings.random \in BOOLEAN
BY AutostartAssumption DEF Finish, Types, Pair

LEMMA DiskEofSays ==
  ASSUME NEW s, Pair(s), s.kbd \in Good, settings \in Settings
  PROVE  /\ Says(s.kbd, DiskEof(s).kbd)
         /\ (s.auto \in AutoState /\ s.auto.autostartmode = "NONE") => DiskEof(s).kbd = s.kbd
         /\ Pair(DiskEof(s))
<1> DEFINE t == IF settings.handle THEN [s EXCEPT !.auto.tde = s.auto.orig_tde] ELSE s
           f == IF t.auto.autostartmode = "NONE" THEN t ELSE Finish(t)
           e == [Done(f) EXCEPT !.auto.eof = FALSE]
<1>1. Pair(t) /\ t.kbd = s.kbd
  BY DEF Pair
<1>2. ASSUME s.auto \in AutoState, s.auto.autostartmode = "NONE"
      PROVE  t.auto.autostartmode = "NONE"
  BY <1>2 DEF Pair, AutoState
<1> HIDE DEF t
<1>3. Pair(f) /\ Says(s.kbd, f.kbd) /\ (t.auto.autostartmode = "NONE" => f.kbd = s.kbd)
  <2>1. CASE t.auto.autostartmode = "NONE"
    BY <1>1, <2>1, SaysNothing DEF Good
  <2>2. CASE t.auto.autostartmode # "NONE"
    BY <1>1, <2>2, FinishSays, FeedSays
  <2> QED BY <2>1, <2>2
<1> HIDE DEF f
<1>4. Pair(e) /\ e.kbd = f.kbd
  <2>1. Pair(Done(f)) /\ Done(f).kbd = f.kbd
    BY <1>3, ModeIsQuiet DEF Done
  <2> HIDE DEF f
  <2> QED BY <2>1 DEF Pair
<1>5. DiskEof(s) = DisableWarp(e)
  BY DEF DiskEof, t, f
<1> HIDE DEF e
<1> QED BY <1>2, <1>3, <1>4, <1>5, WarpIsQuiet

LEMMA LoadsDiskSays ==
  ASSUME NEW s, Pair(s), s.kbd \in Good, settings \in Settings
  PROVE  Says(s.kbd, LoadsDisk(s).kbd)
<1> DEFINE a     == s.auto
           traps == IF settings.handle THEN settings.devices ELSE a.tde = 0
           now   == IF ~settings.handle THEN a.tde ELSE IF traps THEN 0 ELSE 1
           k     == [s EXCEPT !.auto.orig_tde = a.tde, !.auto.tde = now]
           typed == Types(k, LOAD, FALSE)
<1>1. LoadsDisk(s) = IF traps THEN [InMode(typed, "LOADINGDISK") EXCEPT !.auto.attention = TRUE]
                     ELSE IF settings.warp THEN InMode(typed, "WAITSEARCHINGFOR")
                     ELSE Done(Finish(typed))
  BY DEF LoadsDisk
<1> HIDE DEF now, traps
<1>2. Pair(k) /\ k.kbd = s.kbd
  BY DEF Pair
<1> HIDE DEF k
<1>3. Pair(typed) /\ typed.kbd = Feed(s.kbd, LOAD, FALSE)
  BY <1>2 DEF Pair, Types
<1>4. typed.kbd \in Good
  <2>1. LOAD \in Seq(Chars)
    BY LinesAreTexts DEF Lines
  <2> QED BY <1>3, <2>1, FeedIsGood
<1> HIDE DEF typed
<1>5. Says(s.kbd, typed.kbd)
  BY <1>3, FeedSays
<1>6. Says(s.kbd, Done(Finish(typed)).kbd)
  <2>1. /\ Pair(Finish(typed)) /\ settings.random \in BOOLEAN
        /\ Finish(typed).kbd = Feed(Feed(s.kbd, LOAD, FALSE), RUN, settings.random)
    BY <1>3, <1>4, FinishSays
  <2>2. Done(Finish(typed)).kbd = Finish(typed).kbd
    BY <2>1, ModeIsQuiet DEF Done
  <2> QED BY <2>1, <2>2, FeedTwiceSays
<1>7. [InMode(typed, "LOADINGDISK") EXCEPT !.auto.attention = TRUE].kbd = typed.kbd
  BY <1>3, ModeIsQuiet DEF Pair
<1>8. InMode(typed, "WAITSEARCHINGFOR").kbd = typed.kbd
  BY <1>3, ModeIsQuiet
<1> QED BY <1>1, <1>5, <1>6, <1>7, <1>8

LEMMA AdvancedSays ==
  ASSUME NEW s, Pair(s), s.kbd \in Good, settings \in Settings
  PROVE  Says(s.kbd, Advanced(s).kbd)
<1> DEFINE m == s.auto.autostartmode
<1>0. Says(s.kbd, s.kbd) /\ Says(s.kbd, GivesUp(s).kbd)
  BY SaysNothing, GivesUpIsQuiet DEF Good
<1>1. CASE m = "HASTAPE"
  <2> DEFINE t == Types(s, LOAD, FALSE)
             y == [InMode(t, "PRESSPLAYONTAPE") EXCEPT !.auto.entered_rom = FALSE]
  <2>1. Pair(t) /\ t.kbd = Feed(s.kbd, LOAD, FALSE)
    BY DEF Pair, Types
  <2>2. Advanced(s) = Answer(s, "READY.", y, GivesUp(s), s)
    BY <1>1 DEF Advanced
  <2> HIDE DEF t
  <2>3. y.kbd = t.kbd
    BY <2>1, ModeIsQuiet DEF Pair
  <2>4. Says(s.kbd, y.kbd)
    BY <2>1, <2>3, FeedSays
  <2> HIDE DEF y
  <2>5. Advanced(s) \in {y, GivesUp(s), s}
    BY <2>2, AnswerIs
  <2> QED BY <1>0, <2>4, <2>5
<1>2. CASE m = "PRESSPLAYONTAPE"
  <2> DEFINE y == [InMode(s, "LOADINGTAPE") EXCEPT !.auto.play = TRUE]
             text == "PRESS PLAY ON TAPE"
  <2>1. Advanced(s) = Answer(s, text, y, GivesUp(s), s)
    BY <1>2 DEF Advanced
  <2>2. y.kbd = s.kbd
    BY ModeIsQuiet DEF Pair
  <2> HIDE DEF y, text
  <2>3. Advanced(s) \in {y, GivesUp(s), s}
    BY <2>1, AnswerIs
  <2> QED BY <1>0, <2>2, <2>3
<1>3. CASE m \in {"LOADINGTAPE", "WAITLOADREADY"}
  <2>1. Advanced(s) = Answer(s, "READY.", Leaves(s), GivesUp(s), CheckRomArea(s))
    BY <1>3 DEF Advanced
  <2>2. Says(s.kbd, Leaves(s).kbd)
    <3> DEFINE d == DisableWarp(s)
    <3>1. Pair(d) /\ d.kbd = s.kbd
      BY WarpIsQuiet
    <3> HIDE DEF d
    <3>2. /\ Pair(Finish(d)) /\ settings.random \in BOOLEAN
          /\ Finish(d).kbd = Feed(s.kbd, RUN, settings.random)
      BY <3>1, FinishSays
    <3>3. Done(Finish(d)).kbd = Finish(d).kbd
      BY <3>2, ModeIsQuiet DEF Done
    <3> QED BY <3>2, <3>3, FeedSays DEF Leaves, d
  <2>3. Says(s.kbd, CheckRomArea(s).kbd)
    BY <1>0, CheckRomAreaIsQuiet
  <2>4. Advanced(s) \in {Leaves(s), GivesUp(s), CheckRomArea(s)}
    BY <2>1, AnswerIs
  <2> QED BY <1>0, <2>2, <2>3, <2>4
<1>4. CASE m = "HASDISK"
  <2> DEFINE t == [s EXCEPT !.auto.orig_tde = s.auto.tde]
  <2>1. Advanced(s) = Answer(s, "READY.", LoadsDisk(s), GivesUp(t), s)
    BY <1>4 DEF Advanced
  <2>2. Pair(t) /\ t.kbd = s.kbd
    BY DEF Pair
  <2> HIDE DEF t
  <2>3. GivesUp(t).kbd = s.kbd
    BY <2>2, GivesUpIsQuiet
  <2>4. Advanced(s) \in {LoadsDisk(s), GivesUp(t), s}
    BY <2>1, AnswerIs
  <2> QED BY <1>0, <2>3, <2>4, LoadsDiskSays
<1>5. CASE m = "HASSNAPSHOT"
  <2> DEFINE y == [Done(s) EXCEPT !.auto.trap = TRUE]
  <2>1. Advanced(s) = Answer(s, "READY.", y, InMode(s, "ERROR"), s)
    BY <1>5 DEF Advanced
  <2>2. y.kbd = s.kbd /\ InMode(s, "ERROR").kbd = s.kbd
    BY ModeIsQuiet DEF Done, Pair
  <2> HIDE DEF y
  <2>3. Advanced(s) \in {y, InMode(s, "ERROR"), s}
    BY <2>1, AnswerIs
  <2> QED BY <1>0, <2>2, <2>3
<1>6. CASE m = "WAITSEARCHINGFOR"
  <2> DEFINE text == "SEARCHING FOR"
  <2>1. Advanced(s) = Answer(s, text, InMode(s, "WAITLOADING"), GivesUp(s), s)
    BY <1>6 DEF Advanced
  <2> HIDE DEF text
  <2>2. Advanced(s) \in {InMode(s, "WAITLOADING"), GivesUp(s), s}
    BY <2>1, AnswerIs
  <2>3. InMode(s, "WAITLOADING").kbd = s.kbd
    BY ModeIsQuiet
  <2> QED BY <1>0, <2>2, <2>3
<1>7. CASE m = "WAITLOADING"
  <2> DEFINE y == [InMode(s, "WAITLOADREADY") EXCEPT !.auto.entered_rom = FALSE]
             n == IF Check(s, "SEARCHING FOR") = "YES" THEN s ELSE GivesUp(s)
  <2>1. Advanced(s) = Answer(s, "LOADING", y, n, s)
    BY <1>7 DEF Advanced
  <2>2. y.kbd = s.kbd
    BY ModeIsQuiet DEF Pair
  <2>3. n \in {s, GivesUp(s)}
    OBVIOUS
  <2> HIDE DEF y, n
  <2>4. Advanced(s) \in {y, n, s}
    BY <2>1, AnswerIs
  <2> QED BY <1>0, <2>2, <2>3, <2>4
<1>8. CASE m \notin {"HASTAPE", "PRESSPLAYONTAPE", "LOADINGTAPE", "WAITLOADREADY",
                     "HASDISK", "HASSNAPSHOT", "WAITSEARCHINGFOR", "WAITLOADING"}
  BY <1>0, <1>8 DEF Advanced
<1> QED BY <1>1, <1>2, <1>3, <1>4, <1>5, <1>6, <1>7, <1>8

LEMMA AdvanceSays ==
  ASSUME NEW s \in Fine, settings \in Settings
  PROVE  Says(s.kbd, Advance(s).kbd)
<1>1. Pair(s) /\ s.kbd \in Good /\ s.kbd \in KbdState
  BY DEF Fine, Sound, Pair, Good
<1>2. Advanced(s) \in Fine
  BY AdvancedIsFine
<1>3. Restored(s, Advanced(s)).kbd = Advanced(s).kbd
  BY <1>2 DEF Restored, Fine, Sound
<1>4. [s EXCEPT !.auto.wait_for_reset = FALSE].kbd = s.kbd
  BY <1>1 DEF Pair
<1> QED BY <1>1, <1>3, <1>4, AdvancedSays, SaysNothing DEF Advance

(* A boot that a reset ends types nothing any more.                        *)
LEMMA ResetSaysNothing ==
  ASSUME NEW s \in Fine, settings \in Settings
  PROVE  AutostartReset(s).kbd = s.kbd
<1> DEFINE off   == InMode(s, "NONE")
           ended == IF s.auto.autostartmode = "DONE" THEN off
                    ELSE InMode(DiskEof(off), "NONE")
<1>1. s \in Sound /\ Pair(s)
  BY DEF Fine, Sound, Pair
<1>2. off.kbd = s.kbd /\ Pair(off)
  BY <1>1, ModeIsQuiet
<1>3. off.kbd \in Good /\ off.auto \in AutoState /\ off.auto.autostartmode = "NONE"
  <2>1. s.auto \in AutoState /\ s.kbd \in Good
    BY <1>1 DEF Sound
  <2>2. off.auto = [s.auto EXCEPT !.autostartmode = "NONE"]
    BY <1>1 DEF InMode, Sound
  <2> HIDE DEF off
  <2> QED BY <1>2, <2>1, <2>2 DEF AutoState, Modes
<1> HIDE DEF off
<1>4. DiskEof(off).kbd = s.kbd /\ Pair(DiskEof(off))
  BY <1>2, <1>3, DiskEofSays
<1>5. ended.kbd = s.kbd /\ Pair(ended)
  BY <1>2, <1>4, ModeIsQuiet
<1>6. AutostartReset(s)
        = [(IF s.auto.ignore_reset \/ s.auto.autostartmode \in {"NONE", "ERROR"}
            THEN s ELSE ended) EXCEPT !.auto.ignore_reset = FALSE]
  BY DEF AutostartReset, off
<1> HIDE DEF ended
<1> QED BY <1>1, <1>5, <1>6 DEF Pair

LEMMA SaysIsFeed ==
  ASSUME Says(kbd, kbd')
  PROVE  [Typed!Next]_(Typed!vars)
BY LinesAreTexts, TypesIsFeed DEF Says, Typed!Next

(* Text that autostart and the user feed while boots begin, end, fail and  *)
(* are reset arrives in its order, every character once: what autostart    *)
(* does to the keyboard buffer in a step is what TypedText allows.         *)
THEOREM AutostartTypesTheText == AutostartSpec => TypesTheText
<1>1. AutostartInit => Typed!Init
  BY DEF AutostartInit, Idle, Typed!Init
<1>2. AutoInv /\ [AutostartNext]_vars => [Typed!Next]_(Typed!vars)
  <2> SUFFICES ASSUME AutoInv, [AutostartNext]_vars
               PROVE  [Typed!Next]_(Typed!vars)
    OBVIOUS
  <2>0. /\ Now \in Fine /\ Now = [kbd |-> kbd, auto |-> auto] /\ Pair(Now)
        /\ kbd \in Good /\ kbd \in KbdState /\ auto \in AutoState
        /\ settings \in Settings
    BY DEF AutoInv, Fine, Sound, Now, Good, Pair
  <2>1. CASE Vsync
    <3> DEFINE k == Flush(Passed(kbd))
               r == IF auto.reset = "asked" THEN "due" ELSE auto.reset
               a == [auto EXCEPT !.reset = r]
               s == [kbd |-> k, auto |-> a]
    <3>1. kbd' = Advance(s).kbd
      BY <2>1 DEF Vsync, Become, EndOfFrame
    <3>2. Passed(kbd) \in Good /\ Passed(kbd) \in KbdState /\ k \in Good /\ k \in KbdState
      BY <2>0, <2>1, PassedIsGood, FlushIsGood DEF Vsync, Good
    <3>3. Passed(kbd).queue = kbd.queue \o <<>> /\ Passed(kbd).buffer = kbd.buffer
      BY <2>0, ConcatEmptySeq DEF Passed, KbdState
    <3>4. Typing(kbd, k, <<>>)
      BY <2>0, <3>2, <3>3, FlushTypes, EmptySeq
    <3>5. r \in {"none", "asked", "due"}
      BY <2>0 DEF AutoState
    <3> HIDE DEF k, r
    <3>6. s \in Fine
      <4>1. /\ a \in AutoState
            /\ a.warp = auto.warp /\ a.orig_warp = auto.orig_warp /\ a.tde = auto.tde
            /\ a.orig_tde = auto.orig_tde /\ a.autostartmode = auto.autostartmode
        BY <2>0, <3>5 DEF AutoState
      <4> HIDE DEF a
      <4> QED BY <2>0, <3>2, <4>1, SameIsFine
    <3>7. s.kbd = k
      OBVIOUS
    <3> HIDE DEF s
    <3>8. Says(k, kbd') /\ kbd' \in KbdState
      <4>1. Advance(s) \in Fine
        BY <2>0, <3>6, AdvanceIsFine
      <4> QED BY <2>0, <3>1, <3>6, <3>7, <4>1, AdvanceSays DEF Fine, Sound, Good
    <3> QED BY <2>0, <3>2, <3>4, <3>8, FrameThenSays, SaysIsFeed
  <2>2. CASE TypesReturn
    <3>1. Typing(kbd, kbd', <<>>)
      BY <2>0, <2>2, AlarmTypes DEF TypesReturn, FlushAlarm
    <3> QED BY <3>1, TypesIsFeed DEF Typed!Next
  <2>3. CASE MachineReset
    <3> DEFINE k == [Restarted(kbd) EXCEPT !.buffer = <<>>]
               a == [auto EXCEPT !.reset = "none", !.trap = FALSE]
               s == [kbd |-> k, auto |-> a]
    <3>1. kbd' = AutostartReset(s).kbd
      BY <2>3 DEF MachineReset, Become
    <3>2. k \in Good
      BY <2>0, RestartedIsGood, ContentsAreGood
    <3>3. k.queue = kbd.queue /\ k.buffer = <<>>
      BY <2>0 DEF Restarted, KbdState
    <3> HIDE DEF k
    <3>4. s \in Fine
      <4>1. /\ a \in AutoState
            /\ a.warp = auto.warp /\ a.orig_warp = auto.orig_warp /\ a.tde = auto.tde
            /\ a.orig_tde = auto.orig_tde /\ a.autostartmode = auto.autostartmode
        BY <2>0 DEF AutoState
      <4> HIDE DEF a
      <4> QED BY <2>0, <3>2, <4>1, SameIsFine
    <3>5. s.kbd = k
      OBVIOUS
    <3> HIDE DEF s
    <3>6. kbd' = k
      BY <2>0, <3>1, <3>4, <3>5, ResetSaysNothing
    <3> QED BY <3>3, <3>6, AutostartAssumption DEF Typed!Next, Typed!Clear
  <2>4. CASE Machine
    <3>1. CASE ReadKey
      BY <2>0, <3>1 DEF ReadKey, TakeKey, Typed!Next, Typed!Take, KbdState
    <3>2. CASE ReceiveEof
      <4>1. Says(kbd, kbd')
        BY <2>0, <3>2, DiskEofSays, SaysNothing DEF ReceiveEof, Become
      <4> QED BY <4>1, SaysIsFeed
    <3>3. CASE UNCHANGED kbd
      BY <3>3 DEF Typed!vars
    <3> QED BY <2>4, <3>1, <3>2, <3>3 DEF Machine, Start, GoOn, Attention, LoadSnapshot
  <2>5. CASE UserTypes
    BY <2>0, <2>5 DEF UserTypes, PressKey, Typed!Next, Typed!Key, KbdState
  <2>6. CASE Boot
    BY <2>0, <2>6 DEF Boot, Typed!Next, Typed!Clear, KbdState
  <2>7. CASE UserLoads \/ UserResets \/ UserChanges \/ BootFails \/ UNCHANGED vars
    BY <2>7 DEF UserLoads, UserResets, UserChanges, BootFails, vars, Typed!vars
  <2> QED BY <2>1, <2>2, <2>3, <2>4, <2>5, <2>6, <2>7 DEF AutostartNext
<1> QED BY <1>1, <1>2, AutoStaysFine, PTL DEF AutostartSpec, TypesTheText, Typed!Spec
=============================================================================
