------------------------------- MODULE KbdBuf -------------------------------
(***************************************************************************)
(* Text typed on behalf of the user (kbdbuf.c): a queue, moved into the    *)
(* keyboard buffer of the KERNAL once a frame when that is empty, and the  *)
(* alarm that delays a RETURN for one to two frames.  Time is counted in   *)
(* frames.  The ring queue[], head_idx, num_pending is a sequence here;    *)
(* resources, the command line and the translation to PETSCII are left     *)
(* out.                                                                    *)
(***************************************************************************)
EXTENDS Naturals, Sequences

CONSTANTS
  Chars,        \* the characters of the texts
  Return,       \* character 13
  Texts,        \* what is fed into the queue
  Keys,         \* what the user may type himself
  Contents,     \* what a reset may leave in the keyboard buffer
  QUEUE_SIZE,
  BufferSize,   \* buffer_size, that of the KERNAL's buffer
  InitFrames,   \* kernal_init_cycles
  LastFrame     \* bound: later frames are not told apart

ASSUME KbdBufAssumption ==
  /\ Return \in Chars
  /\ Texts \subseteq Seq(Chars)
  /\ Keys \intersect Chars = {}
  /\ Contents \subseteq Seq(Keys)
  /\ \A b \in Contents : Len(b) <= BufferSize
  /\ QUEUE_SIZE \in Nat /\ BufferSize \in Nat \ {0}
  /\ InitFrames \in Nat /\ LastFrame \in Nat

VARIABLE kbd    \* [queue, use_alarm, alarm, waited, buffer, frame]

Idle == [queue     |-> <<>>,     \* the characters still to be typed
         use_alarm |-> FALSE,    \* use_kbdbuf_flush_alarm
         alarm     |-> "unset",  \* kbdbuf_flush_alarm; "late" when the clock
                                 \* has been reset since it was set
         waited    |-> 0,        \* frames since then
         buffer    |-> <<>>,     \* the KERNAL's: memory of the machine
         frame     |-> 0]        \* maincpu_clk

-----------------------------------------------------------------------------
MayFlushIntoRest(k) == /\ k.queue # <<>>
                       /\ k.frame >= InitFrames
                       /\ k.alarm = "unset"
MayFlushBeforeAlarm(k) == /\ k.queue # <<>>
                          /\ k.buffer = <<>>
                          /\ k.frame >= InitFrames
MayFlush(k) == /\ k.queue # <<>>
               /\ k.buffer = <<>>
               /\ k.frame >= InitFrames
               /\ k.alarm = "unset"

Burst(k) == IF Len(k.queue) > BufferSize THEN BufferSize ELSE Len(k.queue)

\* The RETURN at which the loop of kbdbuf_flush stops, if there is one.
Delayed(k) == {i \in 1..Burst(k) : k.use_alarm /\ k.queue[i] = Return}
First(S) == CHOOSE i \in S : \A j \in S : i <= j

Flush(k) ==
  LET n == IF Delayed(k) = {} THEN Burst(k) ELSE First(Delayed(k)) - 1
  IN  IF MayFlush(k)
      THEN [k EXCEPT !.queue  = SubSeq(@, n + 1, Len(@)),
                     !.buffer = @ \o SubSeq(k.queue, 1, n),
                     !.alarm  = IF Delayed(k) = {} THEN @ ELSE "set",
                     !.waited = IF Delayed(k) = {} THEN @ ELSE 0]
      ELSE k

\* kbdbuf_feed, and kbdbuf_feed_runcmd when delayed; the flag is set even if
\* there is no room for the text.
Feed(k, text, delayed) ==
  LET j == [k EXCEPT !.use_alarm = delayed]
  IN  IF Len(k.queue) + Len(text) > QUEUE_SIZE
      THEN j
      ELSE Flush([j EXCEPT !.queue = @ \o text])

AlarmIsDue(k) == \/ k.alarm = "late"
                 \/ k.alarm = "set" /\ k.waited >= 1

AlarmTriggeredKeepsReturn(k) == [k EXCEPT !.alarm  = "unset",
                                          !.waited = 0,
                                          !.buffer = Append(@, Return)]
AlarmTriggered(k) == [k EXCEPT !.alarm  = "unset",
                               !.waited = 0,
                               !.buffer = Append(@, Return),
                               !.queue  = Tail(@)]

\* A frame of the emulated machine.  The alarm comes before the third one.
MayPassAnyNumber(k) == k.alarm = "set" => k.waited < 3
MayPass(k) == k.alarm = "set" => k.waited < 2

Passed(k) == [k EXCEPT !.frame  = IF @ < LastFrame THEN @ + 1 ELSE @,
                       !.waited = IF k.alarm = "set" THEN @ + 1 ELSE @]

\* A reset sets maincpu_clk back and leaves queue and alarm as they are.
Restarted(k) == [k EXCEPT !.frame  = 0,
                          !.waited = 0,
                          !.alarm  = IF @ = "unset" THEN @ ELSE "late"]

-----------------------------------------------------------------------------
Init == kbd = Idle

FeedString   == \E t \in Texts, d \in BOOLEAN : kbd' = Feed(kbd, t, d)
KbdbufFlush  == MayPass(kbd) /\ kbd' = Flush(Passed(kbd))
FlushAlarm   == AlarmIsDue(kbd) /\ kbd' = AlarmTriggered(kbd)

\* The emulated machine: its keyboard scan drops a key when there is no room.
TakeKey == kbd.buffer # <<>> /\ kbd' = [kbd EXCEPT !.buffer = Tail(@)]
PressKey == /\ Len(kbd.buffer) < BufferSize
            /\ \E c \in Keys : kbd' = [kbd EXCEPT !.buffer = Append(@, c)]
Reset == \E b \in Contents : kbd' = [Restarted(kbd) EXCEPT !.buffer = b]

Next == \/ FeedString \/ KbdbufFlush \/ FlushAlarm
        \/ TakeKey \/ PressKey \/ Reset

Spec == Init /\ [][Next]_kbd

-----------------------------------------------------------------------------
KbdState == [queue : Seq(Chars), use_alarm : BOOLEAN,
             alarm : {"unset", "set", "late"}, waited : 0..2,
             buffer : Seq(Chars \union Keys), frame : 0..LastFrame]
KbdTypeOK == kbd \in KbdState

(* kbdbuf_flush_alarm_triggered types a RETURN and removes the first       *)
(* character of the queue: it has to be that RETURN, whatever has been fed *)
(* or reset since the alarm was set.                                       *)
ReturnIsNext == kbd.alarm # "unset" => kbd.queue # <<>> /\ Head(kbd.queue) = Return

(* What the emulator types fits into the keyboard buffer of the KERNAL; it *)
(* is overrun by one character at the most, the RETURN of the alarm, and   *)
(* only when the user has typed meanwhile (kbdbuf.c:270).                  *)
OwnKeys == {i \in 1..Len(kbd.buffer) : kbd.buffer[i] \in Keys}
TypingFits == /\ Len(kbd.buffer) <= BufferSize + 1
              /\ Len(kbd.buffer) > BufferSize => OwnKeys # {}

(* Nothing that is fed is lost, typed twice or typed out of order          *)
(* (kbdbuf_flush, kbdbuf_flush_alarm_triggered, removefromqueue).          *)
Typed == INSTANCE TypedText WITH waiting <- kbd.queue, buffer <- kbd.buffer
TypesTheText == Typed!Spec
=============================================================================
