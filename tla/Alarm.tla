-------------------------------- MODULE Alarm --------------------------------
(***************************************************************************)
(* One alarm context of the emulator (alarm.c, alarm.h).  The devices of a *)
(* machine or of a drive create alarms in the context of their CPU and set *)
(* them to clock ticks; the CPU compares its clock with the cached tick of *)
(* the next pending alarm before every instruction and calls it.           *)
(*                                                                         *)
(* pending_alarms[0 .. num_pending_alarms - 1] is an unsorted array.  It   *)
(* is split here into slot_alarm and slot_clk; entries beyond num_pending  *)
(* keep their old contents, as they do in the code.                        *)
(*                                                                         *)
(* Definitions named ...Forgotten, ...OffByOne and the like are not used:  *)
(* they are plausible mistakes that a property of the runs has to reject.  *)
(***************************************************************************)
EXTENDS Integers

CONSTANTS
  Alarms,      \* the alarm_t structures that may exist
  NoAlarm,     \* contents of a slot never written
  MaxPending,  \* ALARM_CONTEXT_MAX_PENDING_ALARMS
  ClockMax     \* (CLOCK) ~0L

ASSUME AlarmAssumption == /\ NoAlarm \notin Alarms
                          /\ MaxPending \in Nat \ {0}
                          /\ ClockMax \in Nat \ {0}

Clock == 0..ClockMax
Slots == 0..(MaxPending - 1)
None  == -1

VARIABLES
  alarms,       \* context->alarms: the alarms that exist
  slot_alarm,   \* pending_alarms[i].alarm
  slot_clk,     \* pending_alarms[i].clk
  num_pending,  \* num_pending_alarms
  next_clk,     \* next_pending_alarm_clk
  next_idx,     \* next_pending_alarm_idx
  pending_idx,  \* alarm->pending_idx of every alarm
  called        \* the last call of alarm_context_dispatch and its offset

array == <<slot_alarm, slot_clk, num_pending>>
next  == <<next_clk, next_idx>>
vars  == <<alarms, slot_alarm, slot_clk, num_pending, next_clk, next_idx,
           pending_idx, called>>

(* CLOCK is unsigned: one addition or subtraction wraps at most once.      *)
Wrap(n) == IF n > ClockMax THEN n - (ClockMax + 1)
           ELSE IF n < 0 THEN n + (ClockMax + 1)
           ELSE n

-----------------------------------------------------------------------------
(* alarm_context_init leaves next_pending_alarm_idx as malloc found it.    *)
Init == /\ alarms = {}
        /\ slot_alarm = [s \in Slots |-> NoAlarm]
        /\ slot_clk = [s \in Slots |-> 0]
        /\ num_pending = 0
        /\ next_clk = ClockMax
        /\ next_idx \in Slots \cup {None}
        /\ pending_idx = [a \in Alarms |-> None]
        /\ called = [alarm |-> NoAlarm, offset |-> 0]

(* alarm_context_update_next_pending on the first n entries of clks: the   *)
(* scan keeps the last one of the entries with the smallest tick.          *)
IsLastMin(clks, n, i) ==
  \A j \in 0..(n - 1) : \/ clks[i] < clks[j]
                        \/ clks[i] = clks[j] /\ j <= i

UpdateNextPending(clks, n) ==
  \E i \in 0..(n - 1) : /\ IsLastMin(clks, n, i)
                        /\ next_clk' = clks[i]
                        /\ next_idx' = i

AlarmNew(a) ==
  /\ a \notin alarms
  /\ alarms' = alarms \cup {a}
  /\ pending_idx' = [pending_idx EXCEPT ![a] = None]
  /\ UNCHANGED <<array, next, called>>

(* alarm_set, the alarm is not pending.                                    *)
HasRoomOffByOne(n) == n <= MaxPending
HasRoom(n) == n < MaxPending

AddPending(a, clk) ==
  /\ pending_idx[a] = None
  /\ HasRoom(num_pending)
  /\ slot_alarm' = [slot_alarm EXCEPT ![num_pending] = a]
  /\ slot_clk' = [slot_clk EXCEPT ![num_pending] = clk]
  /\ num_pending' = num_pending + 1
  /\ pending_idx' = [pending_idx EXCEPT ![a] = num_pending]
  /\ \/ /\ clk < next_clk
        /\ next_clk' = clk
        /\ next_idx' = num_pending
     \/ /\ clk >= next_clk
        /\ UNCHANGED next

(* alarm_set, no room: the request is logged and dropped.                  *)
DropRequest(a) ==
  /\ pending_idx[a] = None
  /\ ~HasRoom(num_pending)
  /\ UNCHANGED <<array, next, pending_idx>>

(* alarm_set, the alarm is pending: the cached next alarm is recomputed    *)
(* when this one becomes earlier than it, or was it.                       *)
NextAffectedWhenEarlier(idx, clk) == next_clk > clk
NextAffected(idx, clk) == next_clk > clk \/ idx = next_idx

ModifyPending(a, clk) ==
  LET idx  == pending_idx[a]
      clks == [slot_clk EXCEPT ![idx] = clk]
  IN  /\ idx # None
      /\ slot_clk' = clks
      /\ IF NextAffected(idx, clk) THEN UpdateNextPending(clks, num_pending)
                                   ELSE UNCHANGED next
      /\ UNCHANGED <<slot_alarm, num_pending, pending_idx>>

AlarmSet(a, clk) ==
  /\ a \in alarms
  /\ AddPending(a, clk) \/ DropRequest(a) \/ ModifyPending(a, clk)
  /\ UNCHANGED <<alarms, called>>

(* alarm_unset: the last entry moves into the slot of the alarm.           *)
FollowMovedForgotten(idx, last) == next_idx
FollowMoved(idx, last) == IF next_idx = last THEN idx ELSE next_idx

IndexAfterMoveForgotten(a, idx, last) == [pending_idx EXCEPT ![a] = None]
IndexAfterMove(a, idx, last) ==
  [pending_idx EXCEPT ![slot_alarm[last]] = idx, ![a] = None]

RemovePending(a) ==
  LET idx  == pending_idx[a]
      last == num_pending - 1
      clks == [slot_clk EXCEPT ![idx] = slot_clk[last]]
  IN  /\ idx # None
      /\ num_pending > 1
      /\ num_pending' = last
      /\ slot_alarm' = [slot_alarm EXCEPT ![idx] = slot_alarm[last]]
      /\ slot_clk' = clks
      /\ pending_idx' = IndexAfterMove(a, idx, last)
      /\ IF next_idx = idx
           THEN UpdateNextPending(clks, last)
           ELSE /\ next_idx' = FollowMoved(idx, last)
                /\ UNCHANGED next_clk

RemoveLast(a) ==
  /\ pending_idx[a] # None
  /\ num_pending <= 1
  /\ num_pending' = 0
  /\ next_clk' = ClockMax
  /\ next_idx' = None
  /\ pending_idx' = [pending_idx EXCEPT ![a] = None]
  /\ UNCHANGED <<slot_alarm, slot_clk>>

NothingToRemove(a) ==
  /\ pending_idx[a] = None
  /\ UNCHANGED <<array, next, pending_idx>>

Unset(a) == RemovePending(a) \/ RemoveLast(a) \/ NothingToRemove(a)

AlarmUnset(a) == /\ a \in alarms
                 /\ Unset(a)
                 /\ UNCHANGED <<alarms, called>>

AlarmDestroy(a) == /\ a \in alarms
                   /\ Unset(a)
                   /\ alarms' = alarms \ {a}
                   /\ UNCHANGED called

(* alarm_context_time_warp, the direction being the sign of amount.  The   *)
(* cached tick moves with the others whether or not an alarm is pending.   *)
TimeWarp(amount) ==
  /\ slot_clk' = [s \in Slots |-> IF s < num_pending
                                    THEN Wrap(slot_clk[s] + amount)
                                    ELSE slot_clk[s]]
  /\ next_clk' = Wrap(next_clk + amount)
  /\ UNCHANGED <<alarms, slot_alarm, num_pending, next_idx, pending_idx,
                 called>>

(* alarm_context_dispatch: an index outside the array yields no alarm that *)
(* the context knows.                                                      *)
AlarmAt(idx) == IF idx \in 0..(num_pending - 1) THEN slot_alarm[idx]
                                                ELSE NoAlarm

Dispatch(now) ==
  /\ now >= next_clk
  /\ called' = [alarm |-> AlarmAt(next_idx), offset |-> Wrap(now - next_clk)]
  /\ UNCHANGED <<alarms, array, next, pending_idx>>

-----------------------------------------------------------------------------
(* How the callers use the context.  A CPU is kept below the end of the    *)
(* clock's range by its overflow guard (module CpuClock), and warps its    *)
(* context only by an amount that no pending alarm lies before.            *)
WarpAllowed(amount) ==
  /\ next_clk < ClockMax
  /\ next_clk + amount >= 0
  /\ \A s \in 0..(num_pending - 1) : slot_clk[s] + amount <= ClockMax

Next == \/ \E a \in Alarms : \/ AlarmNew(a)
                             \/ AlarmDestroy(a)
                             \/ AlarmUnset(a)
                             \/ \E clk \in Clock : AlarmSet(a, clk)
        \/ \E amount \in -ClockMax..ClockMax : WarpAllowed(amount)
                                               /\ TimeWarp(amount)
        \/ \E now \in 0..(ClockMax - 1) : Dispatch(now)

Spec == Init /\ [][Next]_vars

-----------------------------------------------------------------------------
TypeOK == /\ alarms \subseteq Alarms
          /\ slot_alarm \in [Slots -> Alarms \cup {NoAlarm}]
          /\ slot_clk \in [Slots -> Clock]
          /\ num_pending \in 0..MaxPending
          /\ next_clk \in Clock
          /\ next_idx \in Slots \cup {None}
          /\ pending_idx \in [Alarms -> Slots \cup {None}]
          /\ called \in [alarm : Alarms \cup {NoAlarm}, offset : Clock]

Used == 0..(num_pending - 1)

(* The array and the back links of the alarms agree: an alarm that says it *)
(* is pending at i is the one in slot i, every used slot holds an alarm    *)
(* that exists and points back to it.  Moving the last entry into the hole *)
(* of alarm_unset is what could break this.                                *)
BackLinksMatch ==
  /\ \A s \in Used : slot_alarm[s] \in alarms /\ pending_idx[slot_alarm[s]] = s
  /\ \A a \in Alarms : pending_idx[a] # None =>
       pending_idx[a] \in Used /\ slot_alarm[pending_idx[a]] = a

(* The cached tick, the only thing the CPU looks at, is the tick of an     *)
(* earliest pending alarm, and the cached index is that of such an alarm.  *)
(* An alarm set to the largest tick does not displace the empty cache.     *)
NextIsEarliest ==
  /\ \A s \in Used : next_clk <= slot_clk[s]
  /\ next_clk < ClockMax => next_idx \in Used /\ slot_clk[next_idx] = next_clk

Inv == TypeOK /\ BackLinksMatch /\ NextIsEarliest

(* The context implements the queue of module AlarmQueue: no sequence of   *)
(* sets, unsets, destructions and warps loses an alarm, calls one that is  *)
(* not pending, or calls one while another is due before it.               *)
due == [a \in Alarms |-> IF pending_idx[a] = None
                           THEN None ELSE slot_clk[pending_idx[a]]]

Queue == INSTANCE AlarmQueue

ImplementsQueue == Queue!Spec
=============================================================================
