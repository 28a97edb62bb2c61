----------------------------- MODULE AlarmQueue -----------------------------
(***************************************************************************)
(* What an alarm context promises to the devices that use it, without its  *)
(* array: a clock tick for every pending alarm.  A device sets, moves and  *)
(* unsets its own alarm; the CPU calls an alarm whose tick is the earliest *)
(* of all the pending ones and tells it how late it is.                    *)
(***************************************************************************)
EXTENDS Integers

CONSTANTS
  Alarms,      \* the alarms the devices of the machine create
  NoAlarm,     \* the value of called before the first dispatch
  MaxPending,  \* how many alarms may be pending at once
  ClockMax     \* the largest value of a clock

Clock   == 0..ClockMax
NoClock == -1

VARIABLES
  due,     \* due[a]: the tick alarm a is set to, NoClock if it is not pending
  called   \* the last dispatch: the alarm called and its offset

vars == <<due, called>>

Pending == {a \in Alarms : due[a] # NoClock}

Init == /\ due = [a \in Alarms |-> NoClock]
        /\ called = [alarm |-> NoAlarm, offset |-> 0]

(* As many alarms may be pending as there are seats to give one to each.   *)
RoomFor(S) == \E seat \in [S -> 1..MaxPending] :
                \A a, b \in S : seat[a] = seat[b] => a = b

(* An alarm that is not pending needs room; one that is pending is moved.  *)
Set(a, clk) == /\ a \in Pending \/ RoomFor(Pending \cup {a})
               /\ due' = [due EXCEPT ![a] = clk]
               /\ UNCHANGED called

Unset(a) == /\ due' = [due EXCEPT ![a] = NoClock]
            /\ UNCHANGED called

(* All ticks move together, so that the order of the alarms is kept.       *)
TimeWarp(amount) ==
  /\ \A a \in Pending : due[a] + amount \in Clock
  /\ due' = [a \in Alarms |-> IF a \in Pending THEN due[a] + amount
                                               ELSE NoClock]
  /\ UNCHANGED called

(* The CPU is at tick now: an earliest alarm, that is not early, is called. *)
Dispatch(now) ==
  \E a \in Pending :
    /\ now >= due[a]
    /\ \A b \in Pending : due[a] <= due[b]
    /\ called' = [alarm |-> a, offset |-> now - due[a]]
    /\ UNCHANGED due

Next == \/ \E a \in Alarms : Unset(a) \/ \E clk \in Clock : Set(a, clk)
        \/ \E amount \in -ClockMax..ClockMax : TimeWarp(amount)
        \/ \E now \in Clock : Dispatch(now)

Spec == Init /\ [][Next]_vars
=============================================================================
