----------------------------- MODULE IdealClock -----------------------------
(***************************************************************************)
(* A CPU and its alarms on a clock that has no last tick: what the 32-bit  *)
(* clock of the emulator, kept in range by the overflow guard, stands for. *)
(***************************************************************************)
EXTENDS Integers

CONSTANTS Alarms, NoAlarm

VARIABLES
  now,     \* cycles since the machine was switched on
  due,     \* the cycle an alarm is set to, NotSet if it is not pending
  called   \* the last alarm called, and how late it was

vars == <<now, due, called>>

NotSet == -1
Pending == {a \in Alarms : due[a] # NotSet}

Init == /\ now = 0
        /\ due \in [Alarms -> Nat \cup {NotSet}]
        /\ called = [alarm |-> NoAlarm, offset |-> 0]

(* An instruction starts only when no alarm is due.                        *)
Advance == /\ \A a \in Pending : now < due[a]
           /\ now' \in Nat /\ now' > now
           /\ UNCHANGED <<due, called>>

MoveTo(a, tick) == /\ tick \in Nat
                   /\ due' = [due EXCEPT ![a] = tick]
                   /\ UNCHANGED <<now, called>>

(* A device sets its alarm to the present or to the future.                *)
Set(a) == due'[a] >= now /\ MoveTo(a, due'[a])

(* The callback of an alarm may set it again counting from the tick it was *)
(* called for, not from the clock, so that lateness does not add up.       *)
Repeat(a) == /\ called.alarm = a
             /\ due'[a] > now - called.offset
             /\ MoveTo(a, due'[a])

Unset(a) == /\ due' = [due EXCEPT ![a] = NotSet]
            /\ UNCHANGED <<now, called>>

Call(a) == /\ a \in Pending
           /\ due[a] <= now
           /\ \A b \in Pending : due[a] <= due[b]
           /\ called' = [alarm |-> a, offset |-> now - due[a]]
           /\ UNCHANGED <<now, due>>

Next == \/ Advance
        \/ \E a \in Alarms : Set(a) \/ Repeat(a) \/ Unset(a) \/ Call(a)

Spec == Init /\ [][Next]_vars
=============================================================================
