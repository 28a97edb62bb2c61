---------------------------- MODULE CpuClockProofs ----------------------------
(***************************************************************************)
(* The alarm contexts, and the CPU clock that uses one.  The invariants of *)
(* Alarm hold for any number of alarms, any size of the array and any      *)
(* width of the clock.  For any frame length, instruction length, set of   *)
(* alarms and width of the clock that leave the guard its SubMin cycles,   *)
(* the 32-bit clock is never exhausted, and the CPU uses its context as    *)
(* the proofs about the context assume.                                    *)
(***************************************************************************)
EXTENDS CpuClock, TLAPS

-----------------------------------------------------------------------------
(* The alarm context by itself.                                            *)

(* One addition keeps a clock in range, and is exact when it does not wrap. *)
LEMMA WrapFacts ==
  ASSUME NEW n \in Int, -(ClockMax + 1) <= n, n <= 2 * ClockMax + 1
  PROVE  /\ Wrap(n) \in Clock
         /\ n \in Clock => Wrap(n) = n
BY AlarmAssumption DEF Wrap, Clock

(* The array, its length and the cached entry stay what their types say.   *)
LEMMA TypeStep == TypeOK /\ BackLinksMatch /\ [Next]_vars => TypeOK'
<1> SUFFICES ASSUME TypeOK, BackLinksMatch, [Next]_vars PROVE TypeOK'
  OBVIOUS
<1> USE AlarmAssumption DEF TypeOK, Slots, None, Used
<1>1. ASSUME NEW a \in Alarms, AlarmNew(a) PROVE TypeOK'
  BY <1>1 DEF AlarmNew, array, next
<1>2. ASSUME NEW a \in Alarms, NEW tick \in Clock, AlarmSet(a, tick) PROVE TypeOK'
  <2>1. CASE AddPending(a, tick)
    BY <1>2, <2>1 DEF AlarmSet, AddPending, HasRoom, next
  <2>2. CASE DropRequest(a)
    BY <1>2, <2>2 DEF AlarmSet, DropRequest, array, next
  <2>3. CASE ModifyPending(a, tick)
    <3> DEFINE clks == [slot_clk EXCEPT ![pending_idx[a]] = tick]
    <3>1. clks \in [Slots -> Clock]
      OBVIOUS
    <3>2. next_clk' \in Clock /\ next_idx' \in Slots \cup {None}
      <4>1. CASE UNCHANGED next
        BY <4>1 DEF next
      <4>2. CASE UpdateNextPending(clks, num_pending)
        BY <3>1, <4>2 DEF UpdateNextPending
      <4> QED BY <2>3, <4>1, <4>2 DEF ModifyPending
    <3> QED BY <1>2, <2>3, <3>1, <3>2 DEF AlarmSet, ModifyPending
  <2> QED BY <1>2, <2>1, <2>2, <2>3 DEF AlarmSet
<1>3. ASSUME NEW a \in Alarms, Unset(a),
             alarms' \subseteq alarms, UNCHANGED called
      PROVE  TypeOK'
  <2>1. CASE RemovePending(a)
    <3> DEFINE idx == pending_idx[a]
               last == num_pending - 1
               clks == [slot_clk EXCEPT ![idx] = slot_clk[last]]
    <3>1. idx \in Slots /\ last \in Slots /\ clks \in [Slots -> Clock]
      BY <2>1 DEF RemovePending
    <3>2. next_clk' \in Clock /\ next_idx' \in Slots \cup {None}
      <4>1. CASE UpdateNextPending(clks, last)
        BY <3>1, <4>1 DEF UpdateNextPending
      <4>2. CASE next_idx' = FollowMoved(idx, last) /\ UNCHANGED next_clk
        BY <3>1, <4>2 DEF FollowMoved
      <4> QED BY <2>1, <4>1, <4>2 DEF RemovePending
    <3>3. slot_alarm[last] \in Alarms
      BY <2>1 DEF RemovePending, BackLinksMatch
    <3>4. IndexAfterMove(a, idx, last) \in [Alarms -> Slots \cup {None}]
      <4> HIDE DEF idx, last
      <4> QED BY <3>1, <3>3 DEF IndexAfterMove
    <3>5. slot_alarm' \in [Slots -> Alarms \cup {NoAlarm}] /\ num_pending' \in 0..MaxPending
      BY <2>1, <3>1, <3>3 DEF RemovePending
    <3>6. slot_clk' = clks /\ pending_idx' = IndexAfterMove(a, idx, last)
      BY <2>1 DEF RemovePending
    <3> QED BY <1>3, <3>1, <3>2, <3>4, <3>5, <3>6
  <2>2. CASE RemoveLast(a)
    BY <1>3, <2>2 DEF RemoveLast, Clock
  <2>3. CASE NothingToRemove(a)
    BY <1>3, <2>3 DEF NothingToRemove, array, next
  <2> QED BY <1>3, <2>1, <2>2, <2>3 DEF Unset
<1>4. ASSUME NEW amount \in -ClockMax..ClockMax, TimeWarp(amount) PROVE TypeOK'
  <2>1. \A c \in Clock : Wrap(c + amount) \in Clock
    BY WrapFacts DEF Clock
  <2> QED BY <1>4, <2>1 DEF TimeWarp
<1>5. ASSUME NEW now \in 0..(ClockMax - 1), Dispatch(now) PROVE TypeOK'
  <2>1. Wrap(now - next_clk) \in Clock
    BY WrapFacts DEF Clock
  <2>2. AlarmAt(next_idx) \in Alarms \cup {NoAlarm}
    BY DEF AlarmAt
  <2> QED BY <1>5, <2>1, <2>2 DEF Dispatch, array, next
<1>6. CASE UNCHANGED vars
  BY <1>6 DEF vars
<1> QED BY <1>1, <1>2, <1>3, <1>4, <1>5, <1>6
        DEF Next, AlarmUnset, AlarmDestroy

(* An alarm leaves the array and the last one takes its slot: the links of *)
(* all the others stay inverse to the slots.                               *)
LEMMA LinksAfterRemoval ==
  ASSUME TypeOK, BackLinksMatch, NEW a \in Alarms, RemovePending(a),
         alarms \ {a} \subseteq alarms', alarms' \subseteq alarms
  PROVE  BackLinksMatch'
<1> DEFINE idx == pending_idx[a]
           last == num_pending - 1
           moved == slot_alarm[last]
<1> USE AlarmAssumption DEF None
<1>1. /\ idx \in 0..last /\ last \in Slots /\ last > 0
      /\ num_pending' = last
      /\ slot_alarm' = [slot_alarm EXCEPT ![idx] = moved]
      /\ pending_idx' = [pending_idx EXCEPT ![moved] = idx, ![a] = None]
  BY DEF TypeOK, BackLinksMatch, Used, RemovePending, IndexAfterMove, Slots
<1>2. moved \in alarms /\ pending_idx[moved] = last /\ moved \in Alarms
  BY <1>1 DEF TypeOK, BackLinksMatch, Used, Slots
<1>3. slot_alarm[idx] = a /\ (moved = a <=> idx = last)
  BY <1>1, <1>2 DEF TypeOK, BackLinksMatch, Used, Slots
<1>4. /\ pending_idx'[a] = None
      /\ moved # a => pending_idx'[moved] = idx
      /\ \A b \in Alarms \ {a, moved} : pending_idx'[b] = pending_idx[b]
  <2> HIDE DEF idx, last, moved
  <2> QED BY <1>1, <1>2 DEF TypeOK
<1>5. \A s \in 0..(last - 1) :
        slot_alarm'[s] = IF s = idx THEN moved ELSE slot_alarm[s]
  <2> HIDE DEF idx, last, moved
  <2> QED BY <1>1 DEF TypeOK, Slots
<1>6. /\ \A s \in 0..last : slot_alarm[s] \in alarms /\ pending_idx[slot_alarm[s]] = s
      /\ \A b \in Alarms : pending_idx[b] # None =>
           pending_idx[b] \in 0..last /\ slot_alarm[pending_idx[b]] = b
      /\ pending_idx[a] = idx /\ slot_alarm[last] = moved
      /\ alarms \subseteq Alarms /\ last \in Nat
  BY <1>1 DEF BackLinksMatch, Used, TypeOK, Slots
<1> HIDE DEF idx, last, moved
<1>7. ASSUME NEW s \in 0..(last - 1)
      PROVE  slot_alarm'[s] \in alarms' /\ pending_idx'[slot_alarm'[s]] = s
  <2>1. CASE s = idx
    BY <1>1, <1>2, <1>3, <1>4, <1>5, <2>1
  <2>2. CASE s # idx
    <3>1. slot_alarm[s] \in alarms /\ pending_idx[slot_alarm[s]] = s
      BY <1>6, <1>1
    <3>2. slot_alarm[s] \notin {a, moved}
      BY <1>1, <1>2, <1>6, <2>2, <3>1
    <3> QED BY <1>4, <1>5, <1>6, <2>2, <3>1, <3>2
  <2> QED BY <2>1, <2>2
<1>8. ASSUME NEW b \in Alarms, pending_idx'[b] # None
      PROVE  pending_idx'[b] \in 0..(last - 1) /\ slot_alarm'[pending_idx'[b]] = b
  <2>1. b # a
    BY <1>4, <1>8
  <2>2. CASE b = moved
    BY <1>1, <1>3, <1>4, <1>5, <1>6, <2>1, <2>2
  <2>3. CASE b # moved
    <3>1. pending_idx'[b] = pending_idx[b]
      BY <1>4, <2>1, <2>3
    <3>2. pending_idx[b] \in 0..last /\ slot_alarm[pending_idx[b]] = b
      BY <1>8, <1>6, <3>1
    <3>3. pending_idx[b] # idx /\ pending_idx[b] # last
      BY <1>3, <1>6, <2>1, <2>3, <3>2
    <3> QED BY <1>1, <1>5, <1>6, <3>1, <3>2, <3>3
  <2> QED BY <2>2, <2>3
<1> QED BY <1>1, <1>7, <1>8 DEF BackLinksMatch, Used

LEMMA LinksStep == TypeOK /\ BackLinksMatch /\ [Next]_vars => BackLinksMatch'
<1> SUFFICES ASSUME TypeOK, BackLinksMatch, [Next]_vars PROVE BackLinksMatch'
  OBVIOUS
<1> USE AlarmAssumption DEF None
<1>1. ASSUME NEW a \in Alarms, AlarmNew(a) PROVE BackLinksMatch'
  <2>1. pending_idx[a] = None
    BY <1>1 DEF AlarmNew, BackLinksMatch, TypeOK
  <2> QED BY <1>1, <2>1 DEF AlarmNew, BackLinksMatch, Used, TypeOK, array, next
<1>2. ASSUME NEW a \in Alarms, NEW tick \in Clock, AlarmSet(a, tick)
      PROVE  BackLinksMatch'
  <2>1. CASE AddPending(a, tick)
    BY <1>2, <2>1
       DEF AlarmSet, AddPending, HasRoom, TypeOK, BackLinksMatch, Used, Slots
  <2>2. CASE DropRequest(a)
    BY <1>2, <2>2 DEF AlarmSet, DropRequest, BackLinksMatch, Used, array, next
  <2>3. CASE ModifyPending(a, tick)
    BY <1>2, <2>3 DEF AlarmSet, ModifyPending, BackLinksMatch, Used
  <2> QED BY <1>2, <2>1, <2>2, <2>3 DEF AlarmSet
<1>3. ASSUME NEW a \in Alarms, Unset(a),
             alarms' = alarms \/ alarms' = alarms \ {a}
      PROVE  BackLinksMatch'
  <2>1. CASE RemovePending(a)
    BY <1>3, <2>1, LinksAfterRemoval
  <2>2. CASE RemoveLast(a)
    BY <1>3, <2>2 DEF RemoveLast, TypeOK, BackLinksMatch, Used
  <2>3. CASE NothingToRemove(a)
    BY <1>3, <2>3 DEF NothingToRemove, TypeOK, BackLinksMatch, Used, array, next
  <2> QED BY <1>3, <2>1, <2>2, <2>3 DEF Unset
<1>4. ASSUME NEW amount \in -ClockMax..ClockMax, TimeWarp(amount)
      PROVE  BackLinksMatch'
  BY <1>4 DEF TimeWarp, BackLinksMatch, Used
<1>5. ASSUME NEW now \in 0..(ClockMax - 1), Dispatch(now) PROVE BackLinksMatch'
  BY <1>5 DEF Dispatch, BackLinksMatch, Used, array, next
<1>6. CASE UNCHANGED vars
  BY <1>6 DEF vars, BackLinksMatch, Used
<1> QED BY <1>1, <1>2, <1>3, <1>4, <1>5, <1>6
        DEF Next, AlarmUnset, AlarmDestroy

(* The scan of the array leaves the cache at the smallest tick.            *)
LEMMA ScanFindsEarliest ==
  ASSUME NEW clks \in [Slots -> Clock], NEW n \in 1..MaxPending,
         UpdateNextPending(clks, n)
  PROVE  /\ \A s \in 0..(n - 1) : next_clk' <= clks[s]
         /\ next_idx' \in 0..(n - 1) /\ clks[next_idx'] = next_clk'
<1>1. PICK i \in 0..(n - 1) : /\ IsLastMin(clks, n, i)
                              /\ next_clk' = clks[i]
                              /\ next_idx' = i
  BY DEF UpdateNextPending
<1>2. \A s \in 0..(n - 1) : clks[s] \in Int /\ clks[i] \in Int
  BY AlarmAssumption DEF Slots, Clock
<1> QED BY <1>1, <1>2 DEF IsLastMin

LEMMA EarliestStep == Inv /\ [Next]_vars => NextIsEarliest'
<1> SUFFICES ASSUME Inv, [Next]_vars PROVE NextIsEarliest'
  OBVIOUS
<1> USE AlarmAssumption DEF None, Inv
<1>1. ASSUME NEW a \in Alarms, AlarmNew(a) PROVE NextIsEarliest'
  BY <1>1 DEF AlarmNew, NextIsEarliest, Used, array, next
<1>2. ASSUME NEW a \in Alarms, NEW tick \in Clock, AlarmSet(a, tick)
      PROVE  NextIsEarliest'
  <2>1. CASE AddPending(a, tick)
    BY <2>1 DEF AddPending, HasRoom, TypeOK, NextIsEarliest, Used, Slots, Clock, next
  <2>2. CASE DropRequest(a)
    BY <2>2 DEF DropRequest, NextIsEarliest, Used, array, next
  <2>3. CASE ModifyPending(a, tick)
    <3> DEFINE idx == pending_idx[a]
               clks == [slot_clk EXCEPT ![idx] = tick]
    <3>1. /\ idx \in Used /\ num_pending \in 1..MaxPending
          /\ clks \in [Slots -> Clock]
          /\ slot_clk' = clks /\ num_pending' = num_pending
      BY <2>3 DEF ModifyPending, TypeOK, BackLinksMatch, Used, Slots
    <3>2. CASE NextAffected(idx, tick)
      <4>1. UpdateNextPending(clks, num_pending)
        BY <2>3, <3>2 DEF ModifyPending
      <4> HIDE DEF idx, clks
      <4> QED BY <3>1, <4>1, ScanFindsEarliest DEF NextIsEarliest, Used
    <3>3. CASE ~NextAffected(idx, tick)
      BY <2>3, <3>1, <3>3
         DEF ModifyPending, NextAffected, NextIsEarliest, TypeOK, Used, Slots, Clock, next
    <3> QED BY <3>2, <3>3
  <2> QED BY <1>2, <2>1, <2>2, <2>3 DEF AlarmSet
<1>3. ASSUME NEW a \in Alarms, Unset(a) PROVE NextIsEarliest'
  <2>1. CASE RemovePending(a)
    <3> DEFINE idx == pending_idx[a]
               last == num_pending - 1
               clks == [slot_clk EXCEPT ![idx] = slot_clk[last]]
    <3>1. /\ idx \in 0..last /\ last \in 1..MaxPending /\ last \in Slots
          /\ clks \in [Slots -> Clock]
          /\ slot_clk' = clks /\ num_pending' = last
      BY <2>1 DEF RemovePending, TypeOK, BackLinksMatch, Used, Slots
    <3>2. CASE next_idx = idx
      <4>1. UpdateNextPending(clks, last)
        BY <2>1, <3>2 DEF RemovePending
      <4> HIDE DEF idx, clks, last
      <4> QED BY <3>1, <4>1, ScanFindsEarliest DEF NextIsEarliest, Used
    <3>3. CASE next_idx # idx
      <4>1. next_idx' = FollowMoved(idx, last) /\ next_clk' = next_clk
        BY <2>1, <3>3 DEF RemovePending
      <4>2. \A s \in 0..(last - 1) :
              clks[s] = IF s = idx THEN slot_clk[last] ELSE slot_clk[s]
        BY <3>1 DEF TypeOK, Slots
      <4>3. \A s \in 0..last : next_clk <= slot_clk[s]
        BY <3>1 DEF NextIsEarliest, Used
      <4>4. next_clk < ClockMax => next_idx \in 0..last /\ slot_clk[next_idx] = next_clk
        BY <3>1 DEF NextIsEarliest, Used
      <4> HIDE DEF idx, clks, last
      <4>5. next_idx' = IF next_idx = last THEN idx ELSE next_idx
        BY <4>1 DEF FollowMoved
      <4>6. \A s \in 0..(last - 1) : next_clk <= clks[s]
        BY <3>1, <4>2, <4>3
      <4>7. next_clk < ClockMax => next_idx' \in 0..(last - 1) /\ clks[next_idx'] = next_clk
        <5>1. CASE next_idx = last
          <6>1. idx \in 0..(last - 1) /\ clks[idx] = slot_clk[last]
            BY <3>1, <3>3, <4>2, <5>1
          <6> QED BY <4>4, <4>5, <5>1, <6>1
        <5>2. CASE next_idx # last
          BY <3>1, <3>3, <4>2, <4>4, <4>5, <5>2
        <5> QED BY <5>1, <5>2
      <4> QED BY <3>1, <4>1, <4>6, <4>7 DEF NextIsEarliest, Used
    <3> QED BY <3>2, <3>3
  <2>2. CASE RemoveLast(a)
    BY <2>2 DEF RemoveLast, NextIsEarliest, Used
  <2>3. CASE NothingToRemove(a)
    BY <2>3 DEF NothingToRemove, NextIsEarliest, Used, array, next
  <2> QED BY <1>3, <2>1, <2>2, <2>3 DEF Unset
<1>4. ASSUME NEW amount \in -ClockMax..ClockMax, WarpAllowed(amount), TimeWarp(amount)
      PROVE  NextIsEarliest'
  <2>1. next_idx \in Used /\ slot_clk[next_idx] = next_clk
    BY <1>4 DEF WarpAllowed, NextIsEarliest
  <2>2. \A s \in Used : /\ slot_clk[s] \in Clock /\ slot_clk[s] + amount \in Clock
                        /\ next_clk \in Clock /\ next_clk + amount \in Clock
    BY <1>4, <2>1 DEF WarpAllowed, NextIsEarliest, TypeOK, Used, Slots, Clock
  <2>3. /\ next_clk' = next_clk + amount
        /\ \A s \in Used : slot_clk'[s] = slot_clk[s] + amount
    BY <1>4, <2>1, <2>2, WrapFacts DEF TimeWarp, TypeOK, Used, Slots, Clock
  <2>4. num_pending' = num_pending /\ next_idx' = next_idx
    BY <1>4 DEF TimeWarp
  <2> QED BY <2>1, <2>2, <2>3, <2>4 DEF NextIsEarliest, Used, Clock
<1>5. ASSUME NEW now \in 0..(ClockMax - 1), Dispatch(now) PROVE NextIsEarliest'
  BY <1>5 DEF Dispatch, NextIsEarliest, Used, array, next
<1>6. CASE UNCHANGED vars
  BY <1>6 DEF vars, NextIsEarliest, Used
<1> QED BY <1>1, <1>2, <1>3, <1>4, <1>5, <1>6
        DEF Next, AlarmUnset, AlarmDestroy

(* Whatever the devices do, the array, the back links and the cached next  *)
(* alarm agree.                                                            *)
THEOREM AlarmInvariant ==
  Spec => [](TypeOK /\ BackLinksMatch /\ NextIsEarliest)
<1>1. Init => Inv
  BY AlarmAssumption
     DEF Init, Inv, TypeOK, BackLinksMatch, NextIsEarliest, Used, Slots, Clock, None
<1>2. Inv /\ [Next]_vars => Inv'
  BY TypeStep, LinksStep, EarliestStep DEF Inv
<1> QED BY <1>1, <1>2, PTL DEF Spec, Inv

(* No operation leaves an index, a tick or a count out of its range.       *)
THEOREM AlarmIsTyped == Spec => []TypeOK
BY AlarmInvariant, PTL

(* The cached tick is that of an earliest pending alarm, or none is        *)
(* pending (alarm_context_update_next_pending).                            *)
THEOREM CacheIsEarliest == Spec => []NextIsEarliest
BY AlarmInvariant, PTL

-----------------------------------------------------------------------------
(* While the array has a free slot the queue has room for one more alarm:  *)
(* every pending alarm takes the seat of its slot, a new one the next.     *)
LEMMA RoomInQueue ==
  ASSUME TypeOK, BackLinksMatch, num_pending < MaxPending,
         NEW a \in Alarms, pending_idx[a] = None
  PROVE  Queue!RoomFor(Queue!Pending \cup {a})
<1> DEFINE S == Queue!Pending \cup {a}
           seat == [b \in S |-> IF b = a THEN num_pending + 1
                                         ELSE pending_idx[b] + 1]
<1> USE AlarmAssumption DEF None
<1>1. S = {b \in Alarms : pending_idx[b] # None} \cup {a}
  <2>1. Queue!Pending = {b \in Alarms : pending_idx[b] # None}
    <3>1. \A b \in Alarms : pending_idx[b] # None => slot_clk[pending_idx[b]] \in Clock
      BY DEF TypeOK
    <3>2. -1 \notin Clock
      BY DEF Clock
    <3> QED BY <3>1, <3>2 DEF Queue!Pending, Queue!NoClock, due
  <2> QED BY <2>1
<1>2. \A b \in S : b # a => /\ pending_idx[b] \in 0..(num_pending - 1)
                            /\ slot_alarm[pending_idx[b]] = b
  BY <1>1 DEF BackLinksMatch, Used
<1>3. num_pending \in Nat
  BY DEF TypeOK
<1> HIDE DEF S
<1>4. seat \in [S -> 1..MaxPending]
  BY <1>2, <1>3
<1>5. ASSUME NEW b \in S, NEW c \in S, seat[b] = seat[c] PROVE b = c
  <2>1. \A d \in S : /\ d = a => seat[d] = num_pending + 1
                     /\ d # a => seat[d] = pending_idx[d] + 1
    OBVIOUS
  <2> HIDE DEF seat
  <2>2. \A d \in S : d # a => pending_idx[d] \in Int /\ pending_idx[d] < num_pending
    BY <1>2, <1>3
  <2>3. b = a <=> c = a
    BY <1>3, <1>5, <2>1, <2>2
  <2>4. b # a => pending_idx[b] = pending_idx[c]
    BY <1>5, <2>1, <2>2, <2>3
  <2> QED BY <1>2, <2>3, <2>4
<1> HIDE DEF seat
<1>6. Queue!RoomFor(S)
  BY <1>4, <1>5 DEF Queue!RoomFor
<1> QED BY <1>6 DEF S

(* Removing an alarm from the array leaves the ticks of the others alone.  *)
LEMMA RemovalKeepsOthers ==
  ASSUME Inv, BackLinksMatch', NEW a \in Alarms, RemovePending(a)
  PROVE  due' = [due EXCEPT ![a] = None]
<1> DEFINE idx == pending_idx[a]
           last == num_pending - 1
           moved == slot_alarm[last]
<1> USE AlarmAssumption DEF None
<1>1. /\ idx \in 0..last /\ last \in Slots /\ last > 0 /\ last \in Nat
      /\ slot_clk' = [slot_clk EXCEPT ![idx] = slot_clk[last]]
      /\ pending_idx' = [pending_idx EXCEPT ![moved] = idx, ![a] = None]
  BY DEF Inv, TypeOK, BackLinksMatch, Used, RemovePending, IndexAfterMove, Slots
<1>2. /\ moved \in Alarms /\ pending_idx[moved] = last /\ slot_alarm[idx] = a
      /\ slot_clk \in [Slots -> Clock] /\ idx \in Slots
      /\ pending_idx \in [Alarms -> Slots \cup {None}]
  BY <1>1 DEF Inv, TypeOK, BackLinksMatch, Used, Slots
<1>3. \A b \in Alarms : pending_idx[b] # None => slot_alarm[pending_idx[b]] = b
  BY DEF Inv, BackLinksMatch
<1>4. pending_idx[a] = idx /\ slot_alarm[last] = moved
  OBVIOUS
<1> HIDE DEF idx, last, moved
<1>5. ASSUME NEW b \in Alarms, b # a
      PROVE  (IF pending_idx'[b] = None THEN None ELSE slot_clk'[pending_idx'[b]])
             = IF pending_idx[b] = None THEN None ELSE slot_clk[pending_idx[b]]
  <2>1. CASE b = moved
    <3>1. pending_idx'[b] = idx /\ slot_clk'[idx] = slot_clk[last]
      BY <1>1, <1>2, <1>5, <2>1
    <3> QED BY <1>1, <1>2, <2>1, <3>1 DEF Slots
  <2>2. CASE b # moved
    <3>1. pending_idx'[b] = pending_idx[b]
      BY <1>1, <1>2, <1>5, <2>2
    <3>2. pending_idx[b] # None => /\ pending_idx[b] # idx
                                   /\ pending_idx[b] \in Slots
      BY <1>2, <1>3, <1>5
    <3> QED BY <1>1, <1>2, <3>1, <3>2
  <2> QED BY <2>1, <2>2
<1>6. pending_idx'[a] = None
  BY <1>1, <1>2
<1> QED BY <1>5, <1>6 DEF due

LEMMA UnsetSimulation ==
  ASSUME Inv, Inv', NEW a \in Alarms, Unset(a), UNCHANGED called
  PROVE  Queue!Unset(a)
<1> USE AlarmAssumption DEF None, Queue!Unset, Queue!NoClock
<1>1. CASE RemovePending(a)
  BY <1>1, RemovalKeepsOthers DEF Inv
<1>2. CASE RemoveLast(a)
  <2>1. \A b \in Alarms : b # a => pending_idx[b] = None
    BY <1>2 DEF RemoveLast, Inv, TypeOK, BackLinksMatch, Used, Slots
  <2>2. /\ pending_idx' = [pending_idx EXCEPT ![a] = None]
        /\ slot_clk' = slot_clk
    BY <1>2 DEF RemoveLast
  <2> QED BY <2>1, <2>2 DEF due, Inv, TypeOK
<1>3. CASE NothingToRemove(a)
  BY <1>3 DEF NothingToRemove, array, due
<1> QED BY <1>1, <1>2, <1>3 DEF Unset

LEMMA SetSimulation ==
  ASSUME Inv, Inv', NEW a \in Alarms, NEW tick \in Clock, AlarmSet(a, tick)
  PROVE  Queue!Set(a, tick) \/ UNCHANGED Queue!vars
<1> USE AlarmAssumption DEF None, Queue!NoClock
<1>1. CASE AddPending(a, tick)
  <2>1. Queue!RoomFor(Queue!Pending \cup {a})
    BY <1>1, RoomInQueue DEF AddPending, HasRoom, Inv
  <2>2. /\ num_pending \in Slots
        /\ \A b \in Alarms : pending_idx[b] # num_pending
    BY <1>1 DEF AddPending, HasRoom, Inv, TypeOK, BackLinksMatch, Used, Slots
  <2>3. due' = [due EXCEPT ![a] = tick]
    <3>1. /\ pending_idx \in [Alarms -> Slots \cup {None}]
          /\ slot_clk \in [Slots -> Clock]
          /\ pending_idx' = [pending_idx EXCEPT ![a] = num_pending]
          /\ slot_clk' = [slot_clk EXCEPT ![num_pending] = tick]
      BY <1>1 DEF AddPending, Inv, TypeOK
    <3>2. pending_idx'[a] = num_pending /\ slot_clk'[num_pending] = tick
          /\ num_pending # None
      BY <2>2, <3>1 DEF Slots
    <3>3. \A b \in Alarms : b # a => pending_idx'[b] = pending_idx[b]
      BY <3>1
    <3>4. \A b \in Alarms : b # a /\ pending_idx[b] # None =>
            slot_clk'[pending_idx[b]] = slot_clk[pending_idx[b]]
      BY <2>2, <3>1
    <3>5. \A b \in Alarms :
            (IF pending_idx'[b] = None THEN None ELSE slot_clk'[pending_idx'[b]])
            = IF b = a THEN tick
              ELSE IF pending_idx[b] = None THEN None ELSE slot_clk[pending_idx[b]]
      BY <3>2, <3>3, <3>4
    <3>6. due' = [b \in Alarms |-> IF b = a THEN tick ELSE due[b]]
      BY <3>5 DEF due
    <3>7. due = [b \in Alarms |-> due[b]]
      BY DEF due
    <3> QED BY <3>6, <3>7
  <2> QED BY <2>1, <2>3 DEF Queue!Set, AlarmSet
<1>2. CASE DropRequest(a)
  BY <1>2 DEF DropRequest, AlarmSet, array, due, Queue!vars
<1>3. CASE ModifyPending(a, tick)
  <2>1. /\ pending_idx[a] \in Slots /\ pending_idx' = pending_idx
        /\ slot_clk' = [slot_clk EXCEPT ![pending_idx[a]] = tick]
        /\ \A b \in Alarms : b # a => pending_idx[b] # pending_idx[a]
    BY <1>3 DEF ModifyPending, Inv, TypeOK, BackLinksMatch, Used, Slots
  <2>2. due' = [due EXCEPT ![a] = tick]
    <3>1. slot_clk'[pending_idx[a]] = tick /\ pending_idx[a] # None
      BY <2>1 DEF Inv, TypeOK, Slots
    <3>2. \A b \in Alarms : b # a /\ pending_idx[b] # None =>
            slot_clk'[pending_idx[b]] = slot_clk[pending_idx[b]]
      BY <2>1 DEF Inv, TypeOK
    <3> QED BY <2>1, <3>1, <3>2 DEF due
  <2>3. a \in Queue!Pending
    BY <2>1 DEF Queue!Pending, due, Inv, TypeOK, Slots, Clock
  <2> QED BY <2>2, <2>3 DEF Queue!Set, AlarmSet
<1> QED BY <1>1, <1>2, <1>3 DEF AlarmSet

LEMMA WarpSimulation ==
  ASSUME Inv, Inv', NEW amount \in -ClockMax..ClockMax,
         WarpAllowed(amount), TimeWarp(amount)
  PROVE  Queue!TimeWarp(amount)
<1> USE AlarmAssumption DEF None, Queue!NoClock
<1>1. \A s \in Used : slot_clk[s] \in Clock /\ slot_clk[s] + amount \in Clock
  <2>1. next_clk \in Int /\ next_clk + amount >= 0 /\ amount \in Int /\ ClockMax \in Int
    BY DEF WarpAllowed, Inv, TypeOK, Clock
  <2>2. \A s \in Used : /\ slot_clk[s] \in Clock
                        /\ next_clk <= slot_clk[s]
                        /\ slot_clk[s] + amount <= ClockMax
    BY DEF WarpAllowed, Inv, NextIsEarliest, TypeOK, Used, Slots
  <2> QED BY <2>1, <2>2 DEF Clock
<1>2. \A s \in Used : slot_clk'[s] = slot_clk[s] + amount
  BY <1>1, WrapFacts DEF TimeWarp, Inv, TypeOK, Used, Slots, Clock
<1>3. pending_idx' = pending_idx /\ called' = called
  BY DEF TimeWarp
<1>4. \A a \in Alarms : pending_idx[a] # None => pending_idx[a] \in Used
  BY DEF Inv, BackLinksMatch
<1>5. Queue!Pending = {a \in Alarms : pending_idx[a] # None}
  BY <1>1, <1>4 DEF Queue!Pending, due, Clock
<1> QED BY <1>1, <1>2, <1>3, <1>4, <1>5 DEF Queue!TimeWarp, due, Clock, Queue!Clock

LEMMA DispatchSimulation ==
  ASSUME Inv, NEW now \in 0..(ClockMax - 1), Dispatch(now)
  PROVE  Queue!Dispatch(now)
<1> USE AlarmAssumption DEF None, Queue!NoClock
<1> DEFINE a == slot_alarm[next_idx]
<1>1. next_idx \in Used /\ slot_clk[next_idx] = next_clk
  BY DEF Dispatch, Inv, TypeOK, NextIsEarliest, Clock
<1>2. a \in Alarms /\ pending_idx[a] = next_idx /\ next_idx # None
  BY <1>1 DEF Inv, TypeOK, BackLinksMatch, Used
<1>3. a \in Queue!Pending /\ due[a] = next_clk
  <2>1. due[a] = next_clk
    BY <1>1, <1>2 DEF due
  <2>2. next_clk # None
    BY DEF Inv, TypeOK, Clock
  <2> QED BY <1>2, <2>1, <2>2 DEF Queue!Pending
<1>4. \A b \in Queue!Pending : due[a] <= due[b]
  BY <1>3 DEF Queue!Pending, due, Inv, BackLinksMatch, NextIsEarliest
<1>5. called' = [alarm |-> a, offset |-> now - due[a]] /\ now >= due[a]
  BY <1>1, <1>3 DEF Dispatch, AlarmAt, Used, Wrap, Inv, TypeOK, Clock
<1>6. UNCHANGED due
  BY DEF Dispatch, array, due
<1> HIDE DEF a
<1> QED BY <1>3, <1>4, <1>5, <1>6 DEF Queue!Dispatch

(* The array with its cached entry behaves as a queue that always calls an *)
(* earliest pending alarm.                                                 *)
THEOREM AlarmImplementsQueue == Spec => ImplementsQueue
<1>1. Init => Queue!Init
  BY DEF Init, Queue!Init, Queue!NoClock, due, None
<1>2. ASSUME Inv, Inv', [Next]_vars PROVE [Queue!Next]_(Queue!vars)
  <2>1. ASSUME NEW a \in Alarms, AlarmNew(a) PROVE UNCHANGED Queue!vars
    <3>1. pending_idx' = pending_idx
      BY <1>2, <2>1 DEF AlarmNew, Inv, TypeOK, BackLinksMatch
    <3> QED BY <2>1, <3>1 DEF AlarmNew, array, due, Queue!vars
  <2>2. ASSUME NEW a \in Alarms, AlarmUnset(a) \/ AlarmDestroy(a)
        PROVE  Queue!Unset(a)
    BY <1>2, <2>2, UnsetSimulation DEF AlarmUnset, AlarmDestroy
  <2>3. ASSUME NEW a \in Alarms, NEW tick \in Clock, AlarmSet(a, tick)
        PROVE  Queue!Set(a, tick) \/ UNCHANGED Queue!vars
    BY <1>2, <2>3, SetSimulation
  <2>4. ASSUME NEW amount \in -ClockMax..ClockMax,
               WarpAllowed(amount), TimeWarp(amount)
        PROVE  Queue!TimeWarp(amount)
    BY <1>2, <2>4, WarpSimulation
  <2>5. ASSUME NEW now \in 0..(ClockMax - 1), Dispatch(now)
        PROVE  Queue!Dispatch(now) /\ now \in Queue!Clock
    BY <1>2, <2>5, DispatchSimulation, AlarmAssumption DEF Queue!Clock
  <2>6. CASE UNCHANGED vars
    BY <2>6 DEF vars, due, Queue!vars
  <2> QED BY <1>2, <2>1, <2>2, <2>3, <2>4, <2>5, <2>6
          DEF Next, Queue!Next, Clock, Queue!Clock
<1> QED BY <1>1, <1>2, AlarmInvariant, PTL DEF Spec, ImplementsQueue, Queue!Spec, Inv

-----------------------------------------------------------------------------
(* The clock of the main CPU.                                              *)

(* What one trip of the guard takes away: most of the clock, but never so  *)
(* much that a tick younger than SubMin cycles would wrap.                 *)
LEMMA ClockSubBounds ==
  /\ ClockSub \in Nat
  /\ ClockSub <= GuardMax - SubMin
  /\ ClockSub >= GuardMax - 2 * SubMin
<1> USE AlarmAssumption, CpuAssumption
<1> DEFINE sub == GuardMax - SubMin
           quo == sub \div ClkBase
<1>1. sub \in Nat /\ GuardMax \in Nat
  BY DEF GuardMax
<1>2. CASE ClkBase = 0
  BY <1>1, <1>2 DEF ClockSub
<1>3. CASE ClkBase # 0
  <2>1. ClkBase \in Nat \ {0} /\ ClkBase <= SubMin
    BY <1>3
  <2>2. \A n \in Nat, b \in Nat \ {0} :
          /\ (n \div b) * b \in Nat
          /\ (n \div b) * b <= n
          /\ (n \div b) * b > n - b
    OBVIOUS
  <2>3. ClockSub = quo * ClkBase
    BY <1>3 DEF ClockSub
  <2> HIDE DEF sub
  <2>4. quo * ClkBase \in Nat /\ quo * ClkBase <= sub /\ quo * ClkBase > sub - ClkBase
    BY <1>1, <2>1, <2>2
  <2> HIDE DEF quo
  <2>5. sub = GuardMax - SubMin
    BY DEF sub
  <2> QED BY <1>1, <2>1, <2>3, <2>4, <2>5
<1> QED BY <1>2, <1>3

(* The state of the array, seen through the ticks of the queue.            *)
LEMMA DueFacts ==
  ASSUME Inv
  PROVE  /\ \A b \in Alarms :
              /\ pending_idx[b] = None => due[b] = None
              /\ pending_idx[b] # None => /\ due[b] = slot_clk[pending_idx[b]]
                                          /\ due[b] \in Clock
                                          /\ due[b] >= next_clk
         /\ next_clk < ClockMax => \E b \in Alarms : pending_idx[b] # None /\ due[b] = next_clk
<1> USE AlarmAssumption
<1>1. \A b \in Alarms : pending_idx[b] # None => /\ pending_idx[b] \in Used
                                                 /\ pending_idx[b] \in Slots
  BY DEF Inv, BackLinksMatch, TypeOK
<1>2. \A b \in Alarms : pending_idx[b] # None => /\ slot_clk[pending_idx[b]] \in Clock
                                                 /\ slot_clk[pending_idx[b]] >= next_clk
  BY <1>1 DEF Inv, NextIsEarliest, TypeOK, Clock
<1>3. ASSUME next_clk < ClockMax
      PROVE  \E b \in Alarms : pending_idx[b] # None /\ due[b] = next_clk
  <2>1. next_idx \in Used /\ slot_clk[next_idx] = next_clk /\ next_idx # None
    BY <1>3 DEF Inv, NextIsEarliest, Used, None
  <2>2. slot_alarm[next_idx] \in Alarms /\ pending_idx[slot_alarm[next_idx]] = next_idx
    BY <2>1 DEF Inv, BackLinksMatch, TypeOK
  <2> QED BY <2>1, <2>2 DEF due
<1> QED BY <1>2, <1>3 DEF due

(* The same for the state after a step.                                    *)
NextIsPending == next_clk < ClockMax =>
                   \E b \in Alarms : pending_idx[b] # None /\ due[b] = next_clk

LEMMA NextIsPendingAfter == Inv' => NextIsPending'
<1>1. Inv => NextIsPending
  BY DueFacts DEF NextIsPending
<1> QED BY <1>1, PTL

(* What the bounds say about the numbers involved.                         *)
LEMMA CpuNumbers ==
  ASSUME CpuInv
  PROVE  /\ Inv
         /\ clk \in Nat /\ next_clk \in Nat /\ GuardMax \in Nat
         /\ clk + MaxAhead <= ClockMax - 2
         /\ clk < ClockMax
         /\ pending_idx[Raster] # None /\ RasterClk = due[Raster]
         /\ RasterClk \in Clock /\ RasterClk >= next_clk
         /\ \A b \in Alarms : pending_idx[b] # None => clk < due[b] + MaxStep
<1> USE AlarmAssumption, CpuAssumption
<1>1. Inv
  BY DEF CpuInv, CpuTypeOK, Inv
<1>2. clk \in Nat /\ next_clk \in Nat /\ GuardMax \in Nat
  BY DEF CpuInv, CpuTypeOK, TypeOK, Clock, GuardMax
<1>3. clk + MaxAhead <= ClockMax - 2 /\ clk < ClockMax
  BY <1>2 DEF CpuInv, ClockBound, GuardMax
<1>4. /\ pending_idx[Raster] # None /\ RasterClk = due[Raster]
      /\ RasterClk \in Clock /\ RasterClk >= next_clk
  BY <1>1, DueFacts DEF CpuInv, RasterOnTime, RasterClk
<1>5. \A b \in Alarms : pending_idx[b] # None => clk < due[b] + MaxStep
  BY <1>1, <1>2, DueFacts DEF CpuInv, RasterOnTime, Clock
<1> QED BY <1>1, <1>2, <1>3, <1>4, <1>5

(* An instruction starts when no alarm is due, so it ends at most one      *)
(* instruction after the frame alarm.                                      *)
LEMMA InstructionStep == CpuInv /\ Instruction => CpuInv'
<1> SUFFICES ASSUME CpuInv, Instruction PROVE CpuInv'
  OBVIOUS
<1> USE AlarmAssumption, CpuAssumption
<1>1. /\ UNCHANGED vars /\ in_call' = NoAlarm /\ in_call = NoAlarm
      /\ vsync_due' = vsync_due /\ epoch' = epoch /\ clk < next_clk
  BY DEF Instruction, AlarmIsDue, AlarmIsDueLate, CpuInv, CpuTypeOK, TypeOK, Clock
<1>2. /\ clk \in Clock /\ next_clk \in Clock /\ RasterClk \in Int
      /\ clk < RasterClk + 0 /\ RasterClk <= GuardMax - 1 + Frame
  <2>1. pending_idx[Raster] \in Used
    BY DEF CpuInv, BackLinksMatch, RasterOnTime, None
  <2>2. clk \in Clock /\ next_clk \in Clock /\ RasterClk \in Clock
    BY <2>1 DEF CpuInv, CpuTypeOK, TypeOK, RasterClk, Used, Slots
  <2>3. next_clk <= RasterClk
    BY <2>1 DEF CpuInv, NextIsEarliest, RasterClk
  <2> QED BY <1>1, <2>2, <2>3 DEF CpuInv, RasterOnTime, Clock
<1>3. PICK d \in 1..MaxStep : clk' = Wrap(clk + d)
  BY DEF Instruction
<1>4. /\ clk + d \in Clock /\ clk + d <= GuardMax - 2 + Frame + MaxStep
      /\ clk + d \in Nat /\ GuardMax \in Int
  BY <1>2 DEF Clock, GuardMax
<1>5. clk' = clk + d /\ clk' \in Clock
  BY <1>3, <1>4 DEF Wrap, Clock
<1>6. CpuTypeOK' /\ BackLinksMatch' /\ NextIsEarliest'
  <2>1. UNCHANGED <<alarms, slot_alarm, slot_clk, num_pending, next_clk, next_idx,
                    pending_idx, called>>
    BY <1>1 DEF vars
  <2>2. TypeOK'
    BY <2>1 DEF CpuInv, CpuTypeOK, TypeOK
  <2>3. BackLinksMatch' /\ NextIsEarliest'
    BY <2>1 DEF CpuInv, BackLinksMatch, NextIsEarliest, Used
  <2> QED BY <1>1, <1>5, <2>2, <2>3 DEF CpuInv, CpuTypeOK
<1>7. ClockBound'
  BY <1>4, <1>5 DEF ClockBound
<1>8. RasterOnTime'
  <2>1. clk' < next_clk' + MaxStep
    BY <1>1, <1>2, <1>5 DEF vars, Clock
  <2>2. in_call' # Raster /\ RasterClk' = RasterClk
    BY <1>1 DEF vars, RasterClk
  <2> QED BY <1>1, <2>1, <2>2 DEF RasterOnTime, CpuInv, vars
<1> QED BY <1>6, <1>7, <1>8 DEF CpuInv

(* The tick a callback was called for is at most one instruction old.      *)
LEMMA RclkFacts ==
  ASSUME CpuInv
  PROVE  /\ called.offset \in Nat /\ rclk \in Int /\ rclk <= clk
         /\ in_call # NoAlarm => /\ rclk \in Nat /\ rclk > clk - MaxStep
                                 /\ called.alarm = in_call
<1>1. called.offset \in Nat /\ clk \in Nat
  BY AlarmAssumption, CpuNumbers DEF CpuInv, CpuTypeOK, TypeOK, Clock
<1>2. in_call # NoAlarm => /\ rclk >= 0 /\ rclk > clk - MaxStep
                           /\ called.alarm = in_call
  BY DEF CpuInv, RasterOnTime
<1> QED BY <1>1, <1>2 DEF rclk

(* A device sets its alarm to the present, ahead, or ahead of the tick its *)
(* callback was called for.                                                *)
LEMMA DeviceOps ==
  ASSUME CpuInv, NEW a \in Alarms,
         DeviceSets(a) \/ DeviceUnsets(a) \/ ReturnFromDevice(a)
  PROVE  /\ a # Raster /\ UNCHANGED <<clk, vsync_due, epoch, called>>
         /\ in_call' = in_call \/ (in_call # Raster /\ in_call' = NoAlarm)
         /\ \/ AlarmUnset(a)
            \/ \E t \in Clock : /\ AlarmSet(a, t)
                                /\ t + MaxStep > clk
                                /\ t >= clk \/ (called.alarm = a /\ t > rclk)
<1> USE AlarmAssumption, CpuAssumption
<1>1. \A ahead \in 0..MaxAhead : /\ Wrap(clk + ahead) = clk + ahead
                                 /\ clk + ahead \in Clock
  BY CpuNumbers, WrapFacts DEF Clock
<1>2. /\ a # Raster /\ UNCHANGED <<clk, vsync_due, epoch, called>>
      /\ in_call' = in_call \/ (in_call # Raster /\ in_call' = NoAlarm)
  BY DEF DeviceSets, DeviceUnsets, ReturnFromDevice, cpu, AlarmSet, AlarmUnset
<1>3. ASSUME NEW ahead \in 0..MaxAhead, AlarmSet(a, Wrap(clk + ahead))
      PROVE  \E t \in Clock : AlarmSet(a, t) /\ t + MaxStep > clk /\ t >= clk
  <2>1. AlarmSet(a, clk + ahead)
    BY <1>1, <1>3
  <2> QED BY <1>1, <2>1, CpuNumbers
<1>4. ASSUME NEW ahead \in 1..MaxAhead, AlarmSet(a, Wrap(rclk + ahead)), in_call = a
      PROVE  \E t \in Clock : /\ AlarmSet(a, t) /\ t + MaxStep > clk
                              /\ called.alarm = a /\ t > rclk
  <2>1. rclk \in Nat /\ rclk <= clk /\ rclk > clk - MaxStep /\ called.alarm = a
    BY <1>4, RclkFacts
  <2>2. rclk + ahead \in Clock /\ rclk + ahead > rclk /\ rclk + ahead + MaxStep > clk
    BY <2>1, CpuNumbers DEF Clock
  <2>3. Wrap(rclk + ahead) = rclk + ahead
    BY <2>2 DEF Wrap, Clock
  <2>4. AlarmSet(a, rclk + ahead)
    BY <1>4, <2>3
  <2> QED BY <2>1, <2>2, <2>4
<1>5. \/ AlarmUnset(a)
      \/ \E ahead \in 0..MaxAhead : AlarmSet(a, Wrap(clk + ahead))
      \/ in_call = a /\ \E ahead \in 1..MaxAhead : AlarmSet(a, Wrap(rclk + ahead))
  BY DEF DeviceSets, DeviceUnsets, ReturnFromDevice
<1> QED BY <1>2, <1>3, <1>4, <1>5

(* The guard takes no more than what every pending tick can give up: the   *)
(* earliest of them is at most one instruction old.                        *)
LEMMA WarpIsAllowed ==
  ASSUME CpuInv, vsync_due, GuardTrips
  PROVE  /\ WarpAllowed(-ClockSub)
         /\ -ClockSub \in -ClockMax..ClockMax
<1> USE AlarmAssumption, CpuAssumption
<1>1. /\ clk \in Nat /\ next_clk \in Nat /\ GuardMax \in Nat /\ clk < ClockMax
      /\ RasterClk >= next_clk /\ RasterClk <= clk /\ RasterClk \in Nat
      /\ clk < next_clk + MaxStep /\ clk >= GuardMax
  BY CpuNumbers, RclkFacts DEF CpuInv, RasterOnTime, GuardTrips, Clock
<1>2. /\ ClockSub \in Nat /\ ClockSub <= GuardMax - SubMin /\ MaxStep < SubMin
      /\ ClockSub <= ClockMax
  BY <1>1, ClockSubBounds DEF GuardMax
<1>3. next_clk < ClockMax /\ next_clk + (-ClockSub) >= 0
  BY <1>1, <1>2
<1>4. \A s \in 0..(num_pending - 1) : slot_clk[s] + (-ClockSub) <= ClockMax
  BY <1>2 DEF CpuInv, CpuTypeOK, TypeOK, Slots, Clock
<1>5. -ClockSub \in -ClockMax..ClockMax
  BY <1>2
<1> QED BY <1>3, <1>4, <1>5 DEF WarpAllowed

(* Every step uses the context as module Alarm assumes.                    *)
LEMMA ContextStep ==
  ASSUME CpuInv, [CpuNext]_cpuVars
  PROVE  [Next]_vars
<1> USE AlarmAssumption, CpuAssumption
<1>2. CASE Instruction
  BY <1>2 DEF Instruction
<1>3. CASE Call
  BY <1>3, CpuNumbers DEF Call, Next
<1>4. CASE VSync
  BY <1>4, WarpIsAllowed DEF VSync, Next
<1>5. CASE ReturnFromRaster
  <2> DEFINE n == rclk + Frame
  <2>1. n \in Int /\ -(ClockMax + 1) <= n /\ n <= 2 * ClockMax + 1
    BY <1>5, CpuNumbers, RclkFacts DEF ReturnFromRaster, GuardMax
  <2> HIDE DEF n
  <2>2. Wrap(n) \in Clock
    BY <2>1, WrapFacts
  <2> QED BY <1>5, <2>2 DEF ReturnFromRaster, Next, n
<1>6. ASSUME NEW a \in Alarms, DeviceSets(a) \/ DeviceUnsets(a) \/ ReturnFromDevice(a)
      PROVE  Next
  BY <1>6, DeviceOps DEF Next
<1>7. CASE UNCHANGED cpuVars
  BY <1>7 DEF cpuVars
<1> QED BY <1>2, <1>3, <1>4, <1>5, <1>6, <1>7 DEF CpuNext

LEMMA ContextInv ==
  ASSUME CpuInv, [CpuNext]_cpuVars
  PROVE  Inv'
BY CpuNumbers, ContextStep, TypeStep, LinksStep, EarliestStep DEF Inv

(* A bound on every pending tick is a bound on the cached one, and the     *)
(* tick of the frame alarm is the one in its slot.                         *)
LEMMA NotLateAfter ==
  ASSUME Inv', clk' \in Nat, clk' <= ClockMax,
         \A b \in Alarms : due'[b] # None => clk' < due'[b] + MaxStep
  PROVE  clk' < next_clk' + MaxStep
<1> USE AlarmAssumption, CpuAssumption
<1>1. \A b \in Alarms : pending_idx'[b] # None => due'[b] # None
  BY DEF due, Inv, TypeOK, BackLinksMatch, Used, Slots, Clock, None
<1>2. next_clk' \in Nat /\ next_clk' <= ClockMax
  BY DEF Inv, TypeOK, Clock
<1>3. CASE next_clk' < ClockMax
  <2>1. \E b \in Alarms : pending_idx'[b] # None /\ due'[b] = next_clk'
    BY <1>3, NextIsPendingAfter DEF NextIsPending
  <2> QED BY <1>1, <2>1
<1>4. CASE next_clk' = ClockMax
  BY <1>4
<1>5. next_clk' < ClockMax \/ next_clk' = ClockMax
  BY <1>2
<1> QED BY <1>3, <1>4, <1>5

LEMMA RasterAfter ==
  ASSUME due'[Raster] # None
  PROVE  pending_idx'[Raster] # None /\ RasterClk' = due'[Raster]
BY CpuAssumption DEF due, RasterClk

(* A device moves its own tick, to one that is not too late.               *)
LEMMA DeviceKeepsOthers ==
  ASSUME CpuInv, Inv', NEW a \in Alarms, a # Raster, UNCHANGED clk,
         \/ AlarmUnset(a)
         \/ \E t \in Clock : AlarmSet(a, t) /\ t + MaxStep > clk
  PROVE  /\ pending_idx'[Raster] # None /\ RasterClk' = RasterClk
         /\ clk < next_clk' + MaxStep
<1> USE AlarmAssumption, CpuAssumption
<1>2. \/ due' = due
      \/ \E t \in Clock \cup {None} : /\ due' = [due EXCEPT ![a] = t]
                                      /\ t = None \/ t + MaxStep > clk
  <2>1. CASE AlarmUnset(a)
    BY <2>1, UnsetSimulation, CpuNumbers DEF AlarmUnset, Queue!Unset, Queue!NoClock, None
  <2>2. ASSUME NEW t \in Clock, AlarmSet(a, t), t + MaxStep > clk
        PROVE  \/ due' = due
               \/ due' = [due EXCEPT ![a] = t] /\ t + MaxStep > clk
    BY <2>2, SetSimulation, CpuNumbers DEF Queue!Set, Queue!vars
  <2> QED BY <2>1, <2>2
<1>3. due'[Raster] = due[Raster]
  BY <1>2 DEF due
<1>4. pending_idx'[Raster] # None /\ RasterClk' = RasterClk
  BY <1>3, CpuNumbers, RasterAfter DEF Clock, None
<1>5. \A b \in Alarms : due'[b] # None => clk < due'[b] + MaxStep
  <2>1. \A b \in Alarms : due[b] # None => clk < due[b] + MaxStep
    BY CpuNumbers DEF due
  <2>2. CASE due' = due
    BY <2>1, <2>2
  <2>3. ASSUME NEW t \in Clock \cup {None}, due' = [due EXCEPT ![a] = t],
               t = None \/ t + MaxStep > clk
        PROVE  \A b \in Alarms : due'[b] # None => clk < due'[b] + MaxStep
    <3>1. \A b \in Alarms : b # a => due'[b] = due[b]
      BY <2>3
    <3>2. due'[a] = t
      BY <2>3 DEF due
    <3>3. t # None => clk < t + MaxStep
      BY <2>3, CpuNumbers DEF Clock, None
    <3> QED BY <2>1, <3>1, <3>2, <3>3
  <2> QED BY <1>2, <2>2, <2>3
<1>6. clk < next_clk' + MaxStep
  BY <1>5, CpuNumbers, NotLateAfter
<1> QED BY <1>4, <1>6

LEMMA DeviceStep ==
  ASSUME CpuInv, Inv', NEW a \in Alarms,
         DeviceSets(a) \/ DeviceUnsets(a) \/ ReturnFromDevice(a)
  PROVE  CpuInv'
<1> USE AlarmAssumption, CpuAssumption
<1>1. /\ a # Raster /\ UNCHANGED <<clk, vsync_due, epoch, called>>
      /\ in_call' = in_call \/ (in_call # Raster /\ in_call' = NoAlarm)
      /\ \/ AlarmUnset(a)
         \/ \E t \in Clock : AlarmSet(a, t) /\ t + MaxStep > clk
  BY DeviceOps
<1>2. /\ pending_idx'[Raster] # None /\ RasterClk' = RasterClk
      /\ clk < next_clk' + MaxStep
  BY <1>1, DeviceKeepsOthers
<1>3. CpuTypeOK' /\ ClockBound'
  BY <1>1 DEF CpuInv, CpuTypeOK, ClockBound, Inv
<1>4. RasterOnTime'
  <2>1. rclk' = rclk
    BY <1>1 DEF rclk
  <2>2. NoAlarm # Raster
    BY AlarmAssumption, CpuAssumption
  <2> QED BY <1>1, <1>2, <2>1, <2>2 DEF CpuInv, RasterOnTime
<1> QED BY <1>3, <1>4 DEF CpuInv, Inv

(* The frame alarm is called when its tick has passed, any other when the  *)
(* frame alarm is still within a frame of the last check.                  *)
LEMMA CallStep == ASSUME CpuInv, Inv', Call PROVE CpuInv'
<1> USE AlarmAssumption, CpuAssumption
<1>1. /\ UNCHANGED <<clk, epoch>> /\ in_call = NoAlarm /\ clk >= next_clk
      /\ UNCHANGED <<pending_idx, slot_clk, next_clk>>
      /\ in_call' = AlarmAt(next_idx) /\ vsync_due' = (AlarmAt(next_idx) = Raster)
  BY DEF Call, Dispatch, AlarmIsDue, array, next
<1>2. next_idx \in Used /\ slot_clk[next_idx] = next_clk
  BY <1>1, CpuNumbers DEF Inv, NextIsEarliest
<1>3. in_call' \in Alarms /\ pending_idx[in_call'] = next_idx
  BY <1>1, <1>2 DEF CpuInv, CpuTypeOK, TypeOK, BackLinksMatch, AlarmAt, Used
<1>4. called' = [alarm |-> in_call', offset |-> clk - next_clk]
  BY <1>1, CpuNumbers DEF Call, Dispatch, Wrap
<1>4a. rclk' = next_clk
  BY <1>1, <1>4, CpuNumbers DEF rclk
<1>4b. in_call' = Raster => RasterClk = rclk'
  BY <1>2, <1>3, <1>4a DEF RasterClk
<1>4c. rclk' >= 0 /\ rclk' > clk - MaxStep
  BY <1>4a, CpuNumbers DEF CpuInv, RasterOnTime
<1>5. RasterClk' = RasterClk
  BY <1>1 DEF RasterClk
<1>6. CpuTypeOK' /\ ClockBound'
  BY <1>1, <1>3 DEF CpuInv, CpuTypeOK, ClockBound, Inv
<1>7. RasterOnTime'
  <2>1. called'.alarm = in_call'
    BY <1>4
  <2> QED BY <1>1, <1>4b, <1>4c, <1>5, <2>1, CpuAssumption DEF CpuInv, RasterOnTime
<1> QED BY <1>6, <1>7 DEF CpuInv, Inv

(* A trip of the guard leaves the clock below the guard's limit again.     *)
LEMMA VSyncStep == ASSUME CpuInv, Inv', VSync PROVE CpuInv'
<1> USE AlarmAssumption, CpuAssumption
<1>1. in_call = Raster /\ in_call' = Raster /\ vsync_due /\ vsync_due' = FALSE
  BY DEF VSync, CpuInv, RasterOnTime
<1>2. CASE ~GuardTrips /\ UNCHANGED <<vars, clk, epoch>>
  <2>1. clk < GuardMax
    BY <1>2, CpuNumbers DEF GuardTrips
  <2>2. CpuTypeOK' /\ ClockBound'
    BY <1>1, <1>2 DEF CpuInv, CpuTypeOK, ClockBound, Inv
  <2>3. RasterOnTime'
    BY <1>1, <1>2, <2>1 DEF CpuInv, RasterOnTime, RasterClk, rclk, vars
  <2> QED BY <2>2, <2>3 DEF CpuInv, Inv
<1>3. CASE /\ GuardTrips
           /\ clk' = Wrap(clk - ClockSub)
           /\ epoch' = epoch + ClockSub
           /\ TimeWarp(-ClockSub)
  <2> DEFINE sub == ClockSub
  <2>1. /\ sub \in Nat /\ sub <= GuardMax - SubMin /\ sub >= GuardMax - 2 * SubMin
        /\ clk \in Nat /\ clk >= GuardMax /\ clk <= GuardMax + Frame + MaxStep - 2
        /\ GuardMax \in Nat /\ clk < ClockMax
    BY <1>3, ClockSubBounds, CpuNumbers DEF GuardTrips, CpuInv, ClockBound
  <2> HIDE DEF sub
  <2>2. clk - sub \in Nat /\ clk - sub < GuardMax /\ clk - sub <= clk
    BY <2>1
  <2>3. clk' = clk - sub
    BY <1>3, <2>1, <2>2, WrapFacts DEF Clock, sub
  <2>4. WarpAllowed(-sub) /\ -sub \in -ClockMax..ClockMax
    BY <1>1, <1>3, WarpIsAllowed DEF sub
  <2>5. Queue!TimeWarp(-sub)
    BY <1>3, <2>4, CpuNumbers, WarpSimulation DEF sub
  <2>6. \A b \in Alarms : due'[b] = IF due[b] # None THEN due[b] + (-sub) ELSE None
    BY <2>5 DEF Queue!TimeWarp, Queue!Pending, Queue!NoClock, None
  <2>7. \A b \in Alarms : due[b] # None => due[b] \in Nat /\ clk < due[b] + MaxStep
    BY CpuNumbers, DueFacts DEF due, Clock
  <2>7a. \A b \in Alarms : due[b] # None => due[b] + (-sub) \in Nat
    BY <2>1, <2>7
  <2>8. \A b \in Alarms : due'[b] # None => clk' < due'[b] + MaxStep
    BY <2>1, <2>3, <2>6, <2>7, <2>7a
  <2>9. clk' < next_clk' + MaxStep
    BY <2>1, <2>2, <2>3, <2>8, NotLateAfter
  <2>10. pending_idx'[Raster] # None /\ RasterClk' = RasterClk - sub
    <3>1. due[Raster] # None /\ due[Raster] = RasterClk /\ RasterClk \in Nat
      BY CpuNumbers DEF Clock, None
    <3>2. due'[Raster] = due[Raster] + (-sub) /\ due'[Raster] \in Nat
      BY <2>6, <2>7a, <3>1
    <3>3. due'[Raster] # None
      BY <3>2 DEF None
    <3> QED BY <2>1, <3>1, <3>2, <3>3, RasterAfter
  <2>11. /\ RasterClk' = rclk' /\ rclk' >= 0 /\ rclk' > clk' - MaxStep
         /\ called'.alarm = in_call'
    <3>1. called' = called /\ called.offset \in Nat
      BY <1>3, RclkFacts DEF TimeWarp
    <3>2. rclk' = rclk - sub /\ rclk \in Nat /\ rclk > clk - MaxStep /\ RasterClk = rclk
      BY <1>1, <2>1, <2>3, <3>1, RclkFacts, CpuAssumption DEF rclk, CpuInv, RasterOnTime
    <3>3. rclk - sub >= 0
      BY <2>1, <3>2
    <3>4. called'.alarm = in_call'
      BY <1>1, <3>1, RclkFacts
    <3> QED BY <2>1, <2>3, <2>10, <3>2, <3>3, <3>4
  <2>12. epoch' \in Nat
    BY <1>3, <2>1 DEF CpuInv, CpuTypeOK, sub
  <2>13. CpuTypeOK' /\ ClockBound'
    <3>1. clk' \in Clock /\ clk' <= GuardMax + Frame + MaxStep - 2
      BY <2>1, <2>2, <2>3 DEF Clock
    <3>2. in_call' \in Alarms \cup {NoAlarm} /\ vsync_due' \in BOOLEAN
      BY <1>1
    <3> QED BY <2>12, <3>1, <3>2 DEF CpuTypeOK, ClockBound, Inv
  <2>14. RasterOnTime'
    BY <1>1, <2>2, <2>3, <2>9, <2>10, <2>11 DEF RasterOnTime
  <2> QED BY <2>13, <2>14 DEF CpuInv, Inv
<1> QED BY <1>2, <1>3 DEF VSync

LEMMA ReturnStep == ASSUME CpuInv, Inv', ReturnFromRaster PROVE CpuInv'
<1> USE AlarmAssumption, CpuAssumption
<1> DEFINE t == RasterClk + Frame
<1>0. RasterClk = rclk /\ rclk <= clk
  BY RclkFacts DEF ReturnFromRaster, CpuInv, RasterOnTime
<1>1. /\ UNCHANGED <<clk, epoch>> /\ ~vsync_due' /\ in_call' = NoAlarm
      /\ vsync_due' \in BOOLEAN /\ AlarmSet(Raster, Wrap(t))
      /\ RasterClk <= clk /\ clk < GuardMax /\ RasterClk \in Nat /\ clk \in Nat
      /\ GuardMax \in Nat
  BY <1>0, CpuNumbers DEF ReturnFromRaster, CpuInv, CpuTypeOK, RasterOnTime, Clock
<1>2. t \in Clock /\ t <= GuardMax - 1 + Frame /\ t > RasterClk
  BY <1>1 DEF Clock, GuardMax
<1>3. Wrap(t) = t
  BY <1>2 DEF Wrap, Clock
<1> HIDE DEF t
<1>4. due' = due \/ due' = [due EXCEPT ![Raster] = t]
  BY <1>1, <1>2, <1>3, CpuNumbers, SetSimulation DEF Queue!Set, Queue!vars
<1>5. due'[Raster] \in {RasterClk, t}
  BY <1>4, CpuNumbers DEF due
<1>6. \A b \in Alarms : b # Raster => due'[b] = due[b]
  <2>1. due = [b \in Alarms |-> due[b]]
    BY DEF due
  <2> QED BY <1>4, <2>1
<1>7. \A b \in Alarms : due'[b] # None => clk' < due'[b] + MaxStep
  <2>1. \A b \in Alarms : due[b] # None => clk < due[b] + MaxStep
    BY CpuNumbers DEF due
  <2>2. clk < t + MaxStep /\ clk < RasterClk + MaxStep
    BY <1>1, <1>2, CpuNumbers DEF Clock
  <2> QED BY <1>1, <1>5, <1>6, <2>1, <2>2
<1>8. clk' < next_clk' + MaxStep
  BY <1>1, <1>7, CpuNumbers, NotLateAfter
<1>9. pending_idx'[Raster] # None /\ RasterClk' <= GuardMax - 1 + Frame
  BY <1>1, <1>2, <1>5, RasterAfter DEF None, Clock
<1>10. CpuTypeOK' /\ ClockBound'
  BY <1>1 DEF CpuInv, CpuTypeOK, ClockBound, Inv
<1>11. RasterOnTime'
  BY <1>1, <1>8, <1>9 DEF RasterOnTime
<1> QED BY <1>10, <1>11 DEF CpuInv, Inv

(* The context and the clock of the main CPU fit each other in every       *)
(* state, also within a callback and while a device catches up             *)
(* (maincpu.c, vsync.c, clkguard.c).                                       *)
THEOREM CpuInvariant == CpuSpec => []CpuInv
<1>1. CpuInit => CpuInv
  <2> SUFFICES ASSUME CpuInit PROVE CpuInv
    OBVIOUS
  <2> USE AlarmAssumption, CpuAssumption DEF CpuInit, None, Slots
  <2>1. Frame \in Clock /\ Frame < GuardMax /\ GuardMax \in Nat /\ 0 \in Slots
    BY DEF Clock, GuardMax
  <2>2. TypeOK
    BY <2>1 DEF TypeOK, Clock
  <2>3. CpuTypeOK
    <3>1. clk = 0 /\ in_call = NoAlarm /\ vsync_due = FALSE /\ epoch = 0
      OBVIOUS
    <3>2. 0 \in Clock
      BY DEF Clock
    <3> HIDE DEF CpuInit
    <3> QED BY <2>2, <3>1, <3>2 DEF CpuTypeOK
  <2>4. BackLinksMatch /\ NextIsEarliest
    BY <2>1 DEF BackLinksMatch, NextIsEarliest, Used, Clock
  <2>5. ClockBound
    <3>1. clk = 0 /\ Frame \in Nat \ {0} /\ MaxStep \in Nat \ {0}
      OBVIOUS
    <3> QED BY <2>1, <3>1 DEF ClockBound
  <2>6. RasterClk = Frame /\ pending_idx[Raster] = 0
    BY <2>1 DEF RasterClk
  <2>7. RasterOnTime
    <3>1. in_call = NoAlarm /\ NoAlarm # Raster /\ vsync_due = FALSE
          /\ clk = 0 /\ next_clk = Frame
      OBVIOUS
    <3> HIDE DEF CpuInit
    <3> QED BY <2>1, <2>6, <3>1 DEF RasterOnTime, Clock
  <2> QED BY <2>3, <2>4, <2>5, <2>7 DEF CpuInv
<1>2. CpuInv /\ [CpuNext]_cpuVars => CpuInv'
  <2> SUFFICES ASSUME CpuInv, [CpuNext]_cpuVars PROVE CpuInv'
    OBVIOUS
  <2>1. Inv'
    BY ContextInv
  <2>2. CASE UNCHANGED cpuVars
    BY <2>2 DEF cpuVars, cpu, vars, CpuInv, CpuTypeOK, TypeOK, BackLinksMatch,
                NextIsEarliest, Used, ClockBound, RasterOnTime, RasterClk, rclk
  <2> QED BY <2>1, <2>2, InstructionStep, DeviceStep, CallStep, VSyncStep, ReturnStep
          DEF CpuNext
<1> QED BY <1>1, <1>2, PTL DEF CpuSpec

(* The 32-bit clock of the main CPU is never exhausted, whatever the       *)
(* devices do within their MaxAhead cycles, although the guard looks at it *)
(* only in the callback that ends a frame.                                 *)
THEOREM ClockStaysInBound == CpuSpec => []ClockBound
BY CpuInvariant, PTL DEF CpuInv

(* The CPU warps its context only by what every pending tick can give up   *)
(* and compares it only with clocks below the largest tick, so the facts   *)
(* proved about the context by itself hold in the machine.                 *)
THEOREM ContextIsUsedWell == CpuSpec => UsesContextWell
<1>1. CpuInv /\ [CpuNext]_cpuVars => [Next]_vars
  BY ContextStep
<1> QED BY <1>1, CpuInvariant, PTL DEF CpuSpec, UsesContextWell

-----------------------------------------------------------------------------
(* The ticks of the ideal clock are those of the queue plus the epoch.     *)
RealDueIsShifted ==
  real_due = [b \in Alarms |-> IF due[b] = None THEN None ELSE epoch + due[b]]

LEMMA RealDue == Inv => RealDueIsShifted
<1> SUFFICES ASSUME Inv PROVE RealDueIsShifted
  OBVIOUS
<1>1. \A b \in Alarms : pending_idx[b] # None => due[b] # None
  BY DueFacts DEF Clock, None
<1> QED BY <1>1 DEF RealDueIsShifted, real_due, due

LEMMA RealDueAfter == Inv' => RealDueIsShifted'
BY RealDue, PTL

(* Moving one tick moves the same real tick.                               *)
LEMMA MoveIsIdealMove ==
  ASSUME Inv, Inv', NEW a \in Alarms, NEW t \in Nat, epoch \in Nat,
         UNCHANGED epoch, UNCHANGED clk, UNCHANGED called,
         due' = [due EXCEPT ![a] = t]
  PROVE  Ideal!MoveTo(a, epoch + t) /\ real_due'[a] = epoch + t
<1>1. real_due = [b \in Alarms |-> IF due[b] = None THEN None ELSE epoch + due[b]]
  BY RealDue DEF RealDueIsShifted
<1>2. real_due' = [b \in Alarms |-> IF due'[b] = None THEN None ELSE epoch + due'[b]]
  BY RealDueAfter DEF RealDueIsShifted
<1>3. \A b \in Alarms : due'[b] = IF b = a THEN t ELSE due[b]
  BY DEF due
<1>4. t # None
  BY DEF None
<1>5. \A b \in Alarms : real_due'[b] = IF b = a THEN epoch + t ELSE real_due[b]
  <2>1. ASSUME NEW b \in Alarms
        PROVE  real_due'[b] = IF b = a THEN epoch + t ELSE real_due[b]
    <3>1. CASE b = a
      BY <1>2, <1>3, <1>4, <3>1
    <3>2. CASE b # a
      BY <1>1, <1>2, <1>3, <3>2
    <3> QED BY <3>1, <3>2
  <2> QED BY <2>1
<1>6. real_due' = [b \in Alarms |-> real_due'[b]] /\ real_due = [b \in Alarms |-> real_due[b]]
  BY DEF real_due
<1>7. real_due' = [real_due EXCEPT ![a] = epoch + t]
  BY <1>5, <1>6
<1>8. real_now' = real_now
  BY DEF real_now
<1> QED BY <1>5, <1>7, <1>8 DEF Ideal!MoveTo

LEMMA UnsetIsIdealUnset ==
  ASSUME Inv, Inv', NEW a \in Alarms, epoch \in Nat,
         UNCHANGED epoch, UNCHANGED clk, AlarmUnset(a)
  PROVE  Ideal!Unset(a)
<1>1. due' = [due EXCEPT ![a] = None] /\ called' = called
  BY UnsetSimulation DEF AlarmUnset, Queue!Unset, Queue!NoClock, None
<1>2. \A b \in Alarms : due'[b] = IF b = a THEN None ELSE due[b]
  BY <1>1 DEF due
<1>3. real_due = [b \in Alarms |-> IF due[b] = None THEN None ELSE epoch + due[b]]
  BY RealDue DEF RealDueIsShifted
<1>4. real_due' = [b \in Alarms |-> IF due'[b] = None THEN None ELSE epoch + due'[b]]
  BY RealDueAfter DEF RealDueIsShifted
<1>5. \A b \in Alarms : real_due'[b] = IF b = a THEN None ELSE real_due[b]
  BY <1>2, <1>3, <1>4
<1>6. real_due' = [b \in Alarms |-> real_due'[b]] /\ real_due = [b \in Alarms |-> real_due[b]]
  BY DEF real_due
<1>7. real_due' = [real_due EXCEPT ![a] = None]
  BY <1>5, <1>6
<1>8. real_now' = real_now
  BY DEF real_now
<1> QED BY <1>1, <1>7, <1>8 DEF Ideal!Unset, Ideal!NotSet, None

(* A device sets its alarm to the present or later, or to a tick later     *)
(* than the one its callback was called for.                               *)
LEMMA SetIsIdealSet ==
  ASSUME CpuInv, Inv', NEW a \in Alarms, UNCHANGED epoch, UNCHANGED clk,
         NEW t \in Clock, AlarmSet(a, t),
         t >= clk \/ (called.alarm = a /\ t > rclk)
  PROVE  [Ideal!Next]_(Ideal!vars)
<1> USE AlarmAssumption, CpuAssumption
<1>1. /\ t \in Nat /\ clk \in Nat /\ epoch \in Nat /\ Inv
      /\ called.offset \in Nat
  BY CpuNumbers, RclkFacts DEF Clock, CpuInv, CpuTypeOK
<1>4. Queue!Set(a, t) \/ UNCHANGED Queue!vars
  BY <1>1, SetSimulation
<1>5. CASE Queue!Set(a, t)
  <2>1. due' = [due EXCEPT ![a] = t] /\ called' = called
    BY <1>5 DEF Queue!Set
  <2>2. Ideal!MoveTo(a, epoch + t) /\ real_due'[a] = epoch + t
    BY <1>1, <2>1, MoveIsIdealMove
  <2>3. CASE t >= clk
    <3>1. real_due'[a] >= real_now
      BY <1>1, <2>2, <2>3 DEF real_now
    <3> QED BY <2>2, <3>1 DEF Ideal!Next, Ideal!Set
  <2>4. CASE called.alarm = a /\ t > rclk
    <3>1. real_due'[a] > real_now - called.offset
      BY <1>1, <2>2, <2>4 DEF real_now, rclk
    <3> QED BY <2>2, <2>4, <3>1 DEF Ideal!Next, Ideal!Repeat
  <2> QED BY <2>3, <2>4
<1>6. CASE UNCHANGED Queue!vars
  <2>1. due' = due /\ called' = called
    BY <1>6 DEF Queue!vars
  <2>2. real_due' = real_due
    BY <1>1, <2>1, RealDue, RealDueAfter DEF RealDueIsShifted
  <2> QED BY <2>1, <2>2 DEF Ideal!vars, real_now
<1> QED BY <1>4, <1>5, <1>6

LEMMA CallIsIdealCall ==
  ASSUME CpuInv, Call
  PROVE  Ideal!Next
<1>1. /\ Inv /\ clk \in Nat /\ clk < ClockMax /\ epoch \in Nat /\ Dispatch(clk)
      /\ UNCHANGED <<clk, epoch>>
  BY CpuNumbers DEF Call, CpuInv, CpuTypeOK
<1>2. clk \in 0..(ClockMax - 1)
  BY <1>1, AlarmAssumption
<1>3. PICK a \in Queue!Pending :
        /\ clk >= due[a]
        /\ \A b \in Queue!Pending : due[a] <= due[b]
        /\ called' = [alarm |-> a, offset |-> clk - due[a]]
        /\ UNCHANGED due
  BY <1>1, <1>2, DispatchSimulation DEF Queue!Dispatch
<1>4. \A b \in Alarms : due[b] # None => due[b] \in Nat
  BY <1>1, DueFacts DEF due, Clock
<1>5. \A b \in Alarms : real_due[b] = IF due[b] = None THEN None ELSE epoch + due[b]
  BY <1>1, RealDue DEF RealDueIsShifted
<1>6. \A b \in Alarms : due[b] # None => /\ real_due[b] = epoch + due[b]
                                         /\ real_due[b] # None
  BY <1>1, <1>4, <1>5 DEF None
<1>7. Ideal!Pending = Queue!Pending
  BY <1>5, <1>6 DEF Ideal!Pending, Queue!Pending, Ideal!NotSet, Queue!NoClock, None
<1>8. \A b \in Queue!Pending : b \in Alarms /\ due[b] # None
  BY DEF Queue!Pending, Queue!NoClock, None
<1>9. real_due[a] <= real_now /\ real_now - real_due[a] = clk - due[a]
  BY <1>1, <1>3, <1>4, <1>6, <1>8 DEF real_now
<1>10. \A b \in Ideal!Pending : real_due[a] <= real_due[b]
  BY <1>1, <1>3, <1>4, <1>6, <1>7, <1>8
<1>11. UNCHANGED <<real_now, real_due>>
  BY <1>1 DEF real_now, real_due, Dispatch, array
<1>12. Ideal!Call(a)
  BY <1>3, <1>7, <1>9, <1>10, <1>11 DEF Ideal!Call
<1> QED BY <1>3, <1>8, <1>12 DEF Ideal!Next

(* A trip of the guard moves no tick of the ideal clock.                   *)
LEMMA VSyncIsStutter ==
  ASSUME CpuInv, Inv', VSync
  PROVE  UNCHANGED Ideal!vars
<1> USE AlarmAssumption, CpuAssumption
<1>1. CASE UNCHANGED <<vars, clk, epoch>>
  BY <1>1 DEF vars, Ideal!vars, real_now, real_due
<1>2. CASE /\ GuardTrips
           /\ clk' = Wrap(clk - ClockSub)
           /\ epoch' = epoch + ClockSub
           /\ TimeWarp(-ClockSub)
  <2> DEFINE sub == ClockSub
  <2>1. /\ sub \in Nat /\ clk - sub \in Nat /\ clk - sub <= ClockMax
        /\ clk \in Nat /\ epoch \in Nat /\ Inv
    BY <1>2, ClockSubBounds, CpuNumbers DEF GuardTrips, CpuInv, CpuTypeOK
  <2>2. clk' = clk - sub
    BY <1>2, <2>1 DEF Wrap
  <2>3. WarpAllowed(-sub) /\ -sub \in -ClockMax..ClockMax
    BY <1>2, WarpIsAllowed DEF VSync
  <2>4. TimeWarp(-sub) /\ epoch' = epoch + sub /\ called' = called
    BY <1>2 DEF TimeWarp
  <2> HIDE DEF sub
  <2>5. Queue!TimeWarp(-sub)
    BY <2>1, <2>3, <2>4, WarpSimulation
  <2>6. \A b \in Alarms : due'[b] = IF due[b] # None THEN due[b] + (-sub) ELSE None
    BY <2>5 DEF Queue!TimeWarp, Queue!Pending, Queue!NoClock, None
  <2>7. \A b \in Alarms : due[b] # None => due[b] \in Nat /\ due[b] + (-sub) \in Nat
    <3>1. \A b \in Alarms : due[b] # None => due[b] \in Nat /\ due[b] >= next_clk
      BY <2>1, DueFacts DEF due, Clock
    <3>2. next_clk + (-sub) >= 0 /\ next_clk \in Nat
      BY <2>3, CpuNumbers DEF WarpAllowed
    <3> QED BY <2>1, <3>1, <3>2
  <2>8. real_due = [b \in Alarms |-> IF due[b] = None THEN None ELSE epoch + due[b]]
    BY <2>1, RealDue DEF RealDueIsShifted
  <2>9. real_due' = [b \in Alarms |-> IF due'[b] = None THEN None ELSE epoch' + due'[b]]
    BY RealDueAfter DEF RealDueIsShifted
  <2>10. ASSUME NEW b \in Alarms
         PROVE  (IF due'[b] = None THEN None ELSE epoch' + due'[b])
                = IF due[b] = None THEN None ELSE epoch + due[b]
    <3>1. CASE due[b] = None
      BY <2>6, <3>1
    <3>2. CASE due[b] # None
      <4>1. due'[b] = due[b] + (-sub) /\ due'[b] \in Nat /\ due[b] \in Nat
        BY <2>6, <2>7, <3>2
      <4>2. due'[b] # None
        BY <4>1 DEF None
      <4>3. epoch' + due'[b] = epoch + due[b]
        BY <2>1, <2>4, <4>1
      <4> QED BY <3>2, <4>2, <4>3
    <3> QED BY <3>1, <3>2
  <2>11. real_due' = real_due
    BY <2>8, <2>9, <2>10
  <2>12. real_now' = real_now
    BY <2>1, <2>2, <2>4 DEF real_now
  <2> QED BY <2>4, <2>11, <2>12 DEF Ideal!vars
<1> QED BY <1>1, <1>2 DEF VSync

LEMMA ReturnIsIdealRepeat ==
  ASSUME CpuInv, Inv', ReturnFromRaster
  PROVE  [Ideal!Next]_(Ideal!vars)
<1> USE AlarmAssumption, CpuAssumption
<1> DEFINE t == rclk + Frame
<1>1. /\ UNCHANGED clk /\ UNCHANGED epoch /\ AlarmSet(Raster, Wrap(t))
      /\ clk < GuardMax /\ in_call = Raster
  BY DEF ReturnFromRaster, CpuInv, RasterOnTime
<1>2. rclk \in Nat /\ rclk <= clk /\ called.alarm = Raster /\ GuardMax \in Nat /\ clk \in Nat
  BY <1>1, RclkFacts, CpuNumbers
<1>3. t \in Clock /\ t > rclk
  BY <1>1, <1>2 DEF Clock, GuardMax
<1>4. AlarmSet(Raster, t)
  BY <1>1, <1>3 DEF Wrap, Clock
<1> HIDE DEF t
<1> QED BY <1>1, <1>2, <1>3, <1>4, SetIsIdealSet

LEMMA InstructionIsIdealAdvance ==
  ASSUME CpuInv, Inv', Instruction
  PROVE  Ideal!Next
<1> USE AlarmAssumption, CpuAssumption
<1>1. /\ Inv /\ clk \in Nat /\ clk < next_clk /\ next_clk \in Nat /\ epoch \in Nat
      /\ UNCHANGED <<vars, epoch>>
  BY CpuNumbers DEF Instruction, AlarmIsDue, CpuInv, CpuTypeOK
<1>2. PICK d \in 1..MaxStep : clk' = Wrap(clk + d)
  BY DEF Instruction
<1>3. clk + d \in Clock /\ clk + d \in Nat /\ clk + d > clk
  <2>1. clk < RasterClk /\ RasterClk <= GuardMax - 1 + Frame /\ RasterClk \in Nat
        /\ GuardMax \in Nat
    BY <1>1, CpuNumbers DEF CpuInv, RasterOnTime, Instruction, Clock
  <2> QED BY <1>1, <2>1 DEF Clock, GuardMax
<1>4. clk' = clk + d
  BY <1>2, <1>3 DEF Wrap, Clock
<1>5. real_now' \in Nat /\ real_now' > real_now
  BY <1>1, <1>3, <1>4 DEF real_now
<1>6. UNCHANGED <<real_due, called>>
  BY <1>1 DEF vars, real_due
<1>7. \A b \in Ideal!Pending : real_now < real_due[b]
  <2>1. \A b \in Alarms : due[b] # None => due[b] \in Nat /\ due[b] > clk
    BY <1>1, DueFacts DEF due, Clock
  <2>2. \A b \in Alarms : real_due[b] = IF due[b] = None THEN None ELSE epoch + due[b]
    BY <1>1, RealDue DEF RealDueIsShifted
  <2>3. \A b \in Ideal!Pending : b \in Alarms /\ due[b] # None
    BY <2>2 DEF Ideal!Pending, Ideal!NotSet, None
  <2>4. \A b \in Ideal!Pending : real_due[b] = epoch + due[b]
    BY <2>2, <2>3
  <2> QED BY <1>1, <2>1, <2>3, <2>4 DEF real_now
<1>8. Ideal!Advance
  BY <1>5, <1>6, <1>7 DEF Ideal!Advance
<1> QED BY <1>8 DEF Ideal!Next

(* On the real time scale the machine with its 32-bit clock and its guard  *)
(* is a machine whose clock has no end: no alarm early, lost or called out *)
(* of order, no instruction while an alarm is due.                         *)
THEOREM CpuImplementsIdealClock == CpuSpec => ImplementsIdealClock
<1>1. CpuInit => Ideal!Init
  <2> SUFFICES ASSUME CpuInit PROVE Ideal!Init
    OBVIOUS
  <2>1. clk = 0 /\ epoch = 0 /\ called = [alarm |-> NoAlarm, offset |-> 0]
    BY DEF CpuInit
  <2>2. real_due \in [Alarms -> Nat \cup {None}]
    BY CpuAssumption, AlarmAssumption DEF CpuInit, real_due, None, Slots
  <2> QED BY <2>1, <2>2 DEF Ideal!Init, Ideal!NotSet, real_now, None
<1>2. ASSUME CpuInv, CpuInv', [CpuNext]_cpuVars PROVE [Ideal!Next]_(Ideal!vars)
  <2>1. Inv'
    BY <1>2, ContextInv
  <2>2. ASSUME NEW a \in Alarms,
               DeviceSets(a) \/ DeviceUnsets(a) \/ ReturnFromDevice(a)
        PROVE  [Ideal!Next]_(Ideal!vars)
    <3>1. /\ UNCHANGED epoch /\ UNCHANGED clk /\ epoch \in Nat /\ Inv
          /\ \/ AlarmUnset(a)
             \/ \E t \in Clock : /\ AlarmSet(a, t)
                                 /\ t >= clk \/ (called.alarm = a /\ t > rclk)
      BY <1>2, <2>2, CpuNumbers, DeviceOps DEF CpuInv, CpuTypeOK
    <3>2. CASE AlarmUnset(a)
      BY <1>2, <2>1, <3>1, <3>2, UnsetIsIdealUnset DEF Ideal!Next
    <3> QED BY <1>2, <2>1, <3>1, <3>2, SetIsIdealSet
  <2>3. CASE UNCHANGED cpuVars
    BY <2>3 DEF cpuVars, cpu, vars, Ideal!vars, real_now, real_due
  <2> QED BY <1>2, <2>1, <2>2, <2>3, InstructionIsIdealAdvance, CallIsIdealCall,
             VSyncIsStutter, ReturnIsIdealRepeat DEF CpuNext
<1> QED BY <1>1, <1>2, CpuInvariant, PTL DEF CpuSpec, ImplementsIdealClock, Ideal!Spec
=============================================================================
