------------------------------- MODULE CiaTimer -------------------------------
(***************************************************************************)
(* A timer of a CIA chip (core/ciatimer.c, core/ciatimer.h).  The state of *)
(* the timer is a set of bits that move through a pipeline, one stage per  *)
(* cycle; the counter is decremented by the last stage.  Nothing runs      *)
(* while the cycles pass: ciat_update replays them when somebody looks at  *)
(* the timer, many at once where the pipeline is steady, and               *)
(* ciat_set_alarm looks ahead for the next underflow.                      *)
(*                                                                         *)
(* A timer is a record: state, cnt and latch; clk, the cycle up to which   *)
(* it has been replayed; alarmclk, the tick the timer believes its alarm   *)
(* is set to, and pending, the tick the alarm context has for it.          *)
(*                                                                         *)
(* Definitions named ...OffByOne, ...Forgotten and the like are plausible  *)
(* mistakes that a property of the runs has to reject.                     *)
(***************************************************************************)
EXTENDS Integers

CONSTANT ClockMax   \* CLOCK_MAX: the tick of an alarm that is not set

ASSUME TimerAssumption == ClockMax \in Nat \ {0}

(* CIAT_CR_START ... CIAT_OUT                                              *)
Bits == {"START", "CR_ONESHOT", "FLOAD", "PHI2IN", "STEP", "COUNT2", "COUNT3",
         "COUNT", "LOAD1", "LOAD", "ONESHOT0", "ONESHOT", "OUT"}

Given(condition, bits) == IF condition THEN bits ELSE {}

(* ciat_table: where the bits are one cycle later.                         *)
Pipeline(s) ==
  (s \cap {"START", "CR_ONESHOT", "PHI2IN"})
  \cup Given({"START", "PHI2IN"} \subseteq s, {"COUNT2"})
  \cup Given("COUNT2" \in s \/ {"STEP", "START"} \subseteq s, {"COUNT3"})
  \cup Given("COUNT3" \in s, {"COUNT"})
  \cup Given("FLOAD" \in s, {"LOAD1"})
  \cup Given("LOAD1" \in s, {"LOAD"})
  \cup Given("CR_ONESHOT" \in s, {"ONESHOT0"})
  \cup Given("ONESHOT0" \in s, {"ONESHOT"})

(* One cycle of the counter and the pipeline.                              *)
Inc(t) == [t EXCEPT !.cnt = IF t.cnt > 0 /\ "COUNT3" \in t.state
                              THEN t.cnt - 1 ELSE t.cnt,
                    !.state = Pipeline(t.state)]

(* What every pass through the loop of ciat_update ends with: an underflow *)
(* reloads the counter, and stops a timer in one-shot mode.                *)
AtZero(t) == t.cnt = 0 /\ "COUNT3" \in t.state

Zeroed(t) == [t EXCEPT !.state = @ \cup Given(AtZero(t), {"LOAD", "OUT"})]
Loaded(t) == IF "LOAD" \in t.state
               THEN [t EXCEPT !.cnt = t.latch, !.state = @ \ {"COUNT3"}] ELSE t
Halted(t) == IF "OUT" \in t.state /\ t.state \cap {"ONESHOT", "ONESHOT0"} # {}
               THEN [t EXCEPT !.state = @ \ {"START", "COUNT2"}] ELSE t
Reload(t) == Halted(Loaded(Zeroed(t)))

(* One cycle, counted by itself; the number of underflows in it.           *)
Cycle(t) == Reload(Inc(t))
Underflows(t) == IF AtZero(Inc(t)) THEN 1 ELSE 0

(* What decides about the cycles to come.  The table never reads COUNT,     *)
(* and STEP counts in a timer that runs and does not count anyway: these   *)
(* two the replay of many cycles at once need not get right.               *)
Stepped(s) == {"STEP", "START"} \subseteq s /\ "COUNT2" \notin s

Core(t) == <<t.cnt, t.latch, t.state \ {"COUNT", "STEP"}, Stepped(t.state)>>

-----------------------------------------------------------------------------
(* ciat_update, the states it can pass over many cycles of at once.        *)
ModeIsSteady(s) == \/ {"CR_ONESHOT", "ONESHOT0", "ONESHOT"} \subseteq s
                   \/ {"CR_ONESHOT", "ONESHOT0", "ONESHOT"} \cap s = {}

Counting(s) ==
  /\ {"START", "PHI2IN", "COUNT2", "COUNT3", "COUNT"} \subseteq s
  /\ s \cap {"FLOAD", "LOAD1", "LOAD"} = {}
  /\ ModeIsSteady(s)

NotCounting(s) ==
  /\ s \cap {"COUNT2", "COUNT3", "COUNT"} = {}
  /\ "START" \notin s \/ s \cap {"PHI2IN", "STEP"} = {}
  /\ ModeIsSteady(s)

Stopped(s) == NotCounting(s) /\ s \cap {"FLOAD", "LOAD1", "LOAD"} = {}

EveryOtherCycle(t) ==
  /\ t.state = {"COUNT", "OUT", "LOAD", "PHI2IN", "COUNT2", "START"}
  /\ t.cnt = 1
  /\ t.latch = 1

(* The whole periods in so many cycles after an underflow, and how far a   *)
(* steadily counting timer is moved at once.                               *)
PeriodForgetsUnderflow(t) == IF t.latch > 1 THEN t.latch ELSE 1
Period(t) == t.latch + 1

(* The comparison is made in 16 bits.                                      *)
WarpCounting(t, cclk) ==
  LET zero    == t.clk + t.cnt
      oneshot == t.state \cap {"CR_ONESHOT", "ONESHOT0"} # {}
      m       == IF oneshot \/ (cclk - zero) % 65536 < Period(t) THEN 0
                 ELSE (cclk - zero) \div Period(t)
  IN  IF zero > cclk
        THEN [timer |-> [t EXCEPT !.cnt = t.cnt - (cclk - t.clk),
                                  !.clk = cclk],
              n |-> 0]
        ELSE [timer |-> [t EXCEPT !.cnt = 0, !.clk = zero + m * Period(t)],
              n |-> m]

(* One pass through the loop before the common end.                        *)
Pass(t, cclk) ==
  LET even == ((cclk - t.clk) \div 2) * 2
  IN  CASE Counting(t.state) -> WarpCounting(t, cclk)
        [] Stopped(t.state) -> [timer |-> [t EXCEPT !.clk = cclk], n |-> 0]
        [] EveryOtherCycle(t) /\ even > 0 ->
             [timer |-> [t EXCEPT !.clk = t.clk + even], n |-> even \div 2]
        [] OTHER -> [timer |-> [Inc(t) EXCEPT !.clk = t.clk + 1], n |-> 0]

EndOfPass(p, n) == [timer |-> Reload(p.timer),
                    n     |-> n + p.n + (IF AtZero(p.timer) THEN 1 ELSE 0)]

Turn(u, cclk) == IF u.timer.clk >= cclk THEN u
                 ELSE EndOfPass(Pass(u.timer, cclk), u.n)

Turns(t, cclk) ==
  LET turns[k \in Nat] == IF k = 0 THEN [timer |-> t, n |-> 0]
                          ELSE Turn(turns[k - 1], cclk)
  IN  turns

(* The timer replayed up to cclk and the number of underflows on the way.  *)
(* Every pass but the first, which may find the counter at 0, takes time.  *)
Update(t, cclk) ==
  Turns(t, cclk)[IF t.clk < cclk THEN cclk - t.clk + 1 ELSE 0]

-----------------------------------------------------------------------------
(* ciat_set_alarm: the tick of the next underflow if nobody interferes.    *)
(* It looks ahead until the timer counts steadily, or not at all; that     *)
(* takes as many cycles at the most as the pipeline has stages.            *)
Course(t) ==
  LET course[k \in Nat] == IF k = 0 THEN t ELSE Cycle(course[k - 1]) IN course

Stages == 4

Foreseen(t) == \/ Counting(t.state)
               \/ NotCounting(t.state)
               \/ AtZero(Inc(t))

AlarmOf(s, tick) == CASE Counting(s.state) -> tick + s.cnt
                      [] NotCounting(s.state) -> ClockMax
                      [] OTHER -> tick + 1

AlarmAfter(t, k, aclk) == AlarmOf(Course(t)[k], aclk + k)

NextUnderflow(t, aclk) ==
  AlarmAfter(t,
             CHOOSE k \in 0..Stages : /\ Foreseen(Course(t)[k])
                                      /\ \A j \in 0..k - 1 : ~Foreseen(Course(t)[j]),
             aclk)

AlarmAt(t, tick) == [t EXCEPT !.alarmclk = tick, !.pending = tick]
SetAlarm(t) == AlarmAt(t, NextUnderflow(t, t.clk))

AckAlarm(t) == AlarmAt(t, ClockMax)

(* The registers of a timer.  The high byte of the latch stays 0 in the    *)
(* model: a store to it is the strobe that loads a stopped counter.        *)
WithLatchLo(t, byte) ==
  [t EXCEPT !.latch = byte,
            !.cnt = IF "LOAD" \in t.state THEN byte ELSE t.cnt]

WithLatchHi(t) ==
  [t EXCEPT !.cnt = IF "LOAD" \in t.state \/ "START" \notin t.state
                      THEN t.latch ELSE t.cnt]

(* ciat_set_ctrl: bit 5 (CNT) selects another input than the system clock. *)
WithControl(t, byte) ==
  [t EXCEPT !.state = (t.state \ {"START", "CR_ONESHOT", "FLOAD", "PHI2IN"})
                      \cup (byte \cap {"START", "CR_ONESHOT", "FLOAD"})
                      \cup Given("CNT" \notin byte, {"PHI2IN"})]

(* ciat_single_step: timer B counts one underflow of timer A.              *)
WithStep(t) == [t EXCEPT !.state = t.state \cup Given("START" \in t.state,
                                                      {"STEP"})]

SingleStep(t) == IF "START" \in t.state THEN SetAlarm(WithStep(t)) ELSE t

(* ciat_prevent_clock_overflow                                             *)
PreventClockOverflow(t, sub) ==
  [t EXCEPT !.clk = t.clk - sub,
            !.alarmclk = IF t.alarmclk < ClockMax THEN t.alarmclk - sub
                                                  ELSE ClockMax]

(* ciat_load_snapshot, the state being in the snapshot since version 1.1.  *)
LoadSnapshot(t, cclk) == SetAlarm([t EXCEPT !.clk = cclk])
=============================================================================
